CONSTANTS
    b1 = b1
    b2 = b2
    b3 = b3
    b4 = b4
    d1 = d1
    k0 = k0
    k1 = k1
    padded = padded
    s1 = s1
    one = one
    two = two
    Bundles = {b1, b2, b3, b4}
    Content <- MCContent
    Deployments = {d1}
    NoDeployment = NoDeployment
    Keys = {k0, k1}
    DefaultKey = k0
    Unusable = {padded}
    NoKey = NoKey
    Sandboxes = {s1}
    Labels = {one, two}
    Retentions <- MCRetentions
    NoVersion = NoVersion
    NoIdentity = NoIdentity
    MaxTime = 1
    MaxLoads = 3
SPECIFICATION Spec
INVARIANTS TypeOK EvidenceKept LockedAtMostOnce ReplayAnswered NoMisattribution
PROPERTIES NewestStaysCompared SharedSandboxKeyed ArchiveKept
SYMMETRY MCSymmetry
