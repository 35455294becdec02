CONSTANTS
    port1 = port1
    port2 = port2
    host = host
    servicePorts = servicePorts
    outOfSpec = outOfSpec
    Items = {port1, port2, host}
    Rules = {servicePorts, outOfSpec}
    AspRules = {servicePorts}
    RuleOf <- MCRuleOf
    Policies <- MCPolicies
    NoVersion = NoVersion
    NoRow = NoRow
    Never = Never
    MaxOpenRows = 1
    AckRetention = 0
    MaxReceived = 2
    MaxVersions = 2
    MaxTime = 1
SPECIFICATION Spec
SYMMETRY MCSymmetry
INVARIANT NeverDisagree
