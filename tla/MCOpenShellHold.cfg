\* Room for two held requests, released one at a time.
SPECIFICATION FairSpec
CONSTANTS
    Requests = {1, 2, 3}
    Denials = {1, 2}
    CapturedAt <- NearCaptured
    LoggedAt <- NearLogged
    BlockedBy <- NearBlocked
    NoDenial = NoDenial
    Match = 1
    MayFail = {2}
    MaxBatch = 2
    HeldMax = 2
    ReleaseBatch = 1
INVARIANTS
    TypeOK
    OneDenialOneRequest
PROPERTIES
    JudgedOnlyUnexcused
    Settled
