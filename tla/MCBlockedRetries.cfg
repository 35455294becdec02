\* A log six seconds behind the captures, and a request retried after ten.
SPECIFICATION Spec
CONSTANTS
    Requests = {1, 2}
    Denials = {1, 2}
    CapturedAt <- RetryCaptured
    LoggedAt <- RetryLogged
    BlockedBy <- RetryBlocked
    NoDenial = NoDenial
    Match = 10
    MayFail = {}
    MaxBatch = 2
    HeldMax = 2
    ReleaseBatch = 2
PROPERTIES
    BlockedIsNotJudged
