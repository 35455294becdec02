\* Three schemas and a queue of one: a lookup finds the queue full.
SPECIFICATION FairSpec
CONSTANTS
    Keys = {k1, k2, k3}
    Servers = {s1}
    Nothing = Nothing
    MaxQueue = 1
    MaxRestarts = 1
INVARIANTS
    TypeOK
    MarkedIsOnItsWay
PROPERTIES
    AskedWhenDue
    Settled
\* Once every schema is answered, the queue stays empty and nothing moves.
CHECK_DEADLOCK FALSE
