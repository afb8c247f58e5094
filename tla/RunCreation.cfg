SPECIFICATION FairSpec
CONSTANTS
    Requests = {r1, r2, r3}
    RequestIds = {i1, i2}
    Users = {u1, u2}
    NoRun = NoRun
    MaxFailures = 1
INVARIANTS
    CreationTypeOK
    OneRunPerRequestId
    QueuedRunIsReady
PROPERTIES
    AnsweredRunIsQueued
    ImplementsRegister
CHECK_DEADLOCK FALSE
