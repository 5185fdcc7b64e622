SPECIFICATION FairSpec
CONSTANTS
    ConnectAttempts = 2
    BucketAttempts = 2
    QueueAttempts = 2
    Calls = {c1}
    ReadyAttempts = 2
    InitialDelay = 1
    MaxDelay = 3
CHECK_DEADLOCK FALSE
INVARIANTS
    ServicesTypeOK
    RunsOnSchema
    LiveRequestsKeepServices
    OrderFailsNobody
    NoBodyLeft
PROPERTIES
    KeepsLink
    ShutdownEnds
    StopIsHeard
    BackendComesUp
    WorkerComesUp
