SPECIFICATION FairSpec
CONSTANTS
    ConnectAttempts = 2
    BucketAttempts = 2
    QueueAttempts = 2
    Calls = {c1}
    ReadyAttempts = 2
    InitialDelay = 1
    MaxDelay = 3
CHECK_DEADLOCK FALSE
PROPERTY
    StopsWhenTold
