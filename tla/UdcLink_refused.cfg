CONSTANTS
    MaxConnects = 1
    MaxSends = 1
    MayDisconnect = FALSE
    MayLose = FALSE
    MayDuplicate = FALSE
    MayReorder = FALSE
    MayFail = FALSE
    MayDelay = FALSE
    MaxRestarts = 0
    TickSize = 5
    Endless = TRUE
    TimeStampModulus = 1
    Timeout = 10
    MessageSize = 3
    BufferSize = 16
    Capacity = 2
    StartTime = 15
    MaxTime = 15
SPECIFICATION FairSpec
PROPERTY EveryMessageAcked
