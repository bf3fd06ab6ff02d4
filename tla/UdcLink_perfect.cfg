CONSTANTS
    MaxConnects = 1
    MaxSends = 3
    MayDisconnect = TRUE
    MayLose = FALSE
    MayDuplicate = FALSE
    MayReorder = FALSE
    MayFail = TRUE
    MayDelay = FALSE
    MaxRestarts = 0
    TickSize = 1
    Endless = FALSE
    TimeStampModulus = 1
    Timeout = 10
    MessageSize = 3
    BufferSize = 16
    Capacity = 3
    StartTime = 10
    MaxTime = 13
SPECIFICATION Spec
PROPERTIES DeliversExactlyOnce
