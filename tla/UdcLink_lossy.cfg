CONSTANTS
    MaxConnects = 1
    MaxSends = 2
    MayDisconnect = FALSE
    MayLose = TRUE
    MayDuplicate = TRUE
    MayReorder = FALSE
    MayFail = FALSE
    MayDelay = FALSE
    MaxRestarts = 1
    TickSize = 5
    Endless = TRUE
    TimeStampModulus = 1
    Timeout = 10
    MessageSize = 3
    BufferSize = 16
    Capacity = 2
    StartTime = 15
    MaxTime = 15
SPECIFICATION FairSpec
PROPERTIES AckedUnlessRefused DeliversInOrder
