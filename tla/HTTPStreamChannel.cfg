SPECIFICATION FairSpec
CONSTANTS
    Client = client
    Relay = relay
    MaxBuffered = 3
    ReorderLimit = 1
    UploadPipeline = 2
    DownloadPipeline = 2
    BatchRecords = 1
    MaxMessages = 4
    MaxLoss = 1
    MaxLives = 2
    Plans <- MCPlans
INVARIANTS
    TypeOK
    FreedIsReceived
PROPERTIES
    ImplementsMessageChannel
    WrittenIsRead
    AbortIsSeen
CHECK_DEADLOCK FALSE
