SPECIFICATION FairSpec
CONSTANTS
    Agent = agent
    Client = client
    AgentBytes = 2
    ClientBytes = 0
    ChunkSize = 2
    SendCap = 2
    RecvCap = 2
    MaxPath = 2
    MaxCarry = 0
    Closers = {}
    Expirers = {}
INVARIANTS
    TypeOK
    StreamIntact
    UnreceivedIsKept
PROPERTY WrittenIsDelivered
CHECK_DEADLOCK FALSE
