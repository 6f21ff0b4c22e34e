SPECIFICATION FairSpec
CONSTANTS
    Agent = agent
    Client = client
    AgentBytes = 3
    ClientBytes = 3
    ChunkSize = 1
    SendCap = 1
    RecvCap = 1
    MaxPath = 1
    MaxCarry = 0
    Closers = {client}
    Expirers = {agent}
PROPERTIES
    WaitForRoomEnds
    ClosedIsFinal
CHECK_DEADLOCK FALSE
