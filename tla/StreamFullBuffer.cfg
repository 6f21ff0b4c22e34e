SPECIFICATION Spec
CONSTANTS
    Agent = agent
    Client = client
    AgentBytes = 2
    ClientBytes = 0
    ChunkSize = 1
    SendCap = 2
    RecvCap = 1
    MaxPath = 2
    MaxCarry = 0
    Closers = {}
    Expirers = {}
INVARIANT StreamIntact
CHECK_DEADLOCK FALSE
