SPECIFICATION Spec
CONSTANTS
    Agent = agent
    Client = client
    AgentBytes = 1
    ClientBytes = 0
    ChunkSize = 1
    SendCap = 2
    RecvCap = 2
    MaxPath = 2
    MaxCarry = 0
    Closers = {agent}
    Expirers = {}
INVARIANT EofMeansComplete
CHECK_DEADLOCK FALSE
