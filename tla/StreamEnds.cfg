SPECIFICATION FairSpec
CONSTANTS
    Agent = agent
    Client = client
    AgentBytes = 1
    ClientBytes = 0
    ChunkSize = 1
    SendCap = 1
    RecvCap = 1
    MaxPath = 2
    MaxCarry = 1
    Closers = {agent}
    Expirers = {agent, client}
INVARIANT AckNeverRefused
PROPERTIES
    ImplementsByteStream
    EndReachesPeer
CHECK_DEADLOCK FALSE
