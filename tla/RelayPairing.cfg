SPECIFICATION FairSpec
CONSTANTS
    Agent = agent
    Client = client
    MaxConn = 3
    MaxFail = 1
    AgentSends = 0
    ClientSends = 0
    QueueCap = 1
    WindowEnds = TRUE
    Closers = {agent}
    Starts = {TRUE, FALSE}
    Failures = {"gone", "silent"}
INVARIANTS
    TypeOK
    OneGeneration
    ReleasedIsClosed
PROPERTY EndsWithASide
CHECK_DEADLOCK FALSE
