SPECIFICATION Spec
CONSTANTS
    Agent = agent
    Client = client
    MaxConn = 2
    MaxFail = 1
    AgentSends = 0
    ClientSends = 0
    QueueCap = 2
    WindowEnds = FALSE
    Closers = {agent}
    Starts = {TRUE}
    Failures = {"gone", "silent"}
INVARIANTS
    FinishedIsClosed
CHECK_DEADLOCK FALSE
