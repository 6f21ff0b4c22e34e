SPECIFICATION FairSpec
CONSTANTS
    Agent = agent
    Client = client
    MaxConn = 3
    MaxFail = 1
    AgentSends = 2
    ClientSends = 0
    QueueCap = 2
    WindowEnds = FALSE
    Closers = {}
    Starts = {TRUE, FALSE}
    Failures = {"gone", "silent"}
INVARIANTS
    OldBeforeNew
    PumpsNeverBlock
PROPERTIES
    Recovers
    AbandonedIsReleased
CHECK_DEADLOCK FALSE
