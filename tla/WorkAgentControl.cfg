SPECIFICATION FairSpec
CONSTANTS
    a1 = a1
    a2 = a2
    s1 = s1
    s2 = s2
    rdp = rdp
    smb = smb
    p1 = p1
    NoProof = NoProof
    None = None
    Agent <- MCAgent
    Client <- MCClient
    Service <- MCService
    Proof <- MCProof
    Plans <- MCPlans
    MaxControls = 2
    PendingLimit = 1
INVARIANTS TypeOK PlacesAreHeld PairAgrees
PROPERTIES AttemptsSettle DashboardCatchesUp
CHECK_DEADLOCK FALSE
