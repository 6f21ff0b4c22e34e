SPECIFICATION Spec
CONSTANTS
    d1 = d1  d2 = d2  plain = plain  tls = tls
    t1 = t1  t2 = t2
    w1 = w1  w2 = w2  x1 = x1  c1 = c1  c2 = c2
    a1 = a1  a2 = a2  b1 = b1
    p1 = p1  p2 = p2  dir1 = dir1  dir2 = dir2
    r1 = r1  r2 = r2  r3 = r3
    s1 = s1  s2 = s2
    None = None  Nobody = Nobody  Old = Old  Off = Off
    Dial = {d1, d2}  Relay = {plain, tls}
    Lists <- MCLists  Networks <- MCNetworks
    MaxChanges = 1  MaxRestarts = 1
    Target = {t1, t2}  LogPlans <- MCLogPlans
    MaxDays = 2  RetentionDays = 1  MaxSize = 2  MaxQueued = 3  MaxBatch = 2
    Socket = {w1, w2}  Slot = {x1}  Caller = {c1, c2}  Streamed = {w1, c1}  SlotOf <- MCSlotOf  MaxBroken = 1
    Config = {a1, a2, b1}  DestinationOf <- MCDestinationOf  Secured = {a1, b1}
    Conn = {c1, c2}  WindowPlans <- MCWindowPlans  MaxTunnels = 2
    Typed = {"Work"}  Relays = {"known", "other"}  Rooms = {"r", "s"}  Proxies = {"env", "direct"}
    Default <- MCDefault  WorkProfile <- MCWorkProfile  MaxEdits = 5  MaxDestinations = 3
    Process = {p1, p2}  Dir = {dir1, dir2}  DefaultDir = dir1  SetupPlans <- MCSetupPlans
    Call = {r1, r2, r3}  KeyOf <- MCKeyOf  MaxWorkers = 2  MaxFailures = 1  MaxCloses = 1
    Session = {s1, s2}  Tile = {t1, t2}  ScreenPlans <- MCScreenPlans
    MaxStreams = 2  MaxFrames = 3  MaxTries = 2
INVARIANTS
    TypeOK FilesKeepTheLatest ShownConnectionsExist OnlyStraysAreMiscounted SettingsSurviveRestart
    InstallsAgree WorkSurvives CommandIsAnswered ScreenIsShown
PROPERTIES
    RelayIsReached BacklogIsUploaded CallerIsServed StoppedTunnelDrains
CHECK_DEADLOCK FALSE
