-------------------------------- MODULE Programs --------------------------------
(***************************************************************************)
(* The parts of the programs that meet the tunnel's core only at its edges, *)
(* side by side: a behaviour is one of them, and part says which.  Each is *)
(* a module of its own; the variables of the others are Off.               *)
(***************************************************************************)
EXTENDS Naturals

CONSTANTS
    Dial, Relay, Lists, Networks, MaxChanges, MaxRestarts, Target, LogPlans, MaxDays,
    RetentionDays, MaxSize, MaxQueued, MaxBatch, Socket, Slot, Caller, Nobody, Streamed,
    SlotOf, MaxBroken, Config, DestinationOf, Secured, Conn, None, WindowPlans, MaxTunnels, Typed,
    Relays, Rooms, Proxies, Default, WorkProfile, MaxEdits, MaxDestinations, Process, Dir,
    DefaultDir, Old, SetupPlans, Call, KeyOf, MaxWorkers, MaxFailures, MaxCloses, Session,
    Tile, ScreenPlans, MaxStreams, MaxFrames, MaxTries, Off

VARIABLES
    part,
    \* RelayDialing
    relays, network, preferred, unsupported, candidate, dial, at, snapshot, saved, signature,
    changes, restarts,
    \* DiagnosticLog
    logPlan, lines, today, fileFaults, linkFaults, date, opened, size, file, old, taken, low,
    next, token, upload, from, count, acked, late, recorded,
    \* LegacyPairing
    waiting, socket, shut, pairedSockets, peer, started, over, caller, heldSocket, broken,
    controlled,
    \* HomeWindow
    windowPlan, config, listener, winrm, listening, tunnels, cancelled, serving,
    conn, tunnelOf, serviceOf, cut, routes, activeLocal, checking, login, saves,
    \* HomeProfiles
    destinations, selectedDestination, fields, cfg, settings, edits,
    \* ProductSetup
    setupPlan, setupFaults, work, networkService, exe, previousExe, tools, netConfig, alias,
    metadata, home, password, mutex, pc, dir, found, workRestart, networkRestore, failed,
    lateStop, latest, mixed,
    \* WinRMSession
    holder, worker, workers, nextID, call, id, result, input, output, openSession, ran, uses,
    idleTimer, strays, fired, closing, cutCalls, lostCalls, failures, closes,
    \* ScreenView
    screenPlan, state, console, screen, works, streams, mode, endedStreams, helper,
    helperSession, duplication, tries, lastImage, images, pipe, wire, receiver, canvas,
    applied, cutStreams, active, closed, frame, posted, bitmap, undrawn, drawn,
    screenFaults

Dialing == INSTANCE RelayDialing
Logging == INSTANCE DiagnosticLog
Pairing == INSTANCE LegacyPairing WITH
        taken <- pairedSockets, held <- heldSocket
Window == INSTANCE HomeWindow
Profiles == INSTANCE HomeProfiles
Setup == INSTANCE ProductSetup WITH
        network <- networkService, late <- lateStop, faults <- setupFaults,
        previous <- previousExe
WinRM == INSTANCE WinRMSession WITH
        cut <- cutCalls, session <- openSession, lost <- lostCalls
Screen == INSTANCE ScreenView WITH
        changes <- drawn, faults <- screenFaults, taken <- images, held <- duplication,
        cancelled <- endedStreams, previous <- lastImage, session <- helperSession,
        lost <- cutStreams

DialingVars ==
    <<relays, network, preferred, unsupported, candidate, dial, at, snapshot, saved,
      signature, changes, restarts>>
LoggingVars ==
    <<logPlan, lines, today, fileFaults, linkFaults, date, opened, size, file, old, taken,
      low, next, token, upload, from, count, acked, late, recorded>>
PairingVars ==
    <<waiting, socket, shut, pairedSockets, peer, started, over, caller, heldSocket, broken,
      controlled>>
WindowVars ==
    <<windowPlan, config, listener, winrm, listening, tunnels, cancelled, serving,
      conn, tunnelOf, serviceOf, cut, routes, activeLocal, checking, login, saves>>
ProfilesVars ==
    <<destinations, selectedDestination, fields, cfg, settings, edits>>
SetupVars ==
    <<setupPlan, setupFaults, work, networkService, exe, previousExe, tools, netConfig,
      alias, metadata, home, password, mutex, pc, dir, found, workRestart, networkRestore,
      failed, lateStop, latest, mixed>>
WinRMVars ==
    <<holder, worker, workers, nextID, call, id, result, input, output, openSession, ran,
      uses, idleTimer, strays, fired, closing, cutCalls, lostCalls, failures, closes>>
ScreenVars ==
    <<screenPlan, state, console, screen, works, streams, mode, endedStreams, helper,
      helperSession, duplication, tries, lastImage, images, pipe, wire, receiver, canvas,
      applied, cutStreams, active, closed, frame, posted, bitmap,
      undrawn, drawn, screenFaults>>

ASSUME ProgramsAssumption ==
    /\ Dialing!NetworksAssumption
    /\ Dialing!ListsAssumption
    /\ Logging!LogPlansAssumption
    /\ Logging!LogLimitsAssumption
    /\ Pairing!SlotAssumption
    /\ Pairing!NobodyAssumption
    /\ Window!ConfigAssumption
    /\ Window!WindowPlansAssumption
    /\ Profiles!DefaultAssumption
    /\ Profiles!WorkProfileAssumption
    /\ Setup!SetupAssumption
    /\ Setup!SetupPlansAssumption
    /\ WinRM!WinRMAssumption
    /\ Screen!ScreenPlansAssumption

DialingOff ==
    /\ relays = Off /\ network = Off /\ preferred = Off /\ unsupported = Off
    /\ candidate = Off /\ dial = Off /\ at = Off /\ snapshot = Off /\ saved = Off
    /\ signature = Off /\ changes = Off /\ restarts = Off
LoggingOff ==
    /\ logPlan = Off /\ lines = Off /\ today = Off /\ fileFaults = Off
    /\ linkFaults = Off /\ date = Off /\ opened = Off /\ size = Off /\ file = Off
    /\ old = Off /\ taken = Off /\ low = Off /\ next = Off /\ token = Off /\ upload = Off
    /\ from = Off /\ count = Off /\ acked = Off /\ late = Off /\ recorded = Off
PairingOff ==
    /\ waiting = Off /\ socket = Off /\ shut = Off /\ pairedSockets = Off /\ peer = Off
    /\ started = Off /\ over = Off /\ caller = Off /\ heldSocket = Off /\ broken = Off
    /\ controlled = Off
WindowOff ==
    /\ windowPlan = Off /\ config = Off /\ listener = Off /\ winrm = Off
    /\ listening = Off /\ tunnels = Off /\ cancelled = Off
    /\ serving = Off /\ conn = Off /\ tunnelOf = Off /\ serviceOf = Off /\ cut = Off
    /\ routes = Off /\ activeLocal = Off /\ checking = Off /\ login = Off
    /\ saves = Off
ProfilesOff ==
    /\ destinations = Off /\ selectedDestination = Off /\ fields = Off /\ cfg = Off
    /\ settings = Off /\ edits = Off
SetupOff ==
    /\ setupPlan = Off /\ setupFaults = Off /\ work = Off /\ networkService = Off
    /\ exe = Off /\ previousExe = Off /\ tools = Off /\ netConfig = Off /\ alias = Off
    /\ metadata = Off /\ home = Off /\ password = Off /\ mutex = Off /\ pc = Off
    /\ dir = Off /\ found = Off /\ workRestart = Off /\ networkRestore = Off
    /\ failed = Off /\ lateStop = Off /\ latest = Off /\ mixed = Off
WinRMOff ==
    /\ holder = Off /\ worker = Off /\ workers = Off /\ nextID = Off /\ call = Off
    /\ id = Off /\ result = Off /\ input = Off /\ output = Off /\ openSession = Off
    /\ ran = Off /\ uses = Off /\ idleTimer = Off /\ strays = Off /\ fired = Off
    /\ closing = Off /\ cutCalls = Off /\ lostCalls = Off /\ failures = Off /\ closes = Off
ScreenOff ==
    /\ screenPlan = Off /\ state = Off /\ console = Off /\ screen = Off /\ works = Off
    /\ streams = Off /\ mode = Off /\ endedStreams = Off /\ helper = Off
    /\ helperSession = Off /\ duplication = Off /\ tries = Off /\ lastImage = Off
    /\ images = Off /\ pipe = Off /\ wire = Off /\ receiver = Off /\ canvas = Off
    /\ applied = Off /\ cutStreams = Off /\ active = Off /\ closed = Off /\ frame = Off
    /\ posted = Off /\ bitmap = Off /\ undrawn = Off /\ drawn = Off /\ screenFaults = Off

Part == {"dialing", "log", "pairing", "window", "profiles", "setup", "winrm", "screen"}
Init ==
    \/ /\ part = "dialing" /\ Dialing!Init
       /\ LoggingOff /\ PairingOff /\ WindowOff /\ ProfilesOff /\ SetupOff /\ WinRMOff
       /\ ScreenOff
    \/ /\ part = "log" /\ Logging!Init
       /\ DialingOff /\ PairingOff /\ WindowOff /\ ProfilesOff /\ SetupOff /\ WinRMOff
       /\ ScreenOff
    \/ /\ part = "pairing" /\ Pairing!Init
       /\ DialingOff /\ LoggingOff /\ WindowOff /\ ProfilesOff /\ SetupOff /\ WinRMOff
       /\ ScreenOff
    \/ /\ part = "window" /\ Window!Init
       /\ DialingOff /\ LoggingOff /\ PairingOff /\ ProfilesOff /\ SetupOff /\ WinRMOff
       /\ ScreenOff
    \/ /\ part = "profiles" /\ Profiles!Init
       /\ DialingOff /\ LoggingOff /\ PairingOff /\ WindowOff /\ SetupOff /\ WinRMOff
       /\ ScreenOff
    \/ /\ part = "setup" /\ Setup!Init
       /\ DialingOff /\ LoggingOff /\ PairingOff /\ WindowOff /\ ProfilesOff /\ WinRMOff
       /\ ScreenOff
    \/ /\ part = "winrm" /\ WinRM!Init
       /\ DialingOff /\ LoggingOff /\ PairingOff /\ WindowOff /\ ProfilesOff /\ SetupOff
       /\ ScreenOff
    \/ /\ part = "screen" /\ Screen!Init
       /\ DialingOff /\ LoggingOff /\ PairingOff /\ WindowOff /\ ProfilesOff /\ SetupOff
       /\ WinRMOff

\* A step of one part leaves the others alone.
OnlyDialing ==
    UNCHANGED <<part, LoggingVars, PairingVars, WindowVars, ProfilesVars, SetupVars, WinRMVars,
               ScreenVars>>
OnlyLogging ==
    UNCHANGED <<part, DialingVars, PairingVars, WindowVars, ProfilesVars, SetupVars, WinRMVars,
               ScreenVars>>
OnlyPairing ==
    UNCHANGED <<part, DialingVars, LoggingVars, WindowVars, ProfilesVars, SetupVars, WinRMVars,
               ScreenVars>>
OnlyWindow ==
    UNCHANGED <<part, DialingVars, LoggingVars, PairingVars, ProfilesVars, SetupVars, WinRMVars,
               ScreenVars>>
OnlyProfiles ==
    UNCHANGED <<part, DialingVars, LoggingVars, PairingVars, WindowVars, SetupVars, WinRMVars,
               ScreenVars>>
OnlySetup ==
    UNCHANGED <<part, DialingVars, LoggingVars, PairingVars, WindowVars, ProfilesVars,
               WinRMVars, ScreenVars>>
OnlyWinRM ==
    UNCHANGED <<part, DialingVars, LoggingVars, PairingVars, WindowVars, ProfilesVars,
               SetupVars, ScreenVars>>
OnlyScreen ==
    UNCHANGED <<part, DialingVars, LoggingVars, PairingVars, WindowVars, ProfilesVars,
               SetupVars, WinRMVars>>

Next == \/ part = "dialing" /\ Dialing!Next /\ OnlyDialing
        \/ part = "log" /\ Logging!Next /\ OnlyLogging
        \/ part = "pairing" /\ Pairing!Next /\ OnlyPairing
        \/ part = "window" /\ Window!Next /\ OnlyWindow
        \/ part = "profiles" /\ Profiles!Next /\ OnlyProfiles
        \/ part = "setup" /\ Setup!Next /\ OnlySetup
        \/ part = "winrm" /\ WinRM!Next /\ OnlyWinRM
        \/ part = "screen" /\ Screen!Next /\ OnlyScreen

vars == <<part, DialingVars, LoggingVars, PairingVars, WindowVars, ProfilesVars, SetupVars,
          WinRMVars, ScreenVars>>

\* Each part's own fairness.
Fairness ==
    /\ \A d \in Dial : WF_vars(part = "dialing" /\ Dialing!Step(d) /\ OnlyDialing)
    /\ \A t \in Target : WF_vars(part = "log" /\ Logging!UploadStep(t) /\ OnlyLogging)
    /\ WF_vars(part = "pairing" /\ Pairing!Handling /\ OnlyPairing)
    /\ WF_vars(part = "window" /\ Window!Serving /\ OnlyWindow)
Spec == Init /\ [][Next]_vars /\ Fairness

-----------------------------------------------------------------------------
(* The parts' properties.                                                  *)

\* Every variable of the part that runs has its type.
TypeOK ==
    /\ part = "dialing" => Dialing!DialingTypeOK
    /\ part = "log" => Logging!LogTypeOK
    /\ part = "pairing" => Pairing!PairingTypeOK
    /\ part = "window" => Window!WindowTypeOK
    /\ part = "profiles" => Profiles!ProfilesTypeOK
    /\ part = "setup" => Setup!SetupTypeOK
    /\ part = "winrm" => WinRM!WinRMTypeOK
    /\ part = "screen" => Screen!ScreenTypeOK

\* What was learned of a proxy, and saved, never keeps a loop from a relay of its
\* list that it could reach, unless all of them have TLS and the proxy is marked as
\* one that rejects CONNECT.
RelayIsReached ==
    \A d \in Dial : []<>(part = "dialing" /\ Dialing!Reachable(d) /\ ~Dialing!ShutOut(d)
                            => dial[d] = "over")

\* A day's log files hold the latest of the lines that were accepted, in order,
\* through rotations, changes of date and failed writes.
FilesKeepTheLatest == part = "log" => Logging!FilesKeepTheLatest

\* In the end every relay has every line that the uploader's backlog holds.
BacklogIsUploaded == <>[](part = "log" => Logging!Uploaded)

\* A client of protocol 1 ends, bridged and closed or turned away, unless the HTTP
\* stream of the socket it chose ends before the socket's handler takes it.
CallerIsServed ==
    \A c \in Caller : (part = "pairing" /\ caller[c] = "taking") ~>
                         (part = "pairing" /\ (caller[c] = "gone" \/ Pairing!LeftBehind(c)))

\* The home window shows no connection that is over, and counts no more than there are.
ShownConnectionsExist == part = "window" => Window!ShownConnectionsExist

\* Every connection of the tunnel that runs is shown, and the count misses no more
\* of them than connections of earlier tunnels have ended.
OnlyStraysAreMiscounted == part = "window" => Window!OnlyStraysAreMiscounted

\* When a tunnel stops, or its listener fails, its Remote Desktop connections end.
StoppedTunnelDrains ==
    \A c \in Conn : (part = "window" /\ Window!Stopping(c)) ~> (part = "window" /\ conn[c] = "gone")

\* What the home client saved is what it works with when it is started again.
SettingsSurviveRestart == part = "profiles" => Profiles!SettingsSurviveRestart

\* However many installs overlap, the last that succeeds leaves an installation
\* all of whose parts are its own.
InstallsAgree == part = "setup" => Setup!InstallsAgree

\* An install or an update that found the Work service running leaves it running,
\* if one step of it at most fails (ProductSetup names the two exceptions).
WorkSurvives == part = "setup" => Setup!WorkSurvives

\* A WinRM command is answered by its own answer, from a session of its own login.
CommandIsAnswered == part = "winrm" => WinRM!CommandIsAnswered

\* The screen that the home side shows is the one that the helper captured, and all
\* of it arrives, failed files, bitmaps and connections apart.
ScreenIsShown == part = "screen" => Screen!ScreenIsShown
=============================================================================
