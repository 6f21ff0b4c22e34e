------------------------------ MODULE HomeWindow ------------------------------
(***************************************************************************)
(* The Windows home client: the tunnel that its window starts and stops,   *)
(* its local connections, the check before a connection, and the saving of *)
(* a Windows login, which finishes much later than it began                *)
(* (windows/home/main.go, relay_status_windows.go, tunnel/conn_group.go).  *)
(* A handler of the window runs to its end on the UI thread: one action.   *)
(* The tunnels' accept loops, the connections, the check and the login's   *)
(* preparation are goroutines.                                             *)
(*                                                                         *)
(* A config is one the window can have saved; configs of one destination   *)
(* differ in their relays or the like.                                     *)
(***************************************************************************)
EXTENDS Naturals, FiniteSets

CONSTANTS Config, DestinationOf,
          Secured,           \* the configs that have a room proof
          Conn,
          None,
          WindowPlans,       \* what a behaviour may have
          MaxTunnels         \* bound
ConfigAssumption == Secured \subseteq Config /\ None \notin Config
WindowPlansAssumption ==
    /\ IsFiniteSet(Conn) /\ MaxTunnels \in Nat
    /\ WindowPlans \subseteq [configs : SUBSET Config, conns : SUBSET Conn, tunnels : 0..MaxTunnels,
                              saves : Nat, faults : BOOLEAN]

Tunnel == 1..MaxTunnels

VARIABLES
    windowPlan,
    config,             \* a.cfg
    listener, winrm,    \* a.listener, a.winrmListener: the tunnel's number, or 0
    listening,          \* sockets that are open: <<tunnel, service>>
    tunnels,            \* tunnels so far
    cancelled,          \* tunnels whose context has ended
    serving,            \* serving[t]: where serveListener's goroutine is
    conn, tunnelOf, serviceOf,    \* a local connection
    cut,                \* connections that the group closed
    routes, activeLocal,
    checking,           \* the config that is checked
    login,              \* the config that a login is saved for
    saves

tunnelVars == <<listener, winrm, listening, tunnels, cancelled, serving>>
connVars == <<conn, tunnelOf, serviceOf, cut>>
shownVars == <<routes, activeLocal>>
windowVars == <<windowPlan, checking, login, saves>>
vars == <<config, tunnelVars, connVars, shownVars, windowVars>>

ConnStates == {"new", "accepted", "dialing", "dialed", "piping", "closing", "gone"}

Init ==
    /\ windowPlan \in WindowPlans /\ config \in windowPlan.configs
    /\ listener = 0 /\ winrm = 0 /\ listening = {} /\ tunnels = 0
    /\ cancelled = {} /\ serving = [t \in Tunnel |-> "no"]
    /\ conn = [c \in Conn |-> "new"] /\ tunnelOf = [c \in Conn |-> 0]
    /\ serviceOf = [c \in Conn |-> "rdp"] /\ cut = {}
    /\ routes = [c \in Conn |-> "none"] /\ activeLocal = 0
    /\ checking = None /\ login = None /\ saves = 0

isTunnelRunning == listener # 0
NoRoutes == [c \in Conn |-> "none"]

-----------------------------------------------------------------------------
(* startTunnel and stopTunnel, as the handlers call them.                  *)

\* A port is taken while any tunnel has it.
Free(services) == \A s \in services : \A t \in Tunnel : <<t, s>> \notin listening
Services(c) == IF c \in Secured THEN {"rdp", "winrm"} ELSE {"rdp"}
CanStart(c) == tunnels < windowPlan.tunnels /\ Free(Services(c))

\* A tunnel that begins, after those in \* over \* were stopped.
Started(c, over) ==
    LET t == tunnels + 1 IN
      /\ tunnels' = t /\ serving' = [serving EXCEPT ![t] = "yes"]
      /\ listener' = t /\ winrm' = IF c \in Secured THEN t ELSE 0
      /\ listening' = (listening \ over) \cup ({t} \X Services(c))
      /\ routes' = NoRoutes /\ activeLocal' = 0
StopsRunning == cancelled' = cancelled \cup ({listener} \ {0})
Sockets == {<<listener, "rdp">>, <<winrm, "winrm">>}
Stopped ==
    /\ StopsRunning
    /\ listening' = listening \ Sockets
    /\ listener' = 0 /\ winrm' = 0 /\ routes' = NoRoutes /\ activeLocal' = 0
    /\ UNCHANGED <<tunnels, serving>>

\* run: the listener of the last time.
StartTunnel ==
    /\ tunnels = 0 /\ ~isTunnelRunning /\ CanStart(config) /\ Started(config, {})
    /\ UNCHANGED <<config, cancelled, connVars, windowVars>>

StopTunnel ==
    /\ isTunnelRunning /\ Stopped
    /\ UNCHANGED <<config, connVars, windowVars>>

\* saveFromUI: a tunnel that runs is started again with what was saved; the
\* destination can be another one only while none runs.
SaveFromUI(c) ==
    /\ saves < windowPlan.saves /\ saves' = saves + 1 /\ c \in windowPlan.configs \ {config}
    /\ isTunnelRunning => DestinationOf[c] = DestinationOf[config]
    /\ config' = c
    /\ IF ~isTunnelRunning THEN UNCHANGED <<tunnelVars, shownVars>>
       ELSE LET free == \A s \in Services(c) : \A t \in Tunnel : <<t, s>> \notin listening \ Sockets IN
            IF free /\ tunnels < windowPlan.tunnels THEN StopsRunning /\ Started(c, Sockets) ELSE Stopped
    /\ UNCHANGED <<connVars, windowPlan, checking, login>>

\* The destination that is edited is renamed or deleted: a tunnel that runs goes
\* on as it was started.  The window turns the two buttons off while one runs, but
\* a login that is saved turns them on again, and so does the display of a state
\* that was read before the tunnel started: the buttons are left out.
PersistDestinationSelection(c) ==
    /\ saves < windowPlan.saves /\ saves' = saves + 1 /\ c \in windowPlan.configs \ {config}
    /\ config' = c
    /\ UNCHANGED <<tunnelVars, connVars, shownVars, windowPlan, checking, login>>

-----------------------------------------------------------------------------
(* startTunnelFromUI: Connect, and Open Remote Desktop.                    *)

Check ==
    /\ checking = None /\ checking' = config
    /\ UNCHANGED <<config, tunnelVars, connVars, shownVars, windowPlan, login, saves>>

\* The answer: whether the work agent of the config that was checked is online.
\* A tunnel that runs is kept.
Checked(online) ==
    /\ checking # None /\ checking' = None
    /\ IF checking = config /\ online /\ ~isTunnelRunning /\ CanStart(config)
         THEN Started(config, {}) /\ UNCHANGED cancelled
         ELSE UNCHANGED <<tunnelVars, shownVars>>
    /\ UNCHANGED <<config, connVars, windowPlan, login, saves>>

-----------------------------------------------------------------------------
(* saveWindowsCredentials: the work computer is asked through the tunnel,  *)
(* and the config of the beginning is saved again at the end.              *)

BeginLogin ==
    /\ windowPlan.saves > 0
    /\ login = None /\ config \in Secured /\ isTunnelRunning /\ login' = config
    /\ UNCHANGED <<config, tunnelVars, connVars, shownVars, windowPlan, checking, saves>>
FinishLogin ==
    /\ login # None /\ login' = None /\ config' = login
    /\ UNCHANGED <<tunnelVars, connVars, shownVars, windowPlan, checking, saves>>

-----------------------------------------------------------------------------
(* serveListener and serveWinRMListener.                                   *)

Accepting(t) == \A c \in Conn : ~(tunnelOf[c] = t /\ serviceOf[c] = "rdp" /\ conn[c] = "accepted")
Accept(c, t, s) ==
    /\ conn[c] = "new" /\ c \in windowPlan.conns /\ <<t, s>> \in listening /\ Accepting(t)
    /\ conn' = [conn EXCEPT ![c] = IF s = "rdp" THEN "accepted" ELSE "dialing"]
    /\ tunnelOf' = [tunnelOf EXCEPT ![c] = t] /\ serviceOf' = [serviceOf EXCEPT ![c] = s]
    /\ UNCHANGED <<config, tunnelVars, cut, shownVars, windowVars>>

\* localConnStarted and ConnGroup.Begin.
Begin(c) ==
    /\ conn[c] = "accepted" /\ conn' = [conn EXCEPT ![c] = "dialing"]
    /\ routes' = [routes EXCEPT ![c] = "pending"] /\ activeLocal' = activeLocal + 1
    /\ UNCHANGED <<config, tunnelVars, tunnelOf, serviceOf, cut, windowVars>>

\* A listener may fail of itself.
ListenerFails(t) ==
    /\ windowPlan.faults /\ <<t, "rdp">> \in listening /\ listening' = listening \ {<<t, "rdp">>}
    /\ UNCHANGED <<config, listener, winrm, tunnels, cancelled, serving, connVars, shownVars, windowVars>>

\* The loop ends, and its group closes.
LeavesGroup(t) == {}
Grouped(t) == {c \in Conn : tunnelOf[c] = t /\ serviceOf[c] = "rdp" /\ conn[c] # "gone"}
CloseGroup(t) ==
    /\ serving[t] = "yes" /\ <<t, "rdp">> \notin listening /\ Accepting(t)
    /\ serving' = [serving EXCEPT ![t] = "closed"]
    /\ cut' = cut \cup Grouped(t)
    /\ UNCHANGED <<config, listener, winrm, listening, tunnels, cancelled, conn, tunnelOf, serviceOf, shownVars, windowVars>>
\* The WinRM listener stays, and so does the context.
ResetTunnel(t) ==
    /\ serving[t] = "closed" /\ serving' = [serving EXCEPT ![t] = "over"]
    /\ IF listener = t THEN listener' = 0 /\ routes' = NoRoutes /\ activeLocal' = 0
       ELSE UNCHANGED <<listener, shownVars>>
    /\ UNCHANGED <<config, winrm, listening, tunnels, cancelled, connVars, windowVars>>

-----------------------------------------------------------------------------
(* handleLocalConn and handleLocalServiceConn.                             *)

Moves(c, state) == conn' = [conn EXCEPT ![c] = state]
Ended(c) == tunnelOf[c] \in cancelled \/ c \in cut
\* A dial fails in the end, at once when its context has ended.
DialRelay(c) ==
    /\ conn[c] = "dialing"
    /\ \/ ~Ended(c) /\ Moves(c, IF serviceOf[c] = "rdp" THEN "dialed" ELSE "piping")
       \/ Moves(c, "closing")
    /\ UNCHANGED <<config, tunnelVars, tunnelOf, serviceOf, cut, shownVars, windowVars>>
LocalConnRouted(c) ==
    /\ conn[c] = "dialed" /\ Moves(c, "piping")
    /\ routes' = [routes EXCEPT ![c] = IF @ = "none" THEN @ ELSE "routed"]
    /\ UNCHANGED <<config, tunnelVars, tunnelOf, serviceOf, cut, activeLocal, windowVars>>
\* The pipe ends when both its directions have; an end of the local side that the
\* client does not close is closed by the group only.
PipeIsCut(c) ==
    /\ conn[c] = "piping" /\ c \in cut /\ Moves(c, "closing")
    /\ UNCHANGED <<config, tunnelVars, tunnelOf, serviceOf, cut, shownVars, windowVars>>
PipeEnds(c) ==
    /\ conn[c] = "piping" /\ Moves(c, "closing")
    /\ UNCHANGED <<config, tunnelVars, tunnelOf, serviceOf, cut, shownVars, windowVars>>
KeepsCount(c) == activeLocal
ForgetsCount(c) == 0
Uncounted(c) == IF activeLocal > 0 THEN activeLocal - 1 ELSE 0
LocalConnDone(c) ==
    /\ conn[c] = "closing" /\ Moves(c, "gone")
    /\ IF serviceOf[c] = "rdp"
         THEN routes' = [routes EXCEPT ![c] = "none"] /\ activeLocal' = Uncounted(c)
         ELSE UNCHANGED shownVars
    /\ UNCHANGED <<config, tunnelVars, tunnelOf, serviceOf, cut, windowVars>>

Serving == \/ \E t \in Tunnel : CloseGroup(t) \/ ResetTunnel(t)
           \/ \E c \in Conn : \/ Begin(c) \/ DialRelay(c) \/ LocalConnRouted(c)
                              \/ PipeIsCut(c) \/ LocalConnDone(c)
Window == \/ StartTunnel \/ StopTunnel \/ Check \/ BeginLogin \/ FinishLogin
          \/ \E c \in Config : SaveFromUI(c) \/ PersistDestinationSelection(c)
          \/ \E online \in BOOLEAN : Checked(online)
World == \/ \E t \in Tunnel : ListenerFails(t)
         \/ \E c \in Conn : PipeEnds(c) \/ \E t \in Tunnel, s \in {"rdp", "winrm"} : Accept(c, t, s)
Next == Serving \/ Window \/ World
Spec == Init /\ [][Next]_vars
FairSpec == Spec /\ WF_vars(Serving)

-----------------------------------------------------------------------------
(* Properties.                                                             *)

WindowTypeOK ==
    /\ config \in Config /\ checking \in Config \cup {None} /\ login \in Config \cup {None}
    /\ listener \in 0..tunnels /\ winrm \in 0..tunnels /\ cancelled \subseteq 1..tunnels
    /\ conn \in [Conn -> ConnStates] /\ activeLocal \in 0..Cardinality(Conn)

\* The window shows no connection that is over, and never counts more than there
\* are, though it forgets them all when a tunnel stops and they end afterwards.
There == {c \in Conn : serviceOf[c] = "rdp" /\ conn[c] \in {"dialing", "dialed", "piping", "closing"}}
ShownConnectionsExist ==
    /\ activeLocal <= Cardinality(There)
    /\ \A c \in Conn : routes[c] # "none" => c \in There

\* Every connection of the tunnel that runs is shown with its relay, and the count
\* misses one of them at most for each connection of an earlier tunnel that has
\* ended: only such a late end is taken off a count that it was not part of.
Current == {c \in There : tunnelOf[c] = listener}
Strays == {c \in Conn : serviceOf[c] = "rdp" /\ conn[c] = "gone" /\ tunnelOf[c] # listener}
OnlyStraysAreMiscounted ==
    isTunnelRunning =>
        /\ Cardinality(Current) <= activeLocal + Cardinality(Strays)
        /\ \A c \in Current : routes[c] # "none"

\* When a tunnel stops, or its listener fails, its Remote Desktop connections end.
Stopping(c) == serviceOf[c] = "rdp" /\ conn[c] # "new" /\ <<tunnelOf[c], "rdp">> \notin listening
StoppedTunnelDrains == \A c \in Conn : Stopping(c) ~> conn[c] = "gone"
=============================================================================
