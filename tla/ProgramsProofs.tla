---------------------------- MODULE ProgramsProofs ----------------------------
(***************************************************************************)
(* Theorems about Programs, for every value of the parts' constants: the   *)
(* inductive invariant of each part, and at the end what follows from them *)
(* for the part that runs.                                                 *)
(***************************************************************************)
EXTENDS ProgramsSetupProofs, FiniteSetTheorems, SequenceTheorems, WellFoundedInduction

-----------------------------------------------------------------------------
(* WinRMSession.                                                           *)

\* What the process has been asked and has answered: one command at a time.
Asked(c) == input = <<c>> /\ output = <<>> /\ ran[c] = <<>>
Answered(c) == /\ input = <<>> /\ output = <<[id |-> id[c], of |-> c]>>
               /\ ran[c] = <<>> \/ ran[c] = <<KeyOf[c]>>
\* The types, and the numbers that the session's workers and timers have taken.
WinRMState ==
    /\ holder \in Call \cup {None} /\ worker \in 0..workers /\ workers \in 0..MaxWorkers
    /\ uses \in Nat /\ idleTimer \in 0..uses /\ strays \cup fired \subseteq 1..uses
    /\ call \in [Call -> {"new", "waiting", "reading", "done"}]
    /\ DOMAIN id = Call /\ DOMAIN result = Call /\ DOMAIN ran = Call
\* One command at a time is with the worker, which has run it once or not yet.
Conversation ==
    /\ holder = None => input = <<>> /\ output = <<>>
    /\ \A c \in Call :
         /\ call[c] = "reading" <=> holder = c
         /\ call[c] = "reading" => Asked(c) \/ Answered(c)
         /\ call[c] \in {"new", "waiting"} => ran[c] = <<>>
         /\ ran[c] = <<>> \/ ran[c] = <<KeyOf[c]>>
         /\ call[c] = "done" /\ c \notin cutCalls \cup lostCalls => result[c] = c
WinRMInv == WinRMState /\ Conversation

\* Nothing has been asked at first.
LEMMA WinRMInit == WinRM!WinRMAssumption /\ WinRM!Init => WinRMInv
BY DEF WinRM!WinRMAssumption, WinRM!Init, WinRMInv, WinRMState, Conversation

\* The invariant says that a command is answered by its own answer.
LEMMA WinRMInvMeans == WinRMInv => WinRM!WinRMTypeOK /\ WinRM!CommandIsAnswered
<1> SUFFICES ASSUME WinRMInv PROVE WinRM!WinRMTypeOK /\ WinRM!CommandIsAnswered
  OBVIOUS
<1>1. WinRM!WinRMTypeOK
  BY DEF WinRMInv, WinRMState, WinRM!WinRMTypeOK
<1>2. ASSUME NEW c \in Call
      PROVE  /\ Len(ran[c]) <= 1 /\ \A i \in DOMAIN ran[c] : ran[c][i] = KeyOf[c]
             /\ call[c] = "done" /\ c \notin cutCalls \cup lostCalls => result[c] = c
  <2>1. /\ ran[c] = <<>> \/ ran[c] = <<KeyOf[c]>>
        /\ call[c] = "done" /\ c \notin cutCalls \cup lostCalls => result[c] = c
    BY DEF WinRMInv, Conversation
  <2>2. CASE ran[c] = <<>>
    BY <2>1, <2>2
  <2>3. CASE ran[c] = <<KeyOf[c]>>
    BY <2>1, <2>3
  <2> QED BY <2>1, <2>2, <2>3
<1> QED BY <1>1, <1>2 DEF WinRM!CommandIsAnswered

\* The types, through a step.
LEMMA WinRMStateNext ==
    ASSUME WinRM!WinRMAssumption, WinRMState, WinRM!Next
    PROVE  WinRMState'
<1> USE DEF WinRM!WinRMAssumption, WinRMState
<1>1. ASSUME NEW c \in Call, WinRM!Issue(c) \/ WinRM!Ends(c) \/ WinRM!Refused(c)
                 \/ WinRM!Cancelled(c) \/ WinRM!WorkerFails(c)
      PROVE  WinRMState'
  BY <1>1 DEF WinRM!Issue, WinRM!Ends, WinRM!Refused, WinRM!Cancelled, WinRM!WorkerFails,
              WinRM!OnCancelled, WinRM!StopWorker, WinRM!Returns,
              WinRM!workerVars, WinRM!timerVars
<1>2. ASSUME NEW c \in Call, WinRM!Send(c) PROVE WinRMState'
  <2>1. CASE worker # 0
    BY <1>2, <2>1 DEF WinRM!Send, WinRM!EnsureWorker, WinRM!StopWorker, WinRM!Returns,
                      WinRM!timerVars
  <2>2. CASE worker = 0
    BY <1>2, <2>2 DEF WinRM!Send, WinRM!EnsureWorker, WinRM!StopWorker, WinRM!Returns,
                      WinRM!timerVars
  <2> QED BY <2>1, <2>2
<1>3. ASSUME NEW c \in Call, WinRM!Answer(c) PROVE WinRMState'
  BY <1>3 DEF WinRM!Answer, WinRM!StopWorker, WinRM!Returns, WinRM!Touch, WinRM!timerVars
<1>4. ASSUME WinRM!RunScript \/ WinRM!AskClose \/ WinRM!Close PROVE WinRMState'
  BY <1>4 DEF WinRM!RunScript, WinRM!AskClose, WinRM!Close, WinRM!StopWorker, WinRM!workerVars,
              WinRM!timerVars, WinRM!callVars
<1>5. ASSUME WinRM!TimerFires PROVE WinRMState'
  BY <1>5 DEF WinRM!TimerFires, WinRM!workerVars, WinRM!callVars
<1>6. ASSUME NEW t \in fired, WinRM!ExpireIdle(t) PROVE WinRMState'
  BY <1>6 DEF WinRM!ExpireIdle, WinRM!StopWorker, WinRM!workerVars, WinRM!callVars
<1> QED BY <1>1, <1>2, <1>3, <1>4, <1>5, <1>6 DEF WinRM!Next, WinRM!Working, WinRM!World

\* What a process has been asked and has answered, through a step.
LEMMA ConversationNext ==
    ASSUME WinRM!WinRMAssumption, WinRMInv, WinRM!Next
    PROVE  Conversation'
<1> USE DEF WinRM!WinRMAssumption, WinRMInv, WinRMState, Conversation, Asked, Answered
<1>1. ASSUME NEW c \in Call, WinRM!Issue(c) \/ WinRM!Ends(c)
      PROVE  Conversation'
  BY <1>1 DEF WinRM!Issue, WinRM!Ends, WinRM!workerVars, WinRM!timerVars
<1>2. ASSUME NEW c \in Call, WinRM!Refused(c) \/ WinRM!Cancelled(c) \/ WinRM!WorkerFails(c)
      PROVE  Conversation'
  BY <1>2 DEF WinRM!Refused, WinRM!Cancelled, WinRM!WorkerFails, WinRM!OnCancelled,
              WinRM!StopWorker, WinRM!Returns, WinRM!workerVars, WinRM!timerVars
<1>3. ASSUME NEW c \in Call, WinRM!Send(c) PROVE Conversation'
  <2>1. input = <<>> /\ output = <<>> /\ ran[c] = <<>> /\ call[c] = "waiting" /\ c # None
    BY <1>3 DEF WinRM!Send
  <2>2. CASE UNCHANGED output /\ input' = Append(input, c)
    <3>1. input' = <<c>> /\ output' = <<>> /\ holder' = c /\ ran' = ran
          /\ call' = [call EXCEPT ![c] = "reading"]
          /\ UNCHANGED <<result, cutCalls, lostCalls>>
      BY <1>3, <2>1, <2>2 DEF WinRM!Send, WinRM!StopWorker, WinRM!Returns
    <3> QED BY <1>3, <2>1, <3>1 DEF WinRM!Send
  <2>3. CASE WinRM!StopWorker /\ WinRM!Returns(c, "error") /\ lostCalls' = lostCalls \cup {c}
    BY <1>3, <2>1, <2>3 DEF WinRM!Send, WinRM!StopWorker, WinRM!Returns
  <2> QED BY <1>3, <2>2, <2>3 DEF WinRM!Send
<1>4. ASSUME NEW c \in Call, WinRM!Answer(c) PROVE Conversation'
  <2>1. Answered(c) /\ holder = c
    BY <1>4 DEF WinRM!Answer
  <2>2. Head(output).id = id[c] /\ Head(output).of = c /\ Tail(output) = <<>>
    BY <2>1
  <2>3. /\ input' = <<>> /\ output' = <<>> /\ holder' = None
        /\ UNCHANGED <<ran, cutCalls, lostCalls>>
        /\ call' = [call EXCEPT ![c] = "done"] /\ result' = [result EXCEPT ![c] = c]
    BY <1>4, <2>1, <2>2 DEF WinRM!Answer, WinRM!Returns
  <2> QED BY <2>1, <2>3
<1>5. ASSUME WinRM!RunScript PROVE Conversation'
  <2>1. PICK c \in Call : holder = c
    BY <1>5 DEF WinRM!RunScript
  <2>2. call[c] = "reading" /\ c # None /\ Asked(c) /\ \A d \in Call \ {c} : call[d] # "reading"
    BY <1>5, <2>1 DEF WinRM!RunScript
  <2>3. Head(input) = c /\ Tail(input) = <<>>
        /\ Append(output, [id |-> id[c], of |-> c]) = <<[id |-> id[c], of |-> c]>>
    BY <2>2
  <2>4. /\ input' = <<>> /\ output' = <<[id |-> id[c], of |-> c]>>
        /\ UNCHANGED <<holder, call, id, result, cutCalls, lostCalls>>
        /\ UNCHANGED ran \/ ran' = [ran EXCEPT ![c] = Append(@, KeyOf[c])]
    BY <1>5, <2>3 DEF WinRM!RunScript, WinRM!CanReuse
  <2>5. ran'[c] = <<>> \/ ran'[c] = <<KeyOf[c]>>
    BY <2>2, <2>4
  <2>6. \A d \in Call \ {c} : ran'[d] = ran[d]
    BY <2>4
  <2>7. Answered(c)'
    BY <2>4, <2>5
  <2> QED BY <2>1, <2>2, <2>4, <2>5, <2>6, <2>7
<1>6. ASSUME WinRM!TimerFires \/ WinRM!AskClose PROVE Conversation'
  BY <1>6 DEF WinRM!TimerFires, WinRM!AskClose, WinRM!workerVars, WinRM!callVars
<1>7. ASSUME WinRM!Close \/ \E t \in fired : WinRM!ExpireIdle(t) PROVE Conversation'
  BY <1>7 DEF WinRM!Close, WinRM!ExpireIdle, WinRM!StopWorker, WinRM!workerVars, WinRM!callVars
<1> QED BY <1>1, <1>2, <1>3, <1>4, <1>5, <1>6, <1>7 DEF WinRM!Next, WinRM!Working, WinRM!World

\* The invariant is inductive,
LEMMA WinRMInvNext == WinRM!WinRMAssumption /\ WinRMInv /\ WinRM!Next => WinRMInv'
BY WinRMStateNext, ConversationNext DEF WinRMInv

\* and depends on the variables of the part only.
LEMMA WinRMInvSame == WinRMInv /\ UNCHANGED WinRM!vars => WinRMInv'
BY DEF WinRMInv, WinRMState, Conversation, Asked, Answered, WinRM!vars, WinRM!workerVars,
       WinRM!timerVars, WinRM!callVars

-----------------------------------------------------------------------------
(* HomeWindow.                                                             *)

\* The types, and what the numbers of a tunnel stand for.
WindowState ==
    /\ windowPlan \in WindowPlans /\ config \in Config
    /\ checking \in Config \cup {None} /\ login \in Config \cup {None}
    /\ tunnels \in 0..MaxTunnels /\ listener \in 0..tunnels /\ winrm \in 0..tunnels
    /\ cancelled \subseteq 1..tunnels /\ listening \subseteq (1..tunnels) \X {"rdp", "winrm"}
    /\ tunnelOf \in [Conn -> 0..tunnels]
    /\ conn \in [Conn -> Window!ConnStates] /\ serviceOf \in [Conn -> {"rdp", "winrm"}]
    /\ DOMAIN routes = Conn /\ activeLocal \in Nat
\* A connection to Remote Desktop is accepted, and routed, in order.
RemoteDesktop == \A c \in Conn : conn[c] \in {"accepted", "dialed"} => serviceOf[c] = "rdp"
\* The connections to Remote Desktop that are there to be shown, and what is shown.
There ==
    {c \in Conn : serviceOf[c] = "rdp" /\ conn[c] \in {"dialing", "dialed", "piping", "closing"}}
Counted == activeLocal <= Cardinality(There) /\ \A c \in Conn : routes[c] # "none" => c \in There
\* Those of the tunnel that runs, and those of others that have ended.
Current == {c \in There : tunnelOf[c] = listener}
Strays == {c \in Conn : serviceOf[c] = "rdp" /\ conn[c] = "gone" /\ tunnelOf[c] # listener}
Missed == listener # 0 => /\ Cardinality(Current) <= activeLocal + Cardinality(Strays)
                          /\ \A c \in Current : routes[c] # "none"
WindowInv == WindowState /\ RemoteDesktop /\ Counted /\ Missed
WindowConstants == Window!ConfigAssumption /\ Window!WindowPlansAssumption

\* The window's instance counts with its own copies of the library's operators.
LEMMA WindowCounts ==
    ASSUME NEW S
    PROVE  /\ Window!IsFiniteSet(S) <=> IsFiniteSet(S)
           /\ Window!Cardinality(S) = Cardinality(S)
<1>1. Window!IsFiniteSet(S) <=> IsFiniteSet(S)
  BY DEF Window!IsFiniteSet, IsFiniteSet
<1>2. Window!Cardinality(S) = Cardinality(S)
  BY DEF Window!Cardinality, Cardinality
<1> QED BY <1>1, <1>2

\* A set of connections has a number.
LEMMA ConnsAreFinite ==
    ASSUME WindowConstants, NEW S, S \subseteq Conn
    PROVE  /\ IsFiniteSet(S) /\ Cardinality(S) \in Nat
           /\ Cardinality(S) \in 0..Cardinality(Conn) /\ Cardinality(Conn) \in Nat
<1>1. S \in SUBSET Conn /\ IsFiniteSet(Conn)
  BY WindowCounts DEF WindowConstants, Window!WindowPlansAssumption
<1>2. IsFiniteSet(S) /\ Cardinality(S) <= Cardinality(Conn)
  BY <1>1, FS_Subset
<1>3. Cardinality(S) \in Nat /\ Cardinality(Conn) \in Nat
  BY <1>1, <1>2, FS_CardinalityType
<1> QED BY <1>2, <1>3

\* There are no connections at first.
LEMMA WindowBegins == WindowConstants /\ Window!Init => WindowInv
<1> SUFFICES ASSUME WindowConstants, Window!Init PROVE WindowInv
  OBVIOUS
<1> USE DEF WindowConstants, Window!ConfigAssumption, Window!WindowPlansAssumption
<1>1. WindowState
  BY DEF Window!Init, WindowState, Window!ConnStates, Window!Tunnel
<1>2. RemoteDesktop /\ Missed
  BY DEF Window!Init, RemoteDesktop, Missed
<1>3. Cardinality(There) \in Nat
  BY ConnsAreFinite DEF There
<1>4. Counted
  BY <1>3 DEF Window!Init, Counted
<1> QED BY <1>1, <1>2, <1>4 DEF WindowInv

\* The invariant says what the runs check of the window.
LEMMA WindowInvMeans ==
    ASSUME WindowConstants, WindowInv
    PROVE  Window!WindowTypeOK /\ Window!ShownConnectionsExist /\ Window!OnlyStraysAreMiscounted
<1>1. activeLocal \in 0..Cardinality(Conn)
  <2>1. There \subseteq Conn
    BY DEF There
  <2> QED BY <2>1, ConnsAreFinite DEF WindowInv, WindowState, Counted
<1>2. Window!WindowTypeOK
  BY <1>1, WindowCounts DEF WindowInv, WindowState, Window!WindowTypeOK
<1>3. Window!There = There
  BY DEF Window!There, There
<1>4. Window!ShownConnectionsExist
  BY <1>3, WindowCounts DEF WindowInv, Counted, Window!ShownConnectionsExist
<1>5. Window!Current = Current /\ Window!Strays = Strays
  BY <1>3 DEF Window!Current, Current, Window!Strays, Strays
<1>6. Window!OnlyStraysAreMiscounted
  BY <1>5, WindowCounts
     DEF WindowInv, Missed, Window!OnlyStraysAreMiscounted, Window!isTunnelRunning
<1> QED BY <1>2, <1>4, <1>6

\* A tunnel that is started is the last one.
LEMMA StartedKeeps ==
    ASSUME WindowConstants, WindowState, NEW c \in Config, NEW after, Window!Started(c, after),
           tunnels < windowPlan.tunnels
    PROVE  /\ tunnels' \in 0..MaxTunnels /\ tunnels' = tunnels + 1 /\ listener' = tunnels'
           /\ winrm' \in 0..tunnels' /\ listening' \subseteq (1..tunnels') \X {"rdp", "winrm"}
           /\ routes' = Window!NoRoutes /\ activeLocal' = 0 /\ cancelled \subseteq 1..tunnels'
           /\ listener \in 0..tunnels' /\ tunnels' \in Nat /\ tunnels' # 0 /\ tunnels \in Nat
<1>1. windowPlan.tunnels \in 0..MaxTunnels /\ tunnels \in Nat
  BY DEF WindowConstants, Window!WindowPlansAssumption, WindowState
<1>2. MaxTunnels \in Nat
  BY DEF WindowConstants, Window!WindowPlansAssumption
<1>3. /\ tunnels' = tunnels + 1 /\ listener' = tunnels + 1 /\ winrm' \in {tunnels + 1, 0}
      /\ routes' = Window!NoRoutes /\ activeLocal' = 0
      /\ listening' = (listening \ after) \cup ({tunnels + 1} \X Window!Services(c))
  BY DEF Window!Started
<1>4. Window!Services(c) \subseteq {"rdp", "winrm"}
  BY DEF Window!Services
<1>5. listening \subseteq (1..tunnels) \X {"rdp", "winrm"}
  BY DEF WindowState
<1>6. listening' \subseteq (1..tunnels') \X {"rdp", "winrm"}
  BY <1>1, <1>3, <1>4, <1>5
<1> QED BY <1>1, <1>2, <1>3, <1>6 DEF WindowState

\* A window that forgets its connections counts none.
LEMMA ForgetsAll ==
    ASSUME WindowConstants, routes' = Window!NoRoutes, activeLocal' = 0
    PROVE  Counted' /\ DOMAIN routes' = Conn /\ activeLocal' \in Nat
<1>1. There' \subseteq Conn
  BY DEF There
<1>2. Cardinality(There') \in Nat
  BY <1>1, ConnsAreFinite
<1> QED BY <1>2 DEF Counted, Window!NoRoutes

\* A tunnel that is stopped leaves no listener and no connection shown.
LEMMA StoppedKeeps ==
    ASSUME WindowState, Window!Stopped
    PROVE  /\ listener' = 0 /\ winrm' = 0 /\ routes' = Window!NoRoutes /\ activeLocal' = 0
           /\ cancelled' \subseteq 1..tunnels /\ UNCHANGED <<tunnels, serving>>
           /\ listening' \subseteq (1..tunnels) \X {"rdp", "winrm"}
BY DEF WindowState, Window!Stopped, Window!StopsRunning

\* A tunnel that starts has no connection yet, and nothing is shown.
LEMMA StartKeepsWindow ==
    ASSUME WindowConstants, WindowInv, NEW c \in Config, NEW after, Window!Started(c, after),
           tunnels < windowPlan.tunnels, config' \in Config,
           UNCHANGED <<windowPlan, Window!connVars>>,
           cancelled' \subseteq 1..tunnels', checking' \in Config \cup {None},
           login' \in Config \cup {None}
    PROVE  WindowInv'
<1>1. WindowState
  BY DEF WindowInv
<1>2. /\ tunnels' \in 0..MaxTunnels /\ listener' = tunnels' /\ winrm' \in 0..tunnels'
      /\ listening' \subseteq (1..tunnels') \X {"rdp", "winrm"} /\ tunnels' = tunnels + 1
      /\ routes' = Window!NoRoutes /\ activeLocal' = 0 /\ tunnels \in Nat
  BY <1>1, StartedKeeps
<1>3. Counted' /\ DOMAIN routes' = Conn /\ activeLocal' \in Nat
  BY <1>2, ForgetsAll
<1>4. tunnelOf' \in [Conn -> 0..tunnels'] /\ listener' \in 0..tunnels'
  BY <1>1, <1>2 DEF WindowState, Window!connVars
<1>5. WindowState'
  BY <1>1, <1>2, <1>3, <1>4 DEF WindowState, Window!connVars
<1>6. RemoteDesktop'
  BY DEF WindowInv, RemoteDesktop, Window!connVars
<1>7. Missed'
  <2>1. \A d \in Conn : tunnelOf'[d] # listener'
    BY <1>1, <1>2 DEF WindowState, Window!connVars
  <2>2. Current' = {}
    BY <2>1 DEF Current, There
  <2>3. Strays' \subseteq Conn
    BY DEF Strays
  <2>4. Cardinality(Strays') \in Nat
    BY <2>3, ConnsAreFinite
  <2>5. Cardinality(Current') = 0
    BY <2>2, FS_EmptySet
  <2> QED BY <1>2, <2>2, <2>4, <2>5 DEF Missed
<1> QED BY <1>3, <1>5, <1>6, <1>7 DEF WindowInv

\* The tunnel is stopped: none is left to have connections.
LEMMA StopKeepsWindow ==
    ASSUME WindowConstants, WindowInv, Window!Stopped, config' \in Config,
           UNCHANGED <<windowPlan, Window!connVars>>,
           checking' \in Config \cup {None}, login' \in Config \cup {None}
    PROVE  WindowInv'
<1>1. WindowState
  BY DEF WindowInv
<1>2. /\ listener' = 0 /\ winrm' = 0 /\ routes' = Window!NoRoutes /\ activeLocal' = 0
      /\ cancelled' \subseteq 1..tunnels /\ UNCHANGED <<tunnels, serving>>
      /\ listening' \subseteq (1..tunnels) \X {"rdp", "winrm"}
  BY <1>1, StoppedKeeps
<1>3. Counted' /\ DOMAIN routes' = Conn /\ activeLocal' \in Nat
  BY <1>2, ForgetsAll
<1>4. WindowState'
  BY <1>1, <1>2, <1>3 DEF WindowState, Window!connVars
<1>5. RemoteDesktop' /\ Missed'
  BY <1>2 DEF WindowInv, RemoteDesktop, Window!connVars, Missed
<1> QED BY <1>3, <1>4, <1>5 DEF WindowInv

\* The tunnel stays, or the window forgets it; its connections are as they were.
LEMMA TunnelStays ==
    ASSUME WindowConstants, WindowInv,
           UNCHANGED <<tunnels, listening, winrm, windowPlan, Window!connVars, cancelled>>,
           \/ UNCHANGED <<listener, Window!shownVars>>
           \/ listener' = 0 /\ routes' = Window!NoRoutes /\ activeLocal' = 0,
           config' \in Config, checking' \in Config \cup {None}, login' \in Config \cup {None}
    PROVE  WindowInv'
<1>1. WindowState /\ RemoteDesktop /\ Counted /\ Missed
  BY DEF WindowInv
<1>2. /\ Counted' /\ DOMAIN routes' = Conn /\ activeLocal' \in Nat
      /\ Missed'
  <2>1. CASE UNCHANGED <<listener, Window!shownVars>>
    BY <1>1, <2>1 DEF Counted, There, WindowState, Window!connVars, Window!shownVars, Missed,
                      Current, Strays
  <2>2. CASE listener' = 0 /\ routes' = Window!NoRoutes /\ activeLocal' = 0
    BY <2>2, ForgetsAll DEF Missed
  <2> QED BY <2>1, <2>2
<1>3. listener' = listener \/ listener' = 0
  OBVIOUS
<1>4. WindowState'
  BY <1>1, <1>2, <1>3 DEF WindowState, Window!connVars
<1>5. RemoteDesktop'
  BY <1>1 DEF RemoteDesktop, Window!connVars
<1> QED BY <1>2, <1>4, <1>5 DEF WindowInv

\* The window's handlers and a listener's end.
LEMMA TunnelSteps ==
    ASSUME WindowConstants, WindowInv,
           \/ Window!StartTunnel \/ Window!StopTunnel \/ Window!Check \/ Window!BeginLogin
           \/ Window!FinishLogin
           \/ \E c \in Config : Window!SaveFromUI(c) \/ Window!PersistDestinationSelection(c)
           \/ \E online \in BOOLEAN : Window!Checked(online)
           \/ \E t \in Window!Tunnel : Window!ListenerFails(t) \/ Window!CloseGroup(t)
                  \/ Window!ResetTunnel(t)
    PROVE  WindowInv'
<1>1. WindowState /\ RemoteDesktop /\ Counted /\ Missed
  BY DEF WindowInv
<1>2. CASE Window!StartTunnel
  <2>1. Window!Started(config, {}) /\ Window!CanStart(config)
        /\ UNCHANGED <<config, cancelled, Window!connVars, Window!windowVars>>
    BY <1>2 DEF Window!StartTunnel
  <2>2. cancelled \subseteq 1..tunnels' /\ config \in Config
    BY <1>1, <2>1, StartedKeeps DEF WindowState, Window!CanStart
  <2> QED BY <1>1, <2>1, <2>2, StartKeepsWindow DEF WindowState, Window!windowVars, Window!CanStart
<1>3. CASE Window!StopTunnel
  BY <1>1, <1>3, StopKeepsWindow DEF Window!StopTunnel, WindowState, Window!windowVars
<1>4. CASE Window!Check \/ Window!BeginLogin
  BY <1>1, <1>4, TunnelStays DEF Window!Check, Window!BeginLogin, WindowState, Window!tunnelVars,
                                 Window!shownVars
<1>5. CASE Window!FinishLogin
  BY <1>1, <1>5, TunnelStays DEF Window!FinishLogin, WindowState, Window!tunnelVars
<1>6. ASSUME NEW c \in Config, Window!SaveFromUI(c) PROVE WindowInv'
  <2>1. config' = c /\ UNCHANGED <<Window!connVars, windowPlan, checking, login>>
    BY <1>6 DEF Window!SaveFromUI
  <2>2. CASE ~Window!isTunnelRunning
    BY <1>1, <1>6, <2>1, <2>2, TunnelStays
       DEF Window!SaveFromUI, Window!isTunnelRunning, WindowState, Window!tunnelVars
  <2>3. CASE Window!Stopped
    BY <1>1, <2>1, <2>3, StopKeepsWindow DEF WindowState
  <2>4. CASE Window!StopsRunning /\ Window!Started(c, Window!Sockets)
             /\ tunnels < windowPlan.tunnels
    <3>1. cancelled' \subseteq 1..tunnels'
      <4>1. cancelled \subseteq 1..tunnels' /\ listener \in 0..tunnels'
        BY <1>1, <2>4, StartedKeeps
      <4> QED BY <2>4, <4>1 DEF Window!StopsRunning
    <3> QED BY <1>1, <2>1, <2>4, <3>1, StartKeepsWindow DEF WindowState
  <2> QED BY <1>6, <2>2, <2>3, <2>4 DEF Window!SaveFromUI
<1>7. ASSUME NEW c \in Config, Window!PersistDestinationSelection(c) PROVE WindowInv'
  BY <1>1, <1>7, TunnelStays DEF Window!PersistDestinationSelection, WindowState,
                                 Window!tunnelVars
<1>8. ASSUME NEW online \in BOOLEAN, Window!Checked(online) PROVE WindowInv'
  <2>1. checking' = None
        /\ UNCHANGED <<config, Window!connVars, windowPlan, login, saves>>
    BY <1>8 DEF Window!Checked
  <2>2. CASE Window!Started(config, {}) /\ UNCHANGED cancelled /\ Window!CanStart(config)
    <3>1. cancelled' \subseteq 1..tunnels'
      BY <1>1, <2>2, StartedKeeps DEF WindowState, Window!CanStart
    <3> QED BY <1>1, <2>1, <2>2, <3>1, StartKeepsWindow DEF WindowState, Window!CanStart
  <2>3. CASE UNCHANGED <<Window!tunnelVars, Window!shownVars>>
    BY <1>1, <2>1, <2>3, TunnelStays DEF WindowState, Window!tunnelVars
  <2> QED BY <1>8, <2>2, <2>3 DEF Window!Checked
<1>9. ASSUME NEW t \in Window!Tunnel, Window!ListenerFails(t) \/ Window!CloseGroup(t)
      PROVE WindowInv'
  <2>1. /\ UNCHANGED <<config, listener, winrm, tunnels, cancelled, conn, tunnelOf,
                       serviceOf>>
        /\ UNCHANGED <<Window!shownVars, Window!windowVars>> /\ listening' \subseteq listening
    BY <1>9 DEF Window!ListenerFails, Window!CloseGroup, Window!connVars
  <2> QED BY <1>1, <2>1 DEF WindowInv, WindowState, RemoteDesktop, Counted, There, Missed,
                            Current, Strays, Window!shownVars, Window!windowVars
<1>10. ASSUME NEW t \in Window!Tunnel, Window!ResetTunnel(t) PROVE WindowInv'
  BY <1>1, <1>10, TunnelStays DEF Window!ResetTunnel, WindowState, Window!windowVars
<1> QED BY <1>2, <1>3, <1>4, <1>5, <1>6, <1>7, <1>8, <1>9, <1>10

\* The steps of a connection.
LEMMA ConnSteps ==
    ASSUME WindowConstants, WindowInv, NEW c \in Conn,
           \/ Window!Begin(c) \/ Window!DialRelay(c) \/ Window!LocalConnRouted(c)
           \/ Window!PipeIsCut(c) \/ Window!LocalConnDone(c) \/ Window!PipeEnds(c)
           \/ \E t \in Window!Tunnel, s \in {"rdp", "winrm"} : Window!Accept(c, t, s)
    PROVE  WindowInv'
<1>1. WindowState /\ RemoteDesktop /\ Counted /\ Missed
  BY DEF WindowInv
<1>2. There \subseteq Conn /\ There' \subseteq Conn
  BY DEF There
<1>3. /\ IsFiniteSet(There) /\ Cardinality(There) \in Nat
      /\ IsFiniteSet(There') /\ Cardinality(There') \in Nat
  BY <1>2, ConnsAreFinite
<1>4. /\ UNCHANGED <<config, Window!tunnelVars, Window!windowVars>>
      /\ conn' = [conn EXCEPT ![c] = conn'[c]] /\ conn'[c] \in Window!ConnStates
      /\ serviceOf' \in [Conn -> {"rdp", "winrm"}]
      /\ \A d \in Conn \ {c} : serviceOf'[d] = serviceOf[d]
      /\ conn[c] # "new" => UNCHANGED serviceOf
      /\ tunnelOf' \in [Conn -> 0..tunnels] /\ \A d \in Conn \ {c} : tunnelOf'[d] = tunnelOf[d]
      /\ conn[c] # "new" => UNCHANGED tunnelOf
  <2>1. conn \in [Conn -> Window!ConnStates] /\ serviceOf \in [Conn -> {"rdp", "winrm"}]
    BY <1>1 DEF WindowState
  <2>2. UNCHANGED <<config, Window!tunnelVars, Window!windowVars>>
    BY DEF Window!Begin, Window!DialRelay, Window!LocalConnRouted, Window!PipeIsCut,
           Window!LocalConnDone, Window!PipeEnds, Window!Accept
  <2>3. \E v \in Window!ConnStates : conn' = [conn EXCEPT ![c] = v]
    BY DEF Window!ConnStates, Window!Begin, Window!DialRelay, Window!LocalConnRouted,
           Window!PipeIsCut, Window!LocalConnDone, Window!PipeEnds, Window!Accept, Window!Moves
  <2>4. \/ UNCHANGED serviceOf
        \/ conn[c] = "new" /\ \E s \in {"rdp", "winrm"} : serviceOf' = [serviceOf EXCEPT ![c] = s]
    BY DEF Window!Begin, Window!DialRelay, Window!LocalConnRouted, Window!PipeIsCut,
           Window!LocalConnDone, Window!PipeEnds, Window!Accept
  <2>5. conn' = [conn EXCEPT ![c] = conn'[c]] /\ conn'[c] \in Window!ConnStates
    BY <2>1, <2>3
  <2>6. /\ serviceOf' \in [Conn -> {"rdp", "winrm"}]
        /\ \A d \in Conn \ {c} : serviceOf'[d] = serviceOf[d]
        /\ conn[c] # "new" => UNCHANGED serviceOf
    BY <2>1, <2>4
  <2>7. \/ UNCHANGED tunnelOf
        \/ conn[c] = "new" /\ \E t \in 0..tunnels : tunnelOf' = [tunnelOf EXCEPT ![c] = t]
    <3>1. ASSUME NEW t \in Window!Tunnel, NEW s \in {"rdp", "winrm"}, Window!Accept(c, t, s)
          PROVE  conn[c] = "new" /\ t \in 0..tunnels /\ tunnelOf' = [tunnelOf EXCEPT ![c] = t]
      <4>1. <<t, s>> \in listening /\ listening \subseteq (1..tunnels) \X {"rdp", "winrm"}
        BY <1>1, <3>1 DEF Window!Accept, WindowState
      <4>2. t \in 1..tunnels
        BY <4>1
      <4> QED BY <1>1, <3>1, <4>2 DEF Window!Accept, WindowState
    <3>2. CASE \/ Window!Begin(c) \/ Window!DialRelay(c) \/ Window!LocalConnRouted(c)
               \/ Window!PipeIsCut(c) \/ Window!LocalConnDone(c) \/ Window!PipeEnds(c)
      BY <3>2 DEF Window!Begin, Window!DialRelay, Window!LocalConnRouted, Window!PipeIsCut,
                  Window!LocalConnDone, Window!PipeEnds
    <3> QED BY <3>1, <3>2
  <2>8. /\ tunnelOf' \in [Conn -> 0..tunnels] /\ \A d \in Conn \ {c} : tunnelOf'[d] = tunnelOf[d]
        /\ conn[c] # "new" => UNCHANGED tunnelOf
    BY <1>1, <2>7 DEF WindowState
  <2> QED BY <2>2, <2>5, <2>6, <2>8
<1>5. RemoteDesktop'
  <2>1. conn'[c] \in {"accepted", "dialed"} => serviceOf'[c] = "rdp"
    BY <1>1, <1>4 DEF WindowState, RemoteDesktop, Window!Begin, Window!DialRelay,
                      Window!LocalConnRouted, Window!PipeIsCut,
                      Window!LocalConnDone, Window!PipeEnds, Window!Accept, Window!Moves
  <2> QED BY <1>1, <1>4, <2>1 DEF WindowState, RemoteDesktop
<1>d. /\ DOMAIN routes = Conn /\ activeLocal \in Nat
      /\ activeLocal <= Cardinality(There) /\ \A d \in Conn : routes[d] # "none" => d \in There
  BY <1>1 DEF WindowState, Counted
<1>7. DOMAIN routes' = Conn /\ activeLocal' \in Nat
  <2>1. routes' = routes \/ \E v : routes' = [routes EXCEPT ![c] = v]
    BY DEF Window!Begin, Window!DialRelay, Window!LocalConnRouted, Window!PipeIsCut,
           Window!LocalConnDone, Window!PipeEnds, Window!Accept, Window!shownVars
  <2>2. activeLocal' \in {activeLocal, activeLocal + 1, Window!Uncounted(c)}
    BY DEF Window!Begin, Window!DialRelay, Window!LocalConnRouted, Window!PipeIsCut,
           Window!LocalConnDone, Window!PipeEnds, Window!Accept, Window!shownVars
  <2> QED BY <1>d, <2>1, <2>2 DEF Window!Uncounted
<1>8. WindowState'
  BY <1>1, <1>4, <1>7 DEF WindowState, Window!tunnelVars, Window!windowVars
<1>9. There' \ {c} = There \ {c}
  BY <1>1, <1>4 DEF There, WindowState
<1>10. ASSUME UNCHANGED Window!shownVars /\ (c \in There' <=> c \in There) PROVE Counted'
  <2>1. There' = There
    BY <1>9, <1>10
  <2> QED BY <1>d, <1>10, <2>1 DEF Counted, Window!shownVars
<1>11. ASSUME Window!Begin(c) PROVE Counted'
  <2>1. c \in There' /\ c \notin There
    BY <1>1, <1>11 DEF There, Window!Begin, WindowState, RemoteDesktop
  <2>2. There' = There \cup {c}
    BY <1>9, <2>1
  <2>3. Cardinality(There') = Cardinality(There) + 1
    BY <1>3, <2>1, <2>2, FS_AddElement
  <2>4. activeLocal' = activeLocal + 1 /\ routes' = [routes EXCEPT ![c] = "pending"]
    BY <1>11 DEF Window!Begin
  <2>5. activeLocal' <= Cardinality(There')
    BY <1>3, <1>d, <2>3, <2>4
  <2> QED BY <1>d, <2>2, <2>4, <2>5 DEF Counted
<1>12. ASSUME Window!LocalConnRouted(c) PROVE Counted'
  <2>1. c \in There' /\ c \in There
    BY <1>1, <1>12 DEF There, Window!LocalConnRouted, Window!Moves, WindowState, RemoteDesktop
  <2>2. There' = There
    BY <1>9, <2>1
  <2> QED BY <1>d, <1>12, <2>1, <2>2 DEF Counted, Window!LocalConnRouted
<1>13. ASSUME Window!LocalConnDone(c) /\ serviceOf[c] = "rdp" PROVE Counted'
  <2>1. c \notin There' /\ c \in There
    BY <1>1, <1>13 DEF There, Window!LocalConnDone, Window!Moves, WindowState
  <2>2. There' = There \ {c}
    BY <1>9, <2>1
  <2>3. Cardinality(There') = Cardinality(There) - 1
    BY <1>3, <2>1, <2>2, FS_RemoveElement
  <2>4. activeLocal' = Window!Uncounted(c) /\ routes' = [routes EXCEPT ![c] = "none"]
    BY <1>13 DEF Window!LocalConnDone
  <2>5. activeLocal' <= Cardinality(There')
    BY <1>3, <1>d, <2>3, <2>4 DEF Window!Uncounted
  <2> QED BY <1>d, <2>2, <2>4, <2>5 DEF Counted
<1>14. ASSUME Window!LocalConnDone(c) /\ serviceOf[c] # "rdp" PROVE Counted'
  <2>1. UNCHANGED Window!shownVars /\ c \notin There' /\ c \notin There
    BY <1>1, <1>14 DEF There, Window!LocalConnDone, Window!Moves, WindowState
  <2> QED BY <1>10, <2>1
<1>15. ASSUME \/ Window!DialRelay(c) \/ Window!PipeIsCut(c) \/ Window!PipeEnds(c)
              \/ \E t \in Window!Tunnel, s \in {"rdp", "winrm"} : Window!Accept(c, t, s)
       PROVE  Counted'
  <2>1. UNCHANGED Window!shownVars
    BY <1>15 DEF Window!DialRelay, Window!PipeIsCut, Window!PipeEnds, Window!Accept
  <2>2. c \in There' <=> c \in There
    BY <1>1, <1>15 DEF There, Window!DialRelay, Window!PipeIsCut, Window!PipeEnds, Window!Accept,
                       Window!Moves, WindowState
  <2> QED BY <1>10, <2>1, <2>2
<1>16. Counted'
  BY <1>11, <1>12, <1>13, <1>14, <1>15
<1>17. UNCHANGED listener
  BY <1>4 DEF Window!tunnelVars
<1>18. Current' \ {c} = Current \ {c} /\ Strays' \ {c} = Strays \ {c}
  <2>1. \A d \in Conn \ {c} : /\ conn'[d] = conn[d] /\ serviceOf'[d] = serviceOf[d]
                             /\ tunnelOf'[d] = tunnelOf[d]
    BY <1>1, <1>4 DEF WindowState
  <2>2. Current' \ {c} = Current \ {c}
    BY <1>2, <1>9, <1>17, <2>1 DEF Current
  <2>3. Strays' \ {c} = Strays \ {c}
    BY <1>17, <2>1 DEF Strays
  <2> QED BY <2>2, <2>3
<1>19. /\ Current \subseteq Conn /\ Current' \subseteq Conn
       /\ Strays \subseteq Conn /\ Strays' \subseteq Conn
  BY DEF Current, Strays, There
<1>20. /\ IsFiniteSet(Current) /\ Cardinality(Current) \in Nat /\ Cardinality(Current') \in Nat
       /\ IsFiniteSet(Strays) /\ Cardinality(Strays) \in Nat /\ Cardinality(Strays') \in Nat
  BY <1>19, ConnsAreFinite
<1>21. ASSUME listener # 0
       PROVE  /\ Cardinality(Current) <= activeLocal + Cardinality(Strays)
              /\ \A d \in Current : routes[d] # "none"
  BY <1>1, <1>21 DEF Missed
<1>22. ASSUME /\ c \in Current' <=> c \in Current
              /\ c \in Strays' <=> c \in Strays
              /\ UNCHANGED Window!shownVars
       PROVE  Missed'
  <2>1. Current' = Current /\ Strays' = Strays
    BY <1>18, <1>22
  <2> QED BY <1>1, <1>17, <1>22, <2>1 DEF Missed, Window!shownVars
<1>23. ASSUME Window!Begin(c) PROVE Missed'
  <2>1. c \notin Current /\ c \notin Strays /\ c \notin Strays'
    BY <1>1, <1>23 DEF There, Current, Strays, Window!Begin, WindowState
  <2>2. Strays' = Strays /\ (Current' = Current \/ Current' = Current \cup {c})
    BY <1>18, <2>1
  <2>3. Cardinality(Current') <= Cardinality(Current) + 1
    <3>1. CASE Current' = Current
      BY <1>20, <3>1
    <3>2. CASE Current' = Current \cup {c}
      <4>1. Cardinality(Current \cup {c}) = Cardinality(Current) + 1
        BY <1>20, <2>1, FS_AddElement
      <4> QED BY <1>20, <3>2, <4>1
    <3> QED BY <2>2, <3>1, <3>2
  <2>4. activeLocal' = activeLocal + 1 /\ routes' = [routes EXCEPT ![c] = "pending"]
    BY <1>23 DEF Window!Begin
  <2>5. ASSUME listener # 0 PROVE Cardinality(Current') <= activeLocal' + Cardinality(Strays')
    BY <1>d, <1>20, <1>21, <2>2, <2>3, <2>4, <2>5
  <2>6. ASSUME listener # 0 PROVE \A d \in Current' : routes'[d] # "none"
    BY <1>d, <1>19, <1>21, <2>2, <2>4, <2>6
  <2> QED BY <1>17, <2>5, <2>6 DEF Missed
<1>24. ASSUME Window!LocalConnRouted(c) PROVE Missed'
  <2>1. c \notin Strays /\ c \notin Strays' /\ (c \in Current' <=> c \in Current)
    BY <1>1, <1>17, <1>24 DEF There, Current, Strays, Window!LocalConnRouted, Window!Moves, WindowState,
                              RemoteDesktop
  <2>2. Strays' = Strays /\ Current' = Current
    BY <1>18, <2>1
  <2>3. activeLocal' = activeLocal /\ \A d \in Conn : routes[d] # "none" => routes'[d] # "none"
    BY <1>d, <1>24 DEF Window!LocalConnRouted
  <2> QED BY <1>1, <1>17, <1>19, <2>2, <2>3 DEF Missed
<1>25. ASSUME Window!LocalConnDone(c) /\ serviceOf[c] = "rdp" PROVE Missed'
  <2>1. /\ activeLocal' = Window!Uncounted(c) /\ routes' = [routes EXCEPT ![c] = "none"]
        /\ UNCHANGED <<tunnelOf, serviceOf>> /\ conn[c] = "closing" /\ conn'[c] = "gone"
    BY <1>1, <1>25 DEF Window!LocalConnDone, Window!Moves, WindowState
  <2>2. c \notin Current' /\ c \notin Strays
    BY <2>1 DEF Current, There, Strays
  <2>3. CASE tunnelOf[c] = listener
    <3>1. c \in Current /\ c \notin Strays'
      BY <1>17, <1>25, <2>1, <2>3 DEF Current, There, Strays
    <3>2. Current' = Current \ {c} /\ Strays' = Strays
      BY <1>18, <2>2, <3>1
    <3>3. Cardinality(Current') = Cardinality(Current) - 1
      BY <1>20, <3>1, <3>2, FS_RemoveElement
    <3>4. ASSUME listener # 0 PROVE Cardinality(Current') <= activeLocal' + Cardinality(Strays')
      BY <1>d, <1>20, <1>21, <2>1, <3>2, <3>3, <3>4 DEF Window!Uncounted
    <3>5. ASSUME listener # 0 PROVE \A d \in Current' : routes'[d] # "none"
      BY <1>d, <1>19, <1>21, <2>1, <3>2, <3>5
    <3> QED BY <1>17, <3>4, <3>5 DEF Missed
  <2>4. CASE tunnelOf[c] # listener
    <3>1. c \notin Current /\ c \in Strays'
      BY <1>17, <1>25, <2>1, <2>4 DEF Current, There, Strays
    <3>2. Current' = Current /\ Strays' = Strays \cup {c}
      BY <1>18, <2>2, <3>1
    <3>3. Cardinality(Strays') = Cardinality(Strays) + 1
      BY <1>20, <2>2, <3>2, FS_AddElement
    <3>4. ASSUME listener # 0 PROVE Cardinality(Current') <= activeLocal' + Cardinality(Strays')
      BY <1>d, <1>20, <1>21, <2>1, <3>2, <3>3, <3>4 DEF Window!Uncounted
    <3>5. ASSUME listener # 0 PROVE \A d \in Current' : routes'[d] # "none"
      BY <1>d, <1>19, <1>21, <2>1, <3>1, <3>2, <3>5
    <3> QED BY <1>17, <3>4, <3>5 DEF Missed
  <2> QED BY <2>3, <2>4
<1>26. ASSUME Window!LocalConnDone(c) /\ serviceOf[c] # "rdp" PROVE Missed'
  <2>1. UNCHANGED Window!shownVars /\ UNCHANGED serviceOf
    BY <1>26 DEF Window!LocalConnDone
  <2>2. c \notin Current /\ c \notin Current' /\ c \notin Strays /\ c \notin Strays'
    BY <1>26, <2>1 DEF Current, There, Strays
  <2> QED BY <1>22, <2>1, <2>2
<1>27. ASSUME \/ Window!DialRelay(c) \/ Window!PipeIsCut(c) \/ Window!PipeEnds(c)
       PROVE  Missed'
  <2>1. UNCHANGED <<Window!shownVars, tunnelOf, serviceOf>>
    BY <1>27 DEF Window!DialRelay, Window!PipeIsCut, Window!PipeEnds
  <2>2. /\ conn[c] \in {"dialing", "piping"} /\ conn'[c] \in {"dialed", "piping", "closing"}
    BY <1>1, <1>27 DEF Window!DialRelay, Window!PipeIsCut, Window!PipeEnds, Window!Moves, WindowState
  <2>3. (c \in Current' <=> c \in Current) /\ (c \in Strays' <=> c \in Strays)
    BY <1>17, <2>1, <2>2 DEF Current, There, Strays
  <2> QED BY <1>22, <2>1, <2>3
<1>28. ASSUME NEW t \in Window!Tunnel, NEW s \in {"rdp", "winrm"}, Window!Accept(c, t, s)
       PROVE  Missed'
  <2>1. UNCHANGED Window!shownVars /\ conn[c] = "new"
    BY <1>28 DEF Window!Accept
  <2>2. conn'[c] = "accepted" \/ (conn'[c] = "dialing" /\ serviceOf'[c] # "rdp")
    <3>1. conn'[c] = (IF s = "rdp" THEN "accepted" ELSE "dialing") /\ serviceOf'[c] = s
      BY <1>1, <1>28 DEF Window!Accept, WindowState
    <3> QED BY <3>1
  <2>3. c \notin Current /\ c \notin Strays
    BY <2>1 DEF Current, There, Strays
  <2>4. c \notin There' /\ c \notin Strays'
    BY <2>2 DEF There, Strays
  <2>5. c \notin Current'
    BY <2>4 DEF Current
  <2> QED BY <1>22, <2>1, <2>3, <2>4, <2>5
<1>29. Missed'
  BY <1>23, <1>24, <1>25, <1>26, <1>27, <1>28
<1> QED BY <1>5, <1>8, <1>16, <1>29 DEF WindowInv

\* The invariant is inductive,
LEMMA WindowInvNext == WindowConstants /\ WindowInv /\ Window!Next => WindowInv'
BY TunnelSteps, ConnSteps DEF Window!Next, Window!Serving, Window!Window, Window!World

\* and depends on the variables of the part only.
LEMMA WindowInvSame == WindowInv /\ UNCHANGED Window!vars => WindowInv'
<1> SUFFICES ASSUME WindowInv, UNCHANGED Window!vars PROVE WindowInv'
  OBVIOUS
<1>1. /\ UNCHANGED <<config, tunnels, listener, winrm, listening, cancelled, tunnelOf>>
      /\ UNCHANGED <<conn, serviceOf, routes, activeLocal, windowPlan, checking, login>>
  BY DEF Window!vars, Window!tunnelVars, Window!connVars, Window!shownVars, Window!windowVars
<1> QED BY <1>1 DEF WindowInv, WindowState, RemoteDesktop, Counted, There, Missed, Current, Strays

-----------------------------------------------------------------------------
(* HomeProfiles.                                                           *)

\* A list of profiles: each has a name of its own, and no proof but its room's.
GoodProfile(p) == p \in Profiles!Profile /\ p.proof \in {None, p.room}
GoodList(ds) ==
    /\ ds \in Seq(Profiles!Profile) /\ Len(ds) \in 1..MaxDestinations
    /\ \A i \in 1..Len(ds) : ds[i].proof \in {None, ds[i].room}
    /\ \A i, j \in 1..Len(ds) : ds[i].name = ds[j].name => i = j
GoodConfig(c) == \E ds : GoodList(ds) /\ \E i \in 1..Len(ds) : c = Profiles!ConfigOf(ds, i)
\* What is edited is a good list, and what was saved is the config of one.
ProfilesInv ==
    /\ GoodList(destinations) /\ selectedDestination \in 1..Len(destinations)
    /\ fields \in Profiles!Fields
    /\ settings = None \/ GoodConfig(settings)
ProfilesConstants == Profiles!DefaultAssumption /\ Profiles!WorkProfileAssumption

\* A set of numbers has a least one.
LEMMA LeastNumber ==
    ASSUME NEW S \in SUBSET Nat, S # {}
    PROVE  \E n \in S : \A k \in S : n <= k
<1> DEFINE R == OpToRel(<, Nat)
<1>1. IsWellFoundedOn(R, Nat)
  BY NatLessThanWellFounded
<1>2. \A x, y \in Nat : <<x, y>> \in R <=> x < y
  BY DEF OpToRel
<1> HIDE DEF R
<1>3. PICK n \in S : \A k \in S : <<k, n>> \notin R
  BY <1>1, WFMin
<1>4. ASSUME NEW k \in S PROVE n <= k
  <2>1. n \in Nat /\ k \in Nat /\ ~(k < n)
    BY <1>2, <1>3
  <2> QED BY <2>1
<1> QED BY <1>4

\* A member of such a list is a good profile.
LEMMA GoodItem ==
    ASSUME NEW ds, GoodList(ds), NEW i \in 1..Len(ds)
    PROVE  GoodProfile(ds[i]) /\ Len(ds) \in Nat /\ DOMAIN ds = 1..Len(ds)
BY DEF GoodList, GoodProfile

\* The number that makes a name unique, as a list is shorter than the numbers are many.
LEMMA NameIsUnique ==
    ASSUME ProfilesConstants, NEW ds, GoodList(ds), NEW typed \in Typed,
           NEW ignored \in 0..Len(ds), ignored = 0 => Len(ds) < MaxDestinations
    PROVE  /\ Profiles!UniqueName(ds, typed, ignored) \in Profiles!Name
           /\ \A j \in (1..Len(ds)) \ {ignored} :
                  Profiles!UniqueName(ds, typed, ignored) # ds[j].name
<1> DEFINE J == (1..Len(ds)) \ {ignored}
           N == 1..MaxDestinations
           used == {ds[i].name : i \in J}
           Free == {n \in N : <<typed, n>> \notin used}
<1>1. MaxDestinations \in Nat /\ Len(ds) \in Nat /\ Len(ds) <= MaxDestinations
  BY DEF ProfilesConstants, Profiles!DefaultAssumption, GoodList
<1>2. IsFiniteSet(N) /\ Cardinality(N) = MaxDestinations
  BY <1>1, FS_Interval
<1>3. IsFiniteSet(J) /\ Cardinality(J) < MaxDestinations
  <2>1. IsFiniteSet(1..Len(ds)) /\ Cardinality(1..Len(ds)) = Len(ds)
    <3>1. 1 \in Int /\ Len(ds) \in Int /\ (1 > Len(ds) => Len(ds) = 0)
              /\ Len(ds) - 1 + 1 = Len(ds)
      BY <1>1
    <3> HIDE DEF J, N, used, Free
    <3> QED BY <3>1, FS_Interval
  <2>2. IsFiniteSet(J) /\ Cardinality(J) = IF ignored \in 1..Len(ds) THEN Len(ds) - 1 ELSE Len(ds)
    BY <2>1, FS_RemoveElement
  <2>3. CASE ignored = 0
    BY <1>1, <2>2, <2>3
  <2>4. CASE ignored # 0
    <3>1. ignored \in 1..Len(ds)
      BY <1>1, <2>4
    <3> QED BY <1>1, <2>2, <3>1
  <2> QED BY <2>3, <2>4
<1>4. Free # {}
  <2> SUFFICES ASSUME Free = {} PROVE FALSE
    OBVIOUS
  <2> DEFINE f == [n \in N |-> CHOOSE i \in J : ds[i].name = <<typed, n>>]
  <2>1. \A n \in N : \E i \in J : ds[i].name = <<typed, n>>
    OBVIOUS
  <2>2. \A n \in N : f[n] \in J /\ ds[f[n]].name = <<typed, n>>
    BY <2>1
  <2>3. f \in [N -> J]
    BY <2>2
  <2> HIDE DEF f, N, J
  <2>4. \E x, y \in N : x # y /\ f[x] = f[y]
    BY <1>2, <1>3, <2>3, FS_PigeonHole
  <2> QED BY <2>2, <2>4
<1>5. Free \in SUBSET Nat
  BY <1>1
<1>6. PICK least \in Free : \A k \in Free : least <= k
  BY <1>4, <1>5, LeastNumber
<1>7. \A k \in 1..least - 1 : <<typed, k>> \in used
  <2> TAKE k \in 1..least - 1
  <2>1. k \in N /\ ~(least <= k)
    BY <1>1
  <2> QED BY <1>6, <2>1
<1> DEFINE P(n) == <<typed, n>> \notin used /\ \A k \in 1..n - 1 : <<typed, k>> \in used
           u == CHOOSE n \in N : P(n)
<1>8. least \in N /\ P(least)
  BY <1>7
<1>9. u \in N /\ P(u)
  <2> HIDE DEF P, N
  <2> QED BY <1>8
<1>10. Profiles!UniqueName(ds, typed, ignored) = <<typed, u>>
  BY Zenon DEF Profiles!UniqueName
<1>11. <<typed, u>> \in Profiles!Name
  <2>1. u \in 1..MaxDestinations
    BY <1>9
  <2> HIDE DEF u
  <2> QED BY <2>1 DEF Profiles!Name
<1>12. \A j \in J : <<typed, u>> # ds[j].name
  <2>1. <<typed, u>> \notin used
    BY <1>9
  <2> HIDE DEF u
  <2> QED BY <2>1
<1> QED BY <1>10, <1>11, <1>12

\* One member can be replaced by a profile whose name no other has,
LEMMA ExceptIsGood ==
    ASSUME NEW ds, GoodList(ds), NEW i \in 1..Len(ds), NEW p, GoodProfile(p),
           \A j \in (1..Len(ds)) \ {i} : p.name # ds[j].name
    PROVE  /\ GoodList([ds EXCEPT ![i] = p]) /\ Len([ds EXCEPT ![i] = p]) = Len(ds)
           /\ [ds EXCEPT ![i] = p][i] = p
<1> DEFINE es == [ds EXCEPT ![i] = p]
<1>1. ds \in Seq(Profiles!Profile) /\ p \in Profiles!Profile /\ Len(ds) \in Nat
  BY DEF GoodList, GoodProfile
<1>2. es \in Seq(Profiles!Profile) /\ Len(es) = Len(ds) /\ es[i] = p
  BY <1>1
<1>3. \A j \in (1..Len(ds)) \ {i} : es[j] = ds[j]
  BY <1>1
<1> HIDE DEF es
<1>4. \A j \in 1..Len(es) : es[j].proof \in {None, es[j].room}
  BY <1>2, <1>3 DEF GoodList, GoodProfile
<1>5. \A j, k \in 1..Len(es) : es[j].name = es[k].name => j = k
  BY <1>2, <1>3 DEF GoodList
<1>6. GoodList(es)
  BY <1>2, <1>4, <1>5 DEF GoodList
<1> QED BY <1>2, <1>6 DEF es

\* such a profile can be appended,
LEMMA AppendIsGood ==
    ASSUME ProfilesConstants, NEW ds, GoodList(ds), Len(ds) < MaxDestinations, NEW p,
           GoodProfile(p),
           \A j \in 1..Len(ds) : p.name # ds[j].name
    PROVE  /\ GoodList(Append(ds, p)) /\ Len(Append(ds, p)) = Len(ds) + 1
           /\ Append(ds, p)[Len(ds) + 1] = p /\ \A i \in 1..Len(ds) : Append(ds, p)[i] = ds[i]
<1> DEFINE es == Append(ds, p)
<1>1. ds \in Seq(Profiles!Profile) /\ p \in Profiles!Profile /\ Len(ds) \in Nat
      /\ MaxDestinations \in Nat
  BY DEF GoodList, GoodProfile, ProfilesConstants, Profiles!DefaultAssumption
<1>2. es \in Seq(Profiles!Profile) /\ Len(es) = Len(ds) + 1 /\ es[Len(ds) + 1] = p
  BY <1>1
<1>3. \A j \in 1..Len(ds) : es[j] = ds[j]
  BY <1>1
<1> HIDE DEF es
<1>4. \A j \in 1..Len(es) : j \in 1..Len(ds) \/ j = Len(ds) + 1
  BY <1>1, <1>2
<1>5. \A j \in 1..Len(es) : es[j].proof \in {None, es[j].room}
  BY <1>2, <1>3, <1>4 DEF GoodList, GoodProfile
<1>6. \A j, k \in 1..Len(es) : es[j].name = es[k].name => j = k
  BY <1>2, <1>3, <1>4 DEF GoodList
<1>7. GoodList(es)
  BY <1>1, <1>2, <1>5, <1>6 DEF GoodList
<1> QED BY <1>2, <1>3, <1>7 DEF es

\* and one of several members can be removed.
LEMMA DeleteIsGood ==
    ASSUME ProfilesConstants, NEW ds, GoodList(ds), Len(ds) > 1, NEW i \in 1..Len(ds)
    PROVE  LET es == SubSeq(ds, 1, i - 1) \o SubSeq(ds, i + 1, Len(ds))
           IN  GoodList(es) /\ Len(es) = Len(ds) - 1
<1> DEFINE es == SubSeq(ds, 1, i - 1) \o SubSeq(ds, i + 1, Len(ds))
<1>1. ds \in Seq(Profiles!Profile) /\ Len(ds) \in Nat /\ i \in Nat
  BY DEF GoodList
<1> DEFINE s1 == SubSeq(ds, 1, i - 1)
           s2 == SubSeq(ds, i + 1, Len(ds))
<1>2. /\ s1 \in Seq(Profiles!Profile) /\ Len(s1) = i - 1
      /\ \A j \in 1..i - 1 : s1[j] = ds[j]
  BY <1>1
<1>3. /\ s2 \in Seq(Profiles!Profile) /\ Len(s2) = Len(ds) - i
      /\ \A j \in 1..Len(ds) - i : s2[j] = ds[i + j]
  BY <1>1
<1>e. es = s1 \o s2
  OBVIOUS
<1> HIDE DEF es, s1, s2
<1>4. es \in Seq(Profiles!Profile) /\ Len(es) = Len(ds) - 1
  BY <1>1, <1>2, <1>3, <1>e, ConcatProperties
<1>c. \A j \in 1..Len(es) : es[j] = IF j <= i - 1 THEN s1[j]
                                                  ELSE s2[j - (i - 1)]
  BY <1>1, <1>2, <1>3, <1>4, <1>e, ConcatProperties
<1>5. ASSUME NEW j \in 1..Len(es)
      PROVE  IF j < i THEN j \in 1..Len(ds) /\ es[j] = ds[j] ELSE j + 1 \in 1..Len(ds)
                 /\ es[j] = ds[j + 1]
  <2>1. CASE j < i
    <3>1. es[j] = s1[j]
      BY <1>1, <1>4, <1>c, <2>1
    <3> QED BY <1>1, <1>2, <1>4, <2>1, <3>1
  <2>2. CASE ~(j < i)
    <3>1. es[j] = s2[j - (i - 1)] /\ j - (i - 1) \in 1..Len(ds) - i
      BY <1>1, <1>4, <1>c, <2>2
    <3>2. i + (j - (i - 1)) = j + 1
      BY <1>1
    <3> QED BY <1>1, <1>3, <1>4, <2>2, <3>1, <3>2
  <2> QED BY <2>1, <2>2
<1>6. \A j \in 1..Len(es) : es[j].proof \in {None, es[j].room}
  BY <1>5 DEF GoodList
<1>7. ASSUME NEW j \in 1..Len(es), NEW k \in 1..Len(es), es[j].name = es[k].name PROVE j = k
  <2> DEFINE place(n) == IF n < i THEN n ELSE n + 1
  <2>1. place(j) \in 1..Len(ds) /\ place(k) \in 1..Len(ds) /\ es[j] = ds[place(j)]
        /\ es[k] = ds[place(k)]
    BY <1>5
  <2>2. place(j) = place(k)
    BY <1>7, <2>1 DEF GoodList
  <2> QED BY <1>1, <1>4, <2>2
<1>8. MaxDestinations \in Nat /\ Len(es) \in 1..MaxDestinations
  BY <1>1, <1>4 DEF GoodList, ProfilesConstants, Profiles!DefaultAssumption
<1>9. GoodList(es)
  BY <1>4, <1>6, <1>7, <1>8 DEF GoodList
<1> QED BY <1>4, <1>9 DEF es, s1, s2

\* A profile is found by its name.
LEMMA PositionOfName ==
    ASSUME NEW ds, GoodList(ds), NEW i \in 1..Len(ds)
    PROVE  Profiles!Position(ds, ds[i].name) = i
<1>1. \A j \in 1..Len(ds) : ds[j].name = ds[i].name => j = i
  BY DEF GoodList
<1>2. (CHOOSE j \in 1..Len(ds) : ds[j].name = ds[i].name) = i
  BY <1>1
<1> QED BY <1>2 DEF Profiles!Position

\* Whatever name is looked for, a profile is found.
LEMMA PositionIsOne ==
    ASSUME NEW ds, GoodList(ds), NEW name
    PROVE  Profiles!Position(ds, name) \in 1..Len(ds)
<1>1. Len(ds) \in Nat /\ 1 \in 1..Len(ds)
  BY DEF GoodList
<1>2. CASE \E i \in 1..Len(ds) : ds[i].name = name
  <2>1. (CHOOSE i \in 1..Len(ds) : ds[i].name = name) \in 1..Len(ds)
    BY <1>2
  <2> QED BY <1>2, <2>1 DEF Profiles!Position
<1>3. CASE ~\E i \in 1..Len(ds) : ds[i].name = name
  BY <1>1, <1>3 DEF Profiles!Position
<1> QED BY <1>2, <1>3

\* A config that the program makes is loaded as it is.
LEMMA LoadedIsSaved ==
    ASSUME ProfilesConstants, NEW ds, GoodList(ds), NEW i \in 1..Len(ds)
    PROVE  Profiles!EnsureDestinations(Profiles!ConfigOf(ds, i)) = Profiles!ConfigOf(ds, i)
<1> DEFINE c == Profiles!ConfigOf(ds, i)
           p == ds[i]
           q == [p EXCEPT !.relays = c.relays, !.room = c.room, !.proof = c.proof]
<1>1. /\ c.destinations = ds /\ c.selected = p.name /\ c.relays = p.relays /\ c.room = p.room
      /\ c.proxy = p.proxy /\ c.proof = p.proof
  BY DEF Profiles!ConfigOf
<1>2. Profiles!Overridden(c) = i
  BY <1>1, PositionOfName DEF Profiles!Overridden
<1>3. p \in Profiles!Profile
  BY GoodItem DEF GoodProfile
<1>4. q = p
  <2>1. q = [p EXCEPT !.relays = p.relays, !.room = p.room, !.proof = p.proof]
    <3> HIDE DEF c, p
    <3> QED BY <1>1
  <2>2. [p EXCEPT !.relays = p.relays, !.room = p.room, !.proof = p.proof] = p
    <3> HIDE DEF p
    <3> QED BY <1>3 DEF Profiles!Profile
  <2> QED BY <2>1, <2>2
<1>5. [ds EXCEPT ![i] = q] = ds
  <2>1. DOMAIN ds = 1..Len(ds) /\ ds \in Seq(Profiles!Profile)
    BY GoodItem DEF GoodList
  <2>2. [ds EXCEPT ![i] = p] = ds
    BY <2>1
  <2> QED BY <1>4, <2>2
<1>6. Profiles!EnsureDestinations(c) = [c EXCEPT !.destinations = ds, !.selected = p.name,
                                        !.proxy = p.proxy]
  <2>1. (IF p.proof = None THEN c.proof ELSE p.proof) = c.proof
    BY <1>1
  <2> HIDE DEF c, q
  <2>2. [p EXCEPT !.relays = c.relays, !.room = c.room,
                  !.proof = IF p.proof = None THEN c.proof ELSE p.proof] = q
    BY <2>1 DEF q
  <2> QED BY <1>1, <1>2, <1>4, <1>5, <2>2 DEF Profiles!EnsureDestinations
<1>7. [c EXCEPT !.destinations = ds, !.selected = p.name, !.proxy = p.proxy] = c
  <2> DEFINE d1 == [c EXCEPT !.destinations = ds]
             d2 == [d1 EXCEPT !.selected = p.name]
  <2>1. c = [f \in DOMAIN c |-> c[f]]
    BY DEF Profiles!ConfigOf
  <2>2. d1 = c
    BY <1>1, <2>1
  <2>3. d2 = c
    BY <1>1, <2>1, <2>2
  <2>4. [d2 EXCEPT !.proxy = p.proxy] = c
    BY <1>1, <2>1, <2>3
  <2> QED BY <2>4
<1> QED BY <1>6, <1>7

\* What is loaded is such a config, if what is stored is one or nothing is.
LEMMA LoadedIsGood ==
    ASSUME ProfilesConstants, NEW stored, stored = None \/ GoodConfig(stored)
    PROVE  GoodConfig(Profiles!Loaded(stored))
<1>1. CASE stored = None
  <2>1. GoodList(<<Default>>)
    <3>1. Default \in Profiles!Profile /\ Default.proof = None /\ MaxDestinations \in Nat
      BY DEF ProfilesConstants, Profiles!DefaultAssumption
    <3>2. MaxDestinations >= 1
      BY <3>1 DEF Profiles!Profile, Profiles!Name
    <3> QED BY <3>1, <3>2 DEF GoodList
  <2>2. 1 \in 1..Len(<<Default>>)
    OBVIOUS
  <2> QED BY <1>1, <2>1, <2>2 DEF Profiles!Loaded, GoodConfig
<1>2. CASE stored # None
  BY <1>2, LoadedIsSaved DEF Profiles!Loaded, GoodConfig
<1> QED BY <1>1, <1>2

\* So what was saved is what a restart loads.
LEMMA SavedSurvives ==
    ASSUME ProfilesConstants, ProfilesInv
    PROVE  Profiles!SettingsSurviveRestart
<1> SUFFICES ASSUME settings # None PROVE Profiles!SettingsSurviveRestart
  BY DEF Profiles!SettingsSurviveRestart
<1>1. PICK ds : GoodList(ds) /\ \E i \in 1..Len(ds) : settings = Profiles!ConfigOf(ds, i)
  BY DEF ProfilesInv, GoodConfig
<1>2. PICK i \in 1..Len(ds) : settings = Profiles!ConfigOf(ds, i)
  BY <1>1
<1>3. Profiles!Loaded(settings) = settings
  BY <1>1, <1>2, LoadedIsSaved DEF Profiles!Loaded
<1>4. settings.destinations = ds
  BY <1>2 DEF Profiles!ConfigOf
<1> QED BY <1>1, <1>3, <1>4 DEF Profiles!SettingsSurviveRestart, GoodList

\* The invariant gives the types.
LEMMA ProfilesTypes == ASSUME ProfilesInv PROVE Profiles!ProfilesTypeOK
BY DEF ProfilesInv, GoodList, Profiles!ProfilesTypeOK

\* The fields of a profile have their type.
LEMMA FieldsTypes ==
    ASSUME NEW p \in Profiles!Profile
    PROVE  Profiles!FieldsOf(p) \in Profiles!Fields
BY DEF Profiles!FieldsOf, Profiles!Fields, Profiles!Profile

\* A first start has the default profile only.
LEMMA ProfilesBegin == ProfilesConstants /\ Profiles!Init => ProfilesInv
<1> SUFFICES ASSUME ProfilesConstants, Profiles!Init PROVE ProfilesInv
  OBVIOUS
<1>1. cfg = Profiles!ConfigOf(<<Default>>, 1) /\ settings = None /\ selectedDestination = 1
      /\ fields = Profiles!FieldsOf(Default)
  BY DEF Profiles!Init, Profiles!Loaded
<1>2. destinations = <<Default>>
  BY <1>1 DEF Profiles!Init, Profiles!ConfigOf
<1>3. Default \in Profiles!Profile /\ Default.proof = None /\ MaxDestinations \in Nat
  BY DEF ProfilesConstants, Profiles!DefaultAssumption
<1>4. MaxDestinations >= 1
  BY <1>3 DEF Profiles!Profile, Profiles!Name
<1>5. GoodList(destinations)
  BY <1>2, <1>3, <1>4 DEF GoodList
<1>6. fields \in Profiles!Fields
  BY <1>1, <1>3, FieldsTypes
<1> QED BY <1>1, <1>2, <1>5, <1>6 DEF ProfilesInv

\* The fields on the screen, committed to the selected profile, leave a good list.
LEMMA CommittedIsGood ==
    ASSUME ProfilesInv
    PROVE  /\ GoodList(Profiles!Committed) /\ Len(Profiles!Committed) = Len(destinations)
           /\ \A i \in 1..Len(destinations) : GoodProfile(Profiles!Committed[i])
<1> DEFINE s == selectedDestination
           p == destinations[s]
           q == [p EXCEPT !.relays = fields.relays, !.room = fields.room, !.proxy = fields.proxy,
                          !.proof = Profiles!ProofAfter(p)]
<1>1. GoodList(destinations) /\ s \in 1..Len(destinations) /\ fields \in Profiles!Fields
  BY DEF ProfilesInv
<1>2. p \in Profiles!Profile /\ p.proof \in {None, p.room}
  BY <1>1, GoodItem DEF GoodProfile
<1>3. Profiles!ProofAfter(p) \in {None, fields.room}
      /\ Profiles!ProofAfter(p) \in Rooms \cup {None}
  BY <1>1, <1>2 DEF Profiles!ProofAfter, Profiles!Fields, Profiles!Profile
<1> HIDE DEF p
<1>4. q \in Profiles!Profile /\ q.proof = Profiles!ProofAfter(p) /\ q.room = fields.room
      /\ q.name = p.name
  BY <1>1, <1>2, <1>3 DEF Profiles!Fields, Profiles!Profile
<1>5. GoodProfile(q)
  BY <1>3, <1>4 DEF GoodProfile
<1>6. \A j \in (1..Len(destinations)) \ {s} : q.name # destinations[j].name
  BY <1>1, <1>4 DEF GoodList, p
<1>7. Profiles!Committed = [destinations EXCEPT ![s] = q]
  BY DEF Profiles!Committed, p
<1> HIDE DEF q, s
<1>8. GoodList(Profiles!Committed) /\ Len(Profiles!Committed) = Len(destinations)
  BY <1>1, <1>5, <1>6, <1>7, ExceptIsGood
<1>9. \A i \in 1..Len(destinations) : GoodProfile(Profiles!Committed[i])
  BY <1>8, GoodItem
<1> QED BY <1>8, <1>9

\* To save a good list keeps the invariant.
LEMMA PersistsKeeps ==
    ASSUME ProfilesInv, NEW ds, GoodList(ds), NEW i \in 1..Len(ds), NEW f \in Profiles!Fields,
           Profiles!Persists(ds, i, f)
    PROVE  ProfilesInv'
<1>1. destinations' = ds /\ selectedDestination' = i /\ fields' = f
      /\ settings' \in {Profiles!ConfigOf(ds, i), settings}
  BY DEF Profiles!Persists, Profiles!Saves
<1>2. settings' = None \/ GoodConfig(settings')
  BY <1>1 DEF ProfilesInv, GoodConfig
<1> QED BY <1>1, <1>2 DEF ProfilesInv

\* The edits of the selected profile, and its removal.
LEMMA EditsKeep ==
    ASSUME ProfilesConstants, ProfilesInv,
           \/ Profiles!Type \/ Profiles!FailsToCommit \/ Profiles!DeleteDestination
           \/ Profiles!SaveFromUI
           \/ \E i \in 1..MaxDestinations : Profiles!DestinationSelectionChanged(i)
    PROVE  ProfilesInv'
<1>1. GoodList(destinations) /\ selectedDestination \in 1..Len(destinations)
      /\ fields \in Profiles!Fields
  BY DEF ProfilesInv
<1>2. /\ GoodList(Profiles!Committed) /\ Len(Profiles!Committed) = Len(destinations)
      /\ \A i \in 1..Len(destinations) : GoodProfile(Profiles!Committed[i])
  BY CommittedIsGood
<1>3. Len(destinations) \in Nat
  BY <1>1 DEF GoodList
<1>4. CASE Profiles!Type
  <2>1. fields' \in Profiles!Fields
    <3>1. ASSUME NEW r \in Relays PROVE [fields EXCEPT !.relays = r] \in Profiles!Fields
      BY <1>1 DEF Profiles!Fields
    <3>2. ASSUME NEW r \in Rooms \cup {None} PROVE [fields EXCEPT !.room = r] \in Profiles!Fields
      BY <1>1 DEF Profiles!Fields
    <3>3. ASSUME NEW r \in Proxies PROVE [fields EXCEPT !.proxy = r] \in Profiles!Fields
      BY <1>1 DEF Profiles!Fields
    <3>4. /\ [fields EXCEPT !.password = ~fields.password] \in Profiles!Fields
          /\ [fields EXCEPT !.clear = ~fields.clear] \in Profiles!Fields
      BY <1>1 DEF Profiles!Fields
    <3> QED BY <1>4, <3>1, <3>2, <3>3, <3>4 DEF Profiles!Type
  <2> QED BY <1>4, <2>1 DEF Profiles!Type, ProfilesInv
<1>5. CASE Profiles!FailsToCommit
  BY <1>1, <1>2, <1>5 DEF Profiles!FailsToCommit, ProfilesInv
<1>6. ASSUME NEW i \in 1..MaxDestinations, Profiles!DestinationSelectionChanged(i)
      PROVE ProfilesInv'
  <2>1. i \in 1..Len(Profiles!Committed)
        /\ Profiles!Persists(Profiles!Committed, i, Profiles!FieldsOf(Profiles!Committed[i]))
    BY <1>2, <1>6 DEF Profiles!DestinationSelectionChanged
  <2>2. Profiles!FieldsOf(Profiles!Committed[i]) \in Profiles!Fields
    BY <1>2, <2>1, FieldsTypes DEF GoodProfile
  <2> QED BY <1>2, <2>1, <2>2, PersistsKeeps
<1>7. CASE Profiles!DeleteDestination
  <2> DEFINE i == selectedDestination
             ds ==
                 SubSeq(destinations, 1, i - 1) \o SubSeq(destinations, i + 1, Len(destinations))
             onward == IF i > Len(ds) THEN Len(ds) ELSE i
  <2>1. Len(destinations) > 1 /\ Profiles!Persists(ds, onward, Profiles!FieldsOf(ds[onward]))
    BY <1>7 DEF Profiles!DeleteDestination
  <2>2. GoodList(ds) /\ Len(ds) = Len(destinations) - 1
    BY <1>1, <2>1, DeleteIsGood
  <2> HIDE DEF ds
  <2>3. onward \in 1..Len(ds)
    BY <1>1, <1>3, <2>1, <2>2
  <2>4. Profiles!FieldsOf(ds[onward]) \in Profiles!Fields
    BY <2>2, <2>3, GoodItem, FieldsTypes DEF GoodProfile
  <2> HIDE DEF onward
  <2> QED BY <2>1, <2>2, <2>3, <2>4, PersistsKeeps
<1>8. CASE Profiles!SaveFromUI
  <2> DEFINE i == selectedDestination
             c == Profiles!Committed[i]
             p == [c EXCEPT !.proof = Profiles!ProofSaved(c)]
             ds == [Profiles!Committed EXCEPT ![i] = p]
  <2>1. Profiles!Commits /\ Profiles!Persists(ds, i, Profiles!FieldsOf(p))
    BY <1>8 DEF Profiles!SaveFromUI
  <2>2. c \in Profiles!Profile /\ c.proof \in {None, c.room} /\ c.room = fields.room
    <3>1. c \in Profiles!Profile /\ c.proof \in {None, c.room}
      BY <1>1, <1>2 DEF GoodProfile
    <3>2. c.room = fields.room
      <4>1. destinations[i] \in Profiles!Profile /\ DOMAIN destinations = 1..Len(destinations)
        BY <1>1, GoodItem DEF GoodProfile
      <4>2. c = [destinations[i] EXCEPT !.relays = fields.relays, !.room = fields.room,
                 !.proxy = fields.proxy,
                                        !.proof = Profiles!ProofAfter(destinations[i])]
        BY <1>1, <4>1 DEF Profiles!Committed
      <4> HIDE DEF c, i
      <4> QED BY <4>1, <4>2 DEF Profiles!Profile
    <3> QED BY <3>1, <3>2
  <2> HIDE DEF c
  <2>3. Profiles!ProofSaved(c) \in {None, c.room} /\ Profiles!ProofSaved(c) \in Rooms \cup {None}
    BY <1>1, <2>2 DEF Profiles!ProofSaved, Profiles!Profile, Profiles!Fields
  <2>4. GoodProfile(p) /\ p.name = c.name
    BY <2>2, <2>3 DEF GoodProfile, Profiles!Profile
  <2> HIDE DEF p
  <2>5. \A j \in (1..Len(Profiles!Committed)) \ {i} : p.name # Profiles!Committed[j].name
    BY <1>1, <1>2, <2>4 DEF GoodList, c
  <2>6. GoodList(ds) /\ Len(ds) = Len(Profiles!Committed)
    BY <1>1, <1>2, <2>4, <2>5, ExceptIsGood
  <2>7. Profiles!FieldsOf(p) \in Profiles!Fields /\ i \in 1..Len(ds)
    BY <1>1, <1>2, <2>4, <2>6, FieldsTypes DEF GoodProfile
  <2> HIDE DEF ds, i
  <2> QED BY <2>1, <2>6, <2>7, PersistsKeeps
<1> QED BY <1>4, <1>5, <1>6, <1>7, <1>8

\* A new profile and a new name.
LEMMA NamesKeep ==
    ASSUME ProfilesConstants, ProfilesInv, NEW typed \in Typed,
           Profiles!AddDestination(typed) \/ Profiles!RenameDestination(typed)
    PROVE  ProfilesInv'
<1>1. GoodList(destinations) /\ selectedDestination \in 1..Len(destinations)
      /\ fields \in Profiles!Fields
  BY DEF ProfilesInv
<1>2. GoodList(Profiles!Committed) /\ Len(Profiles!Committed) = Len(destinations)
  BY CommittedIsGood
<1>3. Len(destinations) \in Nat
  BY <1>1 DEF GoodList
<1>4. CASE Profiles!AddDestination(typed)
  <2> DEFINE name == Profiles!UniqueName(Profiles!Committed, typed, 0)
             p == [Default EXCEPT !.name = name]
             ds == Append(Profiles!Committed, p)
  <2>1. Len(destinations) < MaxDestinations
        /\ Profiles!Persists(ds, Len(ds), Profiles!FieldsOf(Default))
    BY <1>4 DEF Profiles!AddDestination
  <2>2. name \in Profiles!Name
        /\ \A j \in 1..Len(Profiles!Committed) : name # Profiles!Committed[j].name
    <3>1. 0 \in 0..Len(Profiles!Committed)
          /\ (1..Len(Profiles!Committed)) \ {0} = 1..Len(Profiles!Committed)
      BY <1>2, <1>3
    <3> QED BY <1>2, <2>1, <3>1, NameIsUnique
  <2> HIDE DEF name
  <2>3. GoodProfile(p) /\ p.name = name /\ Profiles!FieldsOf(Default) \in Profiles!Fields
    BY <2>2, FieldsTypes DEF ProfilesConstants, Profiles!DefaultAssumption, GoodProfile,
                             Profiles!Profile
  <2> HIDE DEF p
  <2>4. GoodList(ds) /\ Len(ds) = Len(Profiles!Committed) + 1
    BY <1>2, <2>1, <2>2, <2>3, AppendIsGood
  <2>5. Len(ds) \in 1..Len(ds)
    BY <1>2, <1>3, <2>4
  <2> HIDE DEF ds
  <2> QED BY <2>1, <2>3, <2>4, <2>5, PersistsKeeps
<1>5. CASE Profiles!RenameDestination(typed)
  <2> DEFINE i == selectedDestination
             name == Profiles!UniqueName(destinations, typed, i)
             p == [destinations[i] EXCEPT !.name = name]
             f == [Profiles!FieldsOf(p) EXCEPT !.relays = fields.relays]
             q == [p EXCEPT !.relays = fields.relays]
             ds == [destinations EXCEPT ![i] = q]
  <2>1. \/ Profiles!Persists(ds, i, f)
        \/ destinations' = ds /\ fields' = f /\ UNCHANGED <<selectedDestination, cfg, settings>>
    BY <1>5 DEF Profiles!RenameDestination
  <2>2. name \in Profiles!Name
        /\ \A j \in (1..Len(destinations)) \ {i} : name # destinations[j].name
    <3>1. i \in 0..Len(destinations) /\ i # 0
      BY <1>1, <1>3
    <3> QED BY <1>1, <3>1, NameIsUnique
  <2>3. destinations[i] \in Profiles!Profile
        /\ destinations[i].proof \in {None, destinations[i].room}
    BY <1>1, GoodItem DEF GoodProfile
  <2> HIDE DEF name
  <2>4. p \in Profiles!Profile /\ p.proof \in {None, p.room} /\ p.name = name
    BY <2>2, <2>3 DEF Profiles!Profile
  <2> HIDE DEF p
  <2>5. GoodProfile(q) /\ q.name = name /\ f \in Profiles!Fields
    <3>1. q \in Profiles!Profile /\ q.proof \in {None, q.room} /\ q.name = name
      BY <1>1, <2>4 DEF Profiles!Profile, Profiles!Fields
    <3>2. Profiles!FieldsOf(p) \in Profiles!Fields
      BY <2>4, FieldsTypes
    <3>3. f \in Profiles!Fields
      BY <1>1, <3>2 DEF Profiles!Fields
    <3> QED BY <3>1, <3>3 DEF GoodProfile
  <2> HIDE DEF q, f
  <2>6. GoodList(ds) /\ Len(ds) = Len(destinations)
    BY <1>1, <2>2, <2>5, ExceptIsGood
  <2>7. i \in 1..Len(ds)
    BY <1>1, <2>6
  <2> HIDE DEF ds
  <2>8. CASE Profiles!Persists(ds, i, f)
    BY <2>5, <2>6, <2>7, <2>8, PersistsKeeps
  <2>9. CASE destinations' = ds /\ fields' = f /\ UNCHANGED <<selectedDestination, cfg, settings>>
    BY <2>5, <2>6, <2>7, <2>9 DEF ProfilesInv
  <2> QED BY <2>1, <2>8, <2>9
<1> QED BY <1>4, <1>5

\* What an import of a Work profile makes is a good list.
LEMMA ImportedIsGood ==
    ASSUME ProfilesConstants, NEW c, GoodConfig(c)
    PROVE  GoodConfig(Profiles!Imported(c))
<1>1. PICK ds : GoodList(ds) /\ \E i \in 1..Len(ds) : c = Profiles!ConfigOf(ds, i)
  BY DEF GoodConfig
<1>2. PICK i \in 1..Len(ds) : c = Profiles!ConfigOf(ds, i)
  BY <1>1
<1>3. CASE ~Profiles!Imports(c)
  BY <1>3 DEF Profiles!Imported
<1>4. CASE Profiles!Imports(c)
  <2> DEFINE name == Profiles!UniqueName(ds, WorkProfile.name[1], 0)
             p == [WorkProfile EXCEPT !.name = name]
             es == Append(ds, p)
  <2>1. c.destinations = ds /\ Len(ds) \in Nat
    BY <1>1, <1>2 DEF Profiles!ConfigOf, GoodList
  <2>2. Len(ds) < MaxDestinations /\ WorkProfile # None
    BY <1>4, <2>1 DEF Profiles!Imports
  <2>3. WorkProfile \in Profiles!Profile /\ WorkProfile.proof \in {None, WorkProfile.room}
    BY <2>2 DEF ProfilesConstants, Profiles!WorkProfileAssumption
  <2>4. WorkProfile.name[1] \in Typed
    BY <2>3 DEF Profiles!Profile, Profiles!Name
  <2>5. name \in Profiles!Name /\ \A j \in 1..Len(ds) : name # ds[j].name
    <3>1. 0 \in 0..Len(ds) /\ (1..Len(ds)) \ {0} = 1..Len(ds)
      BY <2>1
    <3> QED BY <1>1, <2>2, <2>4, <3>1, NameIsUnique
  <2>6. Profiles!Imported(c) = [c EXCEPT !.destinations = es]
    BY <1>4, <2>1 DEF Profiles!Imported
  <2> HIDE DEF name
  <2>7. GoodProfile(p) /\ p.name = name
    BY <2>3, <2>5 DEF GoodProfile, Profiles!Profile
  <2> HIDE DEF p
  <2>8. GoodList(es) /\ Len(es) = Len(ds) + 1 /\ es[i] = ds[i]
    BY <1>1, <2>2, <2>5, <2>7, AppendIsGood
  <2>9. i \in 1..Len(es)
    BY <2>1, <2>8
  <2> HIDE DEF es
  <2>10. [c EXCEPT !.destinations = es] = Profiles!ConfigOf(es, i)
    BY <1>2, <2>8 DEF Profiles!ConfigOf
  <2> QED BY <2>6, <2>8, <2>9, <2>10 DEF GoodConfig
<1> QED BY <1>3, <1>4

\* A restart, and the import of a Work profile.
LEMMA MainKeeps ==
    ASSUME ProfilesConstants, ProfilesInv, NEW i \in 0..MaxDestinations, Profiles!Main(i)
    PROVE  ProfilesInv'
<1> DEFINE c == Profiles!Imported(Profiles!Loaded(settings))
           ds == c.destinations
<1>1. GoodConfig(c)
  BY LoadedIsGood, ImportedIsGood DEF ProfilesInv
<1>2. GoodList(ds)
  BY <1>1 DEF GoodConfig, Profiles!ConfigOf
<1>3. /\ cfg' = IF i = 0 THEN c ELSE Profiles!Chosen(c, i)
      /\ Profiles!Shows(cfg') /\ settings' \in {c, settings}
  BY DEF Profiles!Main
<1> HIDE DEF c
<1>4. cfg'.destinations = ds
  <2>1. CASE i = 0
    BY <1>3, <2>1
  <2>2. CASE i # 0
    <3>1. cfg' = Profiles!Chosen(c, i)
      BY <1>3, <2>2
    <3>2. Profiles!Chosen(c, i).destinations = c.destinations
      <4>1. PICK es, j : c = Profiles!ConfigOf(es, j)
        BY <1>1 DEF GoodConfig
      <4>2. "destinations" \in DOMAIN c
        BY <4>1 DEF Profiles!ConfigOf
      <4> QED BY <4>2 DEF Profiles!Chosen
    <3> QED BY <3>1, <3>2
  <2> QED BY <2>1, <2>2
<1> HIDE DEF ds
<1>5. Profiles!Position(ds, cfg'.selected) \in 1..Len(ds)
  BY <1>2, PositionIsOne
<1>6. /\ destinations' = ds /\ selectedDestination' \in 1..Len(ds)
      /\ fields' = Profiles!FieldsOf(ds[selectedDestination'])
  BY <1>3, <1>4, <1>5 DEF Profiles!Shows
<1>7. fields' \in Profiles!Fields
  BY <1>2, <1>6, GoodItem, FieldsTypes DEF GoodProfile
<1>8. settings' = None \/ GoodConfig(settings')
  BY <1>1, <1>3 DEF ProfilesInv
<1> QED BY <1>2, <1>6, <1>7, <1>8 DEF ProfilesInv

\* The invariant is inductive,
LEMMA ProfilesInvNext == ProfilesConstants /\ ProfilesInv /\ Profiles!Next => ProfilesInv'
BY EditsKeep, NamesKeep, MainKeeps DEF Profiles!Next

\* and depends on the variables of the part only.
LEMMA ProfilesInvSame == ProfilesInv /\ UNCHANGED Profiles!vars => ProfilesInv'
BY DEF ProfilesInv, Profiles!vars

-----------------------------------------------------------------------------
(* DiagnosticLog.                                                          *)

\* The day's files o and f, the older first, hold the latest lines of those that t holds.
Latest(o, f, t) ==
    /\ Len(f) + Len(o) <= Len(t)
    /\ \A i \in 1..Len(f) : f[i] = t[Len(t) - Len(f) + i]
    /\ \A i \in 1..Len(o) : o[i] = t[Len(t) - Len(f) - Len(o) + i]
Lines == Seq(Nat)

\* A line that is written is the latest.
LEMMA LatestWritten ==
    ASSUME NEW o \in Lines, NEW f \in Lines, NEW t \in Lines, Latest(o, f, t), NEW x \in Nat
    PROVE  Latest(o, Append(f, x), Append(t, x))
<1> DEFINE f1 == Append(f, x)
           t1 == Append(t, x)
<1>1. /\ Len(f1) = Len(f) + 1 /\ Len(t1) = Len(t) + 1
      /\ Len(f) \in Nat /\ Len(o) \in Nat /\ Len(t) \in Nat /\ Len(f) + Len(o) <= Len(t)
  BY DEF Lines, Latest
<1>2. /\ \A i \in 1..Len(f) : f1[i] = f[i]
      /\ \A i \in 1..Len(t) : t1[i] = t[i]
      /\ f1[Len(f) + 1] = x /\ t1[Len(t) + 1] = x
  BY DEF Lines
<1> HIDE DEF f1, t1
<1>3. ASSUME NEW i \in 1..Len(f1) PROVE f1[i] = t1[Len(t1) - Len(f1) + i]
  <2>1. CASE i <= Len(f)
    BY <1>1, <1>2, <2>1 DEF Latest
  <2>2. CASE i = Len(f) + 1
    BY <1>1, <1>2, <2>2
  <2> QED BY <1>1, <2>1, <2>2
<1>4. ASSUME NEW i \in 1..Len(o) PROVE o[i] = t1[Len(t1) - Len(f1) - Len(o) + i]
  <2>1. o[i] = t[Len(t) - Len(f) - Len(o) + i]
    BY DEF Latest
  <2>2. Len(t) - Len(f) - Len(o) + i \in 1..Len(t)
        /\ Len(t1) - Len(f1) - Len(o) + i = Len(t) - Len(f) - Len(o) + i
    BY <1>1
  <2> QED BY <1>2, <2>1, <2>2
<1>5. Latest(o, f1, t1)
  BY <1>1, <1>3, <1>4 DEF Latest
<1> QED BY <1>5 DEF f1, t1

\* A rotation drops the older file.
LEMMA LatestRotated ==
    ASSUME NEW o \in Lines, NEW f \in Lines, NEW t \in Lines, Latest(o, f, t), NEW x \in Nat
    PROVE  Latest(f, <<x>>, Append(t, x))
<1> DEFINE u == Append(t, x)
           n == Len(t)
           m == Len(f)
<1>1. /\ n \in Nat /\ m \in Nat /\ Len(u) = n + 1 /\ u[n + 1] = x
      /\ \A i \in 1..n : u[i] = t[i]
  BY DEF Lines
<1>2. m <= n /\ \A i \in 1..m : f[i] = t[n - m + i]
  BY DEF Latest, Lines
<1>3. Len(<<x>>) = 1 /\ <<x>>[1] = x
  OBVIOUS
<1> HIDE DEF u
<1>4. ASSUME NEW i \in 1..m PROVE f[i] = u[Len(u) - 1 - m + i]
  <2>1. n - m + i \in 1..n /\ Len(u) - 1 - m + i = n - m + i
    BY <1>1, <1>2
  <2> QED BY <1>1, <1>2, <2>1
<1>5. 1 + m <= Len(u) /\ \A i \in 1..1 : <<x>>[i] = u[Len(u) - 1 + i]
  BY <1>1, <1>2, <1>3
<1>6. Latest(f, <<x>>, u)
  BY <1>3, <1>4, <1>5 DEF Latest
<1> QED BY <1>6 DEF u

\* The older file can be lost, and the newer one can become the older.
LEMMA LatestLosesOld ==
    ASSUME NEW o \in Lines, NEW f \in Lines, NEW t \in Lines, Latest(o, f, t)
    PROVE  Latest(<<>>, f, t) /\ Latest(f, <<>>, t)
BY DEF Latest, Lines

\* A day begins with no file, or with one line.
LEMMA LatestOfNew == ASSUME NEW x \in Nat
    PROVE Latest(<<>>, <<>>, <<>>) /\ Latest(<<>>, <<x>>, <<x>>)
BY DEF Latest

\* The files that hold the latest lines hold a suffix of them.
LEMMA LatestIsSuffix ==
    ASSUME NEW o \in Lines, NEW f \in Lines, NEW t \in Lines, Latest(o, f, t)
    PROVE  Logging!IsSuffix(o \o f, t)
<1> DEFINE k == o \o f
<1>1. /\ k \in Seq(Nat) /\ Len(k) = Len(o) + Len(f) /\ Len(k) <= Len(t)
      /\ Len(o) \in Nat /\ Len(f) \in Nat /\ Len(t) \in Nat
  BY DEF Lines, Latest
<1>2. \A i \in 1..Len(k) : k[Len(k) - i + 1] = t[Len(t) - i + 1]
  <2> SUFFICES ASSUME NEW i \in 1..Len(k) PROVE k[Len(k) - i + 1] = t[Len(t) - i + 1]
    OBVIOUS
  <2>1. CASE i <= Len(f)
    <3>1. Len(f) - i + 1 \in 1..Len(f) /\ Len(k) - i + 1 = Len(o) + (Len(f) - i + 1)
      BY <1>1, <2>1
    <3>2. k[Len(k) - i + 1] = f[Len(f) - i + 1]
      BY <1>1, <3>1 DEF Lines
    <3>3. f[Len(f) - i + 1] = t[Len(t) - Len(f) + (Len(f) - i + 1)]
      BY <3>1 DEF Latest
    <3> QED BY <1>1, <3>2, <3>3
  <2>2. CASE i > Len(f)
    <3>1. Len(k) - i + 1 \in 1..Len(o)
      BY <1>1, <2>2
    <3>2. k[Len(k) - i + 1] = o[Len(k) - i + 1]
      BY <1>1, <3>1 DEF Lines
    <3>3. o[Len(k) - i + 1] = t[Len(t) - Len(f) - Len(o) + (Len(k) - i + 1)]
      BY <3>1 DEF Latest
    <3> QED BY <1>1, <3>2, <3>3
  <2> QED BY <1>1, <2>1, <2>2
<1>3. SubSeq(Logging!Reverse(k), 1, Len(Logging!Reverse(k))) = SubSeq(Logging!Reverse(t), 1,
          Len(Logging!Reverse(k)))
  <2> HIDE DEF k
  <2>1. Logging!Reverse(k) \in Seq(Nat) /\ Len(Logging!Reverse(k)) = Len(k)
        /\ Logging!Reverse(t) \in Seq(Nat) /\ Len(Logging!Reverse(t)) = Len(t)
    <3>1. ASSUME NEW s \in Seq(Nat) PROVE Logging!Reverse(s) \in Seq(Nat)
                 /\ Len(Logging!Reverse(s)) = Len(s)
      <4>1. \A i \in 1..Len(s) : s[Len(s) - i + 1] \in Nat
        OBVIOUS
      <4> QED BY <4>1 DEF Logging!Reverse
    <3> QED BY <1>1, <3>1 DEF Lines
  <2>2. \A i \in 1..Len(k) : Logging!Reverse(k)[i] = Logging!Reverse(t)[i]
    BY <1>1, <1>2 DEF Logging!Reverse
  <2> QED BY <1>1, <2>1, <2>2
<1>4. Len(Logging!Reverse(k)) = Len(k) /\ Len(Logging!Reverse(t)) = Len(t)
  BY <1>1 DEF Logging!Reverse
<1> QED BY <1>1, <1>3, <1>4 DEF Logging!IsSuffix, Logging!IsPrefix

LogConstants == Logging!LogPlansAssumption /\ Logging!LogLimitsAssumption
\* The days to come have no files yet.
Untouched(d) == file[d] = <<>> /\ old[d] = <<>> /\ taken[d] = <<>>
\* The types.
LogState ==
    /\ logPlan \in Logging!LogPlanType /\ lines \in Nat /\ today \in Logging!Day
    /\ date \in 0..today
    /\ opened \in BOOLEAN /\ size \in 0..MaxSize
    /\ file \in [Logging!Day -> Lines] /\ old \in [Logging!Day -> Lines]
    /\ taken \in [Logging!Day -> Lines]
\* The files of the log's date hold the latest lines of that day.
LogFiles ==
    /\ \A d \in Logging!Day : d > date => Untouched(d)
    /\ opened => size = Len(file[date])
    /\ Latest(old[date], file[date], taken[date])
    /\ taken[date] # <<>> => file[date] # <<>> \/ old[date] # <<>>
\* A batch under way lies in what was logged, whatever the backlog has lost since.
LogUploads ==
    /\ next \in Nat \ {0} /\ low \in 1..next /\ next - low <= MaxQueued /\ token \in BOOLEAN
    /\ upload \in [Target -> Logging!UploadStates]
    /\ acked \in [Target -> 1..next] /\ from \in [Target -> 0..next]
    /\ count \in [Target -> 0..MaxBatch]
    /\ \A t \in Target : /\ from[t] + count[t] <= next
                         /\ upload[t] \in {"sent", "printed"} => from[t] >= 1
LogInv == LogState /\ LogFiles /\ LogUploads

\* There are no files at first.
LEMMA LogBegins == LogConstants /\ Logging!Init => LogInv
<1> SUFFICES ASSUME LogConstants, Logging!Init PROVE LogInv
  OBVIOUS
<1> USE DEF LogConstants, Logging!LogPlansAssumption, Logging!LogLimitsAssumption, Logging!Init
<1>1. LogState
  BY DEF LogState, Lines, Logging!Day
<1>2. LogFiles
  <2>1. \A d \in Logging!Day : file[d] = <<>> /\ old[d] = <<>> /\ taken[d] = <<>>
    OBVIOUS
  <2>2. date \in Logging!Day /\ size = 0
    BY DEF Logging!Day
  <2>3. Latest(<<>>, <<>>, <<>>)
    BY LatestOfNew, 1 \in Nat
  <2> QED BY <2>1, <2>2, <2>3 DEF LogFiles, Untouched
<1>3. LogUploads
  <2>1. upload \in [Target -> Logging!UploadStates] /\ token \in BOOLEAN
    BY DEF Logging!UploadStates
  <2>2. /\ acked \in [Target -> 1..next] /\ from \in [Target -> 0..next]
        /\ count \in [Target -> 0..MaxBatch]
        /\ next \in Nat \ {0} /\ low \in 1..next /\ next - low <= MaxQueued
    OBVIOUS
  <2>3. \A t \in Target : from[t] = 0 /\ count[t] = 0 /\ upload[t] = "apart"
    OBVIOUS
  <2> QED BY <2>1, <2>2, <2>3 DEF LogUploads
<1> QED BY <1>1, <1>2, <1>3 DEF LogInv

\* The invariant says that the files keep the latest.
LEMMA LogInvMeans == LogConstants /\ LogInv => Logging!LogTypeOK /\ Logging!FilesKeepTheLatest
<1> SUFFICES ASSUME LogConstants, LogInv PROVE Logging!LogTypeOK /\ Logging!FilesKeepTheLatest
  OBVIOUS
<1> USE DEF LogConstants, Logging!LogLimitsAssumption, LogInv
<1>1. date \in Logging!Day
  BY DEF LogState, Logging!Day
<1>2. \A t \in Target : acked[t] \in 1..next /\ count[t] \in 0..MaxBatch /\ from[t] <= next
  BY DEF LogUploads
<1>3. Logging!LogTypeOK
  BY <1>1, <1>2 DEF LogState, LogUploads, Logging!LogTypeOK
<1>4. old[date] \in Lines /\ file[date] \in Lines /\ taken[date] \in Lines
  BY <1>1 DEF LogState
<1>5. Logging!IsSuffix(Logging!Kept, taken[date])
  BY <1>4, LatestIsSuffix DEF LogFiles, Logging!Kept
<1>6. taken[date] # <<>> => Logging!Kept # <<>>
  BY <1>4 DEF LogFiles, Logging!Kept, Lines
<1> QED BY <1>3, <1>5, <1>6 DEF Logging!FilesKeepTheLatest

\* What writing a line does to the files, whichever of its steps fail.
LEMMA LogFilesNext ==
    ASSUME LogConstants, LogState, LogFiles, lines' = lines + 1, UNCHANGED <<logPlan, today>>,
           \/ Logging!WriteHere \/ Logging!WriteNextDay \/ Logging!WriteRotated
           \/ Logging!FailWrite \/ Logging!FailNextDay \/ Logging!FailRotation
           \/ Logging!FailReopen \/ Logging!FailClosed
    PROVE  LogState' /\ LogFiles'
<1> USE DEF LogConstants, Logging!LogLimitsAssumption, LogState
<1>0. /\ today \in Logging!Day /\ date \in Logging!Day /\ lines + 1 \in Nat
      /\ <<lines + 1>> \in Lines /\ <<>> \in Lines
      /\ MaxSize \in Nat \ {0} /\ RetentionDays \in Nat \ {0} /\ today \in Nat /\ date \in Nat
      /\ file[date] \in Lines /\ old[date] \in Lines /\ taken[date] \in Lines
  <2>1. today \in Nat /\ date \in Logging!Day /\ date \in Nat /\ lines + 1 \in Nat
    BY DEF Logging!Day
  <2>2. <<lines + 1>> \in Lines /\ <<>> \in Lines
    BY <2>1 DEF Lines
  <2> QED BY <2>1, <2>2
<1>1. CASE Logging!WriteHere
  <2>1. /\ file' = [file EXCEPT ![date] = Append(file[date], lines + 1)]
        /\ taken' = [taken EXCEPT ![date] = Append(taken[date], lines + 1)]
        /\ opened /\ opened' /\ date' = date /\ date = today /\ old' = old /\ size' = size + 1
    BY <1>1 DEF Logging!WriteHere, Logging!Appended
  <2>2. Append(file[date], lines + 1) \in Lines /\ Append(taken[date], lines + 1) \in Lines
        /\ Len(Append(file[date], lines + 1)) = Len(file[date]) + 1
        /\ Append(file[date], lines + 1) # <<>>
    <3>1. ASSUME NEW q \in Lines PROVE /\ Append(q, lines + 1) \in Lines
                 /\ Append(q, lines + 1) # <<>>
                                      /\ Len(Append(q, lines + 1)) = Len(q) + 1
      <4>1. q \in Seq(Nat) /\ lines + 1 \in Nat
        BY <1>0 DEF Lines
      <4>2. Append(q, lines + 1) \in Seq(Nat) /\ Len(Append(q, lines + 1)) = Len(q) + 1
        BY <4>1
      <4>3. Append(q, lines + 1)[Len(q) + 1] = lines + 1 /\ Len(q) + 1 # 0
        BY <4>1
      <4> QED BY <4>2, <4>3 DEF Lines
    <3> QED BY <1>0, <3>1
  <2>3. size' \in 0..MaxSize
    BY <1>0, <1>1, <2>1 DEF Logging!WriteHere, Logging!Full
  <2>4. LogState'
    BY <1>0, <1>1, <2>1, <2>2, <2>3 DEF Logging!WriteHere
  <2>5. Latest(old[date], Append(file[date], lines + 1), Append(taken[date], lines + 1))
    BY <1>0, LatestWritten DEF LogFiles
  <2>6. file'[date] = Append(file[date], lines + 1)
        /\ taken'[date] = Append(taken[date], lines + 1)
    BY <1>0, <2>1
  <2>7. ASSUME NEW d \in Logging!Day, d > date PROVE Untouched(d)'
    BY <1>0, <2>1, <2>7 DEF LogFiles, Untouched
  <2>8. opened' => size' = Len(file'[date'])
    BY <2>1, <2>2, <2>6 DEF LogFiles
  <2> QED BY <2>1, <2>2, <2>4, <2>5, <2>6, <2>7, <2>8 DEF LogFiles
<1>2. CASE Logging!WriteNextDay
  <2>1. /\ \A d \in Logging!Day : Logging!Pruned(file)[d] \in {file[d], <<>>}
               /\ Logging!Pruned(old)[d] \in {old[d], <<>>}
        /\ DOMAIN Logging!Pruned(file) = Logging!Day /\ DOMAIN Logging!Pruned(old) = Logging!Day
    BY DEF Logging!Pruned
  <2>2. Logging!Pruned(file) \in [Logging!Day -> Lines]
        /\ Logging!Pruned(old) \in [Logging!Day -> Lines]
    BY <1>0, <2>1 DEF Logging!Pruned
  <2>3. today > date
    BY <1>0, <1>2 DEF Logging!WriteNextDay
  <2>4. /\ date' = today /\ opened' /\ size' = 1 /\ old' = Logging!Pruned(old)
        /\ file' = [Logging!Pruned(file) EXCEPT ![today] = <<lines + 1>>]
        /\ taken' = [taken EXCEPT ![today] = <<lines + 1>>]
    BY <1>2 DEF Logging!WriteNextDay
  <2>5. LogState'
    BY <1>0, <2>2, <2>4
  <2>6. /\ file'[today] = <<lines + 1>> /\ taken'[today] = <<lines + 1>> /\ old'[today] = <<>>
    BY <1>0, <2>1, <2>2, <2>3, <2>4 DEF LogFiles, Untouched
  <2>7. ASSUME NEW d \in Logging!Day, d > today PROVE Untouched(d)'
    <3>1. Untouched(d) /\ d # today
      BY <1>0, <2>3, <2>7 DEF LogFiles, Logging!Day
    <3>2. file'[d] = Logging!Pruned(file)[d] /\ taken'[d] = taken[d]
          /\ old'[d] = Logging!Pruned(old)[d]
      BY <2>2, <2>4, <3>1
    <3> QED BY <2>1, <3>1, <3>2 DEF Untouched
  <2>8. Latest(<<>>, <<lines + 1>>, <<lines + 1>>)
    BY <1>0, LatestOfNew
  <2> QED BY <2>4, <2>5, <2>6, <2>7, <2>8 DEF LogFiles
<1>3. CASE Logging!WriteRotated
  <2>1. /\ date = today /\ date' = date /\ opened /\ opened' /\ size' = 1
        /\ old' = [old EXCEPT ![date] = file[date]]
        /\ file' = [file EXCEPT ![date] = <<lines + 1>>]
        /\ taken' = [taken EXCEPT ![date] = Append(taken[date], lines + 1)]
    BY <1>3 DEF Logging!WriteRotated
  <2>2. Append(taken[date], lines + 1) \in Lines
    BY <1>0 DEF Lines
  <2>3. LogState'
    BY <1>0, <2>1, <2>2
  <2>4. /\ file'[date] = <<lines + 1>> /\ taken'[date] = Append(taken[date], lines + 1)
        /\ old'[date] = file[date]
    BY <1>0, <2>1
  <2>5. Latest(file[date], <<lines + 1>>, Append(taken[date], lines + 1))
    BY <1>0, LatestRotated DEF LogFiles
  <2>6. ASSUME NEW d \in Logging!Day, d > date PROVE Untouched(d)'
    BY <1>0, <2>1, <2>6 DEF LogFiles, Untouched
  <2> QED BY <2>1, <2>3, <2>4, <2>5, <2>6 DEF LogFiles
<1>4. CASE Logging!FailNextDay
  <2>1. today > date /\ date' = today /\ opened' = FALSE /\ UNCHANGED <<size, file, old, taken>>
    BY <1>0, <1>4 DEF Logging!FailNextDay
  <2>2. Untouched(today) /\ \A d \in Logging!Day : d > today => Untouched(d)
    <3>1. ASSUME NEW d \in Logging!Day, d >= today PROVE Untouched(d)
      <4>1. d > date
        BY <1>0, <2>1, <3>1 DEF Logging!Day
      <4> QED BY <4>1 DEF LogFiles
    <3>2. today >= today
      BY <1>0
    <3>3. ASSUME NEW d \in Logging!Day, d > today PROVE Untouched(d)
      BY <1>0, <3>1, <3>3 DEF Logging!Day
    <3> QED BY <1>0, <3>1, <3>2, <3>3
  <2>3. LogState'
    <3>1. opened' \in BOOLEAN
      BY <2>1
    <3>2. date' \in 0..today'
      BY <1>0, <2>1
    <3> QED BY <2>1, <3>1, <3>2
  <2>4. Latest(old[today], file[today], taken[today])
    BY <2>2, LatestOfNew, 1 \in Nat DEF Untouched
  <2> QED BY <2>1, <2>2, <2>3, <2>4 DEF LogFiles, Untouched
<1>5. CASE Logging!FailRotation \/ Logging!FailReopen
  <2>1. /\ date = today /\ date' = date /\ opened /\ size > 0 /\ taken' = taken
        /\ file[date] # <<>>
    BY <1>0, <1>5 DEF Logging!FailRotation, Logging!FailReopen, Logging!Full, LogFiles, Lines
  <2>2. Latest(<<>>, file[date], taken[date]) /\ Latest(file[date], <<>>, taken[date])
    BY <1>0, LatestLosesOld DEF LogFiles
  <2>3. \/ /\ old' = [old EXCEPT ![date] = <<>>] /\ file' = file /\ size' = size
           /\ opened' \in BOOLEAN /\ (opened' => opened)
        \/ /\ old' = [old EXCEPT ![date] = file[date]] /\ file' = [file EXCEPT ![date] = <<>>]
           /\ size' = 0 /\ opened' = FALSE
    <3>1. CASE Logging!FailRotation
      <4>1. [file EXCEPT ![today] = Logging!Reopened] = file
        BY <1>0 DEF Logging!Reopened
      <4> QED BY <2>1, <3>1, <4>1 DEF Logging!FailRotation
    <3>2. CASE Logging!FailReopen
      BY <2>1, <3>2 DEF Logging!FailReopen
    <3> QED BY <1>5, <3>1, <3>2
  <2>4. CASE old' = [old EXCEPT ![date] = <<>>] /\ file' = file /\ size' = size
             /\ opened' \in BOOLEAN /\ (opened' => opened)
    <3>1. LogState'
      BY <1>0, <2>1, <2>4
    <3>2. old'[date] = <<>>
      BY <1>0, <2>4
    <3>3. ASSUME NEW d \in Logging!Day, d > date PROVE Untouched(d)'
      BY <1>0, <2>1, <2>4, <3>3 DEF LogFiles, Untouched
    <3> QED BY <2>1, <2>2, <2>4, <3>1, <3>2, <3>3 DEF LogFiles
  <2>5. CASE old' = [old EXCEPT ![date] = file[date]] /\ file' = [file EXCEPT ![date] = <<>>]
             /\ size' = 0 /\ opened' = FALSE
    <3>1. old' \in [Logging!Day -> Lines] /\ file' \in [Logging!Day -> Lines]
      BY <1>0, <2>5
    <3>4. size' \in 0..MaxSize
      BY <1>0, <2>5
    <3>5. opened' \in BOOLEAN
      BY <2>5
    <3>6. LogState'
      BY <2>1, <3>1, <3>4, <3>5
    <3>2. old'[date] = file[date] /\ file'[date] = <<>>
      BY <1>0, <2>5
    <3>3. ASSUME NEW d \in Logging!Day, d > date PROVE Untouched(d)'
      BY <1>0, <2>1, <2>5, <3>3 DEF LogFiles, Untouched
    <3> QED BY <2>1, <2>2, <2>5, <3>2, <3>3, <3>6 DEF LogFiles
  <2> QED BY <2>3, <2>4, <2>5
<1>6. CASE Logging!FailWrite \/ Logging!FailClosed
  <2>1. UNCHANGED <<date, opened, size, file, old, taken>>
    BY <1>6 DEF Logging!FailWrite, Logging!FailClosed, Logging!fileVars
  <2>2. LogState'
    BY <1>0, <2>1
  <2> QED BY <2>1, <2>2 DEF LogFiles, Untouched
<1> QED BY <1>1, <1>2, <1>3, <1>4, <1>5, <1>6

\* What uploading does to the backlog.
LEMMA LogUploadsNext ==
    ASSUME LogConstants, LogUploads, NEW t \in Target,
           Logging!UploadStep(t) \/ Logging!Break(t) \/ Logging!StopTarget(t)
               \/ Logging!RecordLate(t)
    PROVE  LogUploads'
<1> USE DEF LogConstants, Logging!LogLimitsAssumption, LogUploads
<1>1. CASE Logging!Connect(t) \/ Logging!WaitForLines(t) \/ Logging!RecordLate(t)
  BY <1>1 DEF Logging!Connect, Logging!WaitForLines, Logging!RecordLate, Logging!Becomes,
              Logging!hubVars, Logging!UploadStates
<1>2. CASE Logging!Wake(t)
  BY <1>2 DEF Logging!Wake, Logging!Becomes, Logging!UploadStates
<1>3. CASE Logging!Break(t) \/ Logging!StopTarget(t)
  BY <1>3 DEF Logging!Break, Logging!StopTarget, Logging!LeaveConnection, Logging!Becomes,
              Logging!hubVars, Logging!UploadStates
<1>4. CASE Logging!Record(t)
  BY <1>4 DEF Logging!Record, Logging!Becomes, Logging!hubVars, Logging!UploadStates
<1>5. CASE Logging!Send(t)
  <2> DEFINE n == IF next - Logging!Start(t) > MaxBatch THEN MaxBatch ELSE next - Logging!Start(t)
  <2>1. Logging!Start(t) \in 1..next
    BY DEF Logging!Start
  <2>2. n \in 0..MaxBatch /\ Logging!Start(t) + n <= next
    BY <2>1
  <2>3. /\ upload' = [upload EXCEPT ![t] = "sent"]
        /\ from' = [from EXCEPT ![t] = Logging!Start(t)]
        /\ count' = [count EXCEPT ![t] = n] /\ UNCHANGED <<low, next, token, acked>>
    BY <1>5 DEF Logging!Send, Logging!Becomes, Logging!hubVars
  <2> HIDE DEF n
  <2> QED BY <2>1, <2>2, <2>3 DEF Logging!UploadStates
<1>6. CASE Logging!Acknowledge(t)
  <2>1. Logging!AfterBatch(t) \in 1..next
    BY <1>6 DEF Logging!Acknowledge, Logging!AfterBatch
  <2> QED BY <1>6, <2>1 DEF Logging!Acknowledge, Logging!Becomes, Logging!hubVars,
                            Logging!UploadStates
<1> QED BY <1>1, <1>2, <1>3, <1>4, <1>5, <1>6 DEF Logging!UploadStep

\* The invariant is inductive,
LEMMA LogInvNext == LogConstants /\ LogInv /\ Logging!Next => LogInv'
<1> SUFFICES ASSUME LogConstants, LogInv, Logging!Next PROVE LogInv'
  OBVIOUS
<1>1. CASE Logging!Log
  <2>1. LogState' /\ LogFiles'
    BY <1>1, LogFilesNext DEF Logging!Log, LogInv
  <2>2. \/ Logging!Queued \/ UNCHANGED Logging!hubVars
    BY <1>1 DEF Logging!Log
  <2>3. UNCHANGED <<upload, from, count, acked>>
    BY <1>1 DEF Logging!Log, Logging!uploadVars
  <2>4. LogUploads'
    <3> USE DEF LogConstants, Logging!LogLimitsAssumption, LogInv, LogUploads
    <3>1. CASE Logging!Queued
      BY <2>3, <3>1 DEF Logging!Queued, Logging!Oldest
    <3>2. CASE UNCHANGED Logging!hubVars
      BY <2>3, <3>2 DEF Logging!hubVars
    <3> QED BY <2>2, <3>1, <3>2
  <2> QED BY <2>1, <2>4 DEF LogInv
<1>2. CASE Logging!Midnight
  <2>1. /\ today' = today + 1 /\ today + 1 \in Logging!Day
        /\ UNCHANGED <<logPlan, lines, date, opened, size, file, old, taken, low, next, token,
                       upload, from, count, acked>>
    BY <1>2 DEF Logging!Midnight, Logging!fileVars, Logging!hubVars, Logging!uploadVars, LogInv,
                LogState, Logging!LogPlanType, Logging!Day, LogConstants,
                Logging!LogLimitsAssumption
  <2>2. date' \in 0..today'
    BY <2>1 DEF LogInv, LogState, Logging!Day, LogConstants, Logging!LogLimitsAssumption
  <2>3. LogState'
    BY <2>1, <2>2 DEF LogInv, LogState
  <2>4. LogFiles'
    BY <2>1 DEF LogInv, LogFiles, Untouched
  <2>5. LogUploads'
    BY <2>1 DEF LogInv, LogUploads
  <2> QED BY <2>3, <2>4, <2>5 DEF LogInv
<1>3. ASSUME NEW t \in Target, Logging!UploadStep(t) \/ Logging!Break(t) \/ Logging!StopTarget(t)
                 \/ Logging!RecordLate(t)
      PROVE  LogInv'
  <2>1. LogUploads'
    BY <1>3, LogUploadsNext DEF LogInv
  <2>2. UNCHANGED <<logPlan, lines, today, date, opened, size, file, old, taken>>
    BY <1>3 DEF Logging!UploadStep, Logging!Connect, Logging!Send, Logging!WaitForLines,
                Logging!Wake, Logging!Record, Logging!Acknowledge, Logging!Break,
                Logging!StopTarget,
                Logging!LeaveConnection, Logging!RecordLate, Logging!LogSame, Logging!fileVars
  <2>3. LogState' /\ LogFiles'
    BY <2>2 DEF LogInv, LogState, LogFiles, Untouched
  <2> QED BY <2>1, <2>3 DEF LogInv
<1> QED BY <1>1, <1>2, <1>3 DEF Logging!Next

\* and depends on the variables of the part only.
LEMMA LogInvSame == LogInv /\ UNCHANGED Logging!vars => LogInv'
BY DEF LogInv, LogState, LogFiles, LogUploads, Untouched, Logging!vars, Logging!fileVars,
       Logging!hubVars, Logging!uploadVars

-----------------------------------------------------------------------------
(* RelayDialing.                                                           *)

DialingConstants == Dialing!NetworksAssumption /\ Dialing!ListsAssumption

\* The types, at as a function too.
DialingInv == Dialing!DialingTypeOK /\ DOMAIN at = Dial

\* No list is empty.
LEMMA ListsHaveRelays ==
    ASSUME DialingConstants, NEW list \in Lists
    PROVE  Len(list) \in Nat /\ Len(list) > 0 /\ 1 \in 1..Len(list)
<1>1. list \in Seq(Relay) /\ list # <<>>
  BY DEF DialingConstants, Dialing!ListsAssumption
<1>2. Len(list) \in Nat /\ Len(list) # 0
  BY <1>1
<1> DEFINE n == Len(list)
<1>3. n \in Nat /\ n # 0
  BY <1>2
<1> HIDE DEF n
<1>4. n > 0 /\ 1 \in 1..n
  BY <1>3
<1> QED  BY <1>3, <1>4 DEF n

\* The first relay is tried first.
LEMMA DialingBegins ==
    ASSUME DialingConstants, Dialing!Init
    PROVE  DialingInv
<1>1. relays \in [Dial -> Lists] /\ \A d \in Dial : Len(relays[d]) \in Nat /\ 1 \in 1..Len(relays[d])
  BY ListsHaveRelays DEF Dialing!Init
<1>2. Dialing!NoMarks \in Dialing!Marks
  BY DEF Dialing!NoMarks, Dialing!Marks
<1> QED  BY <1>1, <1>2 DEF Dialing!Init, DialingInv, Dialing!DialingTypeOK, Dialing!DialStates

\* A dial stays within the list of relays, and saves one of the known marks.
LEMMA DialingStepKeepsTypes ==
    ASSUME DialingConstants, DialingInv, NEW d \in Dial, Dialing!Step(d)
    PROVE  DialingInv'
<1>1. /\ relays' = relays /\ network' = network /\ Len(relays[d]) \in Nat /\ Len(relays[d]) > 0
      /\ dial \in [Dial -> Dialing!DialStates] /\ snapshot \in [Dial -> Dialing!Marks]
      /\ at[d] \in 1..Len(relays[d])
  <2>1. relays' = relays /\ network' = network
    BY DEF Dialing!Step, Dialing!Begin, Dialing!TryStream, Dialing!TrySocket, Dialing!TryFallback,
           Dialing!TakeSnapshot, Dialing!Save
  <2>2. Len(relays[d]) \in Nat /\ Len(relays[d]) > 0
    BY ListsHaveRelays DEF DialingInv, Dialing!DialingTypeOK
  <2> QED  BY <2>1, <2>2 DEF DialingInv, Dialing!DialingTypeOK
<1>2. dial' \in [Dial -> Dialing!DialStates]
  <2>1. \E where \in Dialing!DialStates : dial' = [dial EXCEPT ![d] = where]
    <3>1. CASE Dialing!Begin(d)
      BY <3>1 DEF Dialing!Begin, Dialing!Go, Dialing!DialStates
    <3>2. CASE Dialing!TryStream(d)
      BY <3>2 DEF Dialing!TryStream, Dialing!Go, Dialing!DialStates, Dialing!Stream,
                  Dialing!Tunnel
    <3>3. CASE Dialing!TrySocket(d)
      BY <3>3 DEF Dialing!TrySocket, Dialing!Go, Dialing!DialStates, Dialing!DialSocket,
                  Dialing!Tunnel
    <3>4. CASE Dialing!TryFallback(d) \/ Dialing!TakeSnapshot(d) \/ Dialing!Save(d)
      BY <3>4 DEF Dialing!TryFallback, Dialing!TakeSnapshot, Dialing!Save, Dialing!Go,
                  Dialing!DialStates
    <3> QED  BY <3>1, <3>2, <3>3, <3>4 DEF Dialing!Step
  <2> QED  BY <2>1, <1>1
<1>3. preferred' \in BOOLEAN
  BY DEF DialingInv, Dialing!DialingTypeOK, Dialing!Step, Dialing!Begin, Dialing!TryStream,
         Dialing!TrySocket, Dialing!TryFallback, Dialing!TakeSnapshot, Dialing!Save,
         Dialing!markVars
<1>4. unsupported' \in BOOLEAN
  <2>1. CASE Dialing!TryStream(d)
    BY <2>1, Zenon DEF DialingInv, Dialing!DialingTypeOK, Dialing!TryStream
  <2>2. CASE Dialing!Begin(d) \/ Dialing!TrySocket(d) \/ Dialing!TryFallback(d)
                 \/ Dialing!TakeSnapshot(d) \/ Dialing!Save(d)
    BY <2>2 DEF DialingInv, Dialing!DialingTypeOK, Dialing!Begin, Dialing!TrySocket,
                Dialing!TryFallback, Dialing!TakeSnapshot, Dialing!Save, Dialing!markVars
  <2> QED  BY <2>1, <2>2 DEF Dialing!Step
<1>5. candidate' \in BOOLEAN
  BY DEF DialingInv, Dialing!DialingTypeOK, Dialing!Step, Dialing!Begin, Dialing!TryStream,
         Dialing!TrySocket, Dialing!TryFallback, Dialing!TakeSnapshot, Dialing!Save,
         Dialing!markVars
<1>6. snapshot' \in [Dial -> Dialing!Marks]
  <2>1. snapshot' = snapshot
            \/ snapshot'
                   = [snapshot EXCEPT ![d] = [preferred |-> preferred,
                                              unsupported |-> unsupported]]
    BY DEF Dialing!Step, Dialing!Begin, Dialing!TryStream, Dialing!TrySocket, Dialing!TryFallback,
           Dialing!TakeSnapshot, Dialing!Save, Dialing!saveVars
  <2>2. [preferred |-> preferred, unsupported |-> unsupported] \in Dialing!Marks
    BY DEF Dialing!Marks, DialingInv, Dialing!DialingTypeOK
  <2> QED  BY <2>1, <2>2, <1>1
<1>7. saved' \in Dialing!Marks /\ signature' \in Dialing!Marks
  <2>1. (saved' = saved /\ signature' = signature)
            \/ (saved' = snapshot[d] /\ signature' = snapshot[d])
    BY DEF Dialing!Step, Dialing!Begin, Dialing!TryStream, Dialing!TrySocket, Dialing!TryFallback,
           Dialing!TakeSnapshot, Dialing!Save, Dialing!saveVars
  <2> QED  BY <2>1, <1>1 DEF DialingInv, Dialing!DialingTypeOK
<1>8. \A e \in Dial : at[e]' \in 1..Len(relays[e])
  <2>1. at' = at \/ at' = [at EXCEPT ![d] = (at[d] % Len(relays[d])) + 1]
    BY DEF Dialing!Step, Dialing!Begin, Dialing!TryStream, Dialing!TrySocket, Dialing!TryFallback,
           Dialing!TakeSnapshot, Dialing!Save
  <2>2. ASSUME NEW n \in Nat \ {0}, NEW m \in Nat PROVE (m % n) + 1 \in 1..n
    <3>1. m % n \in 0..(n - 1)
      OBVIOUS
    <3> QED  BY <3>1
  <2>3. (at[d] % Len(relays[d])) + 1 \in 1..Len(relays[d])
    BY <1>1, <2>2
  <2> QED  BY <2>1, <2>3 DEF DialingInv, Dialing!DialingTypeOK
<1>9. DOMAIN at' = Dial
  BY DEF DialingInv, Dialing!Step, Dialing!Begin, Dialing!TryStream, Dialing!TrySocket,
         Dialing!TryFallback, Dialing!TakeSnapshot, Dialing!Save
<1> QED  BY <1>1, <1>2, <1>3, <1>4, <1>5, <1>6, <1>7, <1>8, <1>9 DEF DialingInv,
    Dialing!DialingTypeOK

\* The types are inductive,
LEMMA DialingTypesNext ==
    ASSUME DialingConstants, DialingInv, Dialing!Next
    PROVE  DialingInv'
<1>1. CASE \E d \in Dial : Dialing!Step(d)
  BY <1>1, DialingStepKeepsTypes
<1>2. CASE Dialing!Change
  <2>1. \A d \in Dial : Len(relays[d]) \in Nat /\ 1 \in 1..Len(relays[d])
    BY ListsHaveRelays DEF DialingInv, Dialing!DialingTypeOK
  <2>2. PICK lost \in SUBSET Dial :
        /\ dial' = [d \in Dial |-> IF d \in lost THEN "begin" ELSE dial[d]]
                                    /\ at' = [d \in Dial |-> IF d \in lost THEN 1 ELSE at[d]]
    BY <1>2 DEF Dialing!Change
  <2>3. \A d \in Dial : at[d]' \in 1..Len(relays[d])
    BY <2>1, <2>2 DEF DialingInv, Dialing!DialingTypeOK
  <2>4. dial' \in [Dial -> Dialing!DialStates]
    BY <2>2 DEF DialingInv, Dialing!DialingTypeOK, Dialing!DialStates
  <2>5. UNCHANGED <<relays, Dialing!markVars, Dialing!saveVars>> /\ network' \in Networks
    BY <1>2 DEF Dialing!Change
  <2> QED  BY <2>2, <2>3, <2>4, <2>5 DEF DialingInv, Dialing!DialingTypeOK, Dialing!markVars,
                                         Dialing!saveVars
<1>3. CASE Dialing!Restart
  <2>1. \A d \in Dial : Len(relays[d]) \in Nat /\ 1 \in 1..Len(relays[d])
    BY ListsHaveRelays DEF DialingInv, Dialing!DialingTypeOK
  <2>2. /\ UNCHANGED <<relays, network, snapshot, saved>> /\ signature' = saved
        /\ candidate' = FALSE
        /\ preferred' = saved.preferred /\ unsupported' = saved.unsupported
        /\ dial' = [d \in Dial |-> "begin"] /\ at' = [d \in Dial |-> 1]
    BY <1>3 DEF Dialing!Restart
  <2>3. preferred' \in BOOLEAN /\ unsupported' \in BOOLEAN
    BY <2>2 DEF DialingInv, Dialing!DialingTypeOK, Dialing!Marks
  <2> QED  BY <2>1, <2>2, <2>3 DEF DialingInv, Dialing!DialingTypeOK, Dialing!DialStates
<1> QED  BY <1>1, <1>2, <1>3 DEF Dialing!Next

\* and depend on the variables of the part only.
LEMMA DialingTypesSame ==
    ASSUME DialingInv, UNCHANGED Dialing!vars
    PROVE  DialingInv'
BY DEF DialingInv, Dialing!DialingTypeOK, Dialing!vars, Dialing!markVars, Dialing!saveVars

-----------------------------------------------------------------------------
(* ScreenView.                                                             *)

\* What goes over the wire, and the frame of the i-th of some images.
Frame ==
    {Screen!Error} \cup [type : {"full", "delta"}, size : 1..2,
                         rects : UNION {[S -> 0..1] : S \in SUBSET Tile}]
FrameOf(shots, i) == IF i = 1 THEN Screen!Full(shots[1]) ELSE Screen!Delta(shots[i - 1], shots[i])

\* The types.
ScreenState ==
    /\ screen \in [Session -> Screen!Image] /\ streams \in 0..MaxStreams /\ active \in 0..streams
    /\ screenPlan.users \subseteq Session /\ screenPlan.count \in Nat
    /\ screenPlan.streams \in 1..MaxStreams
    /\ endedStreams \subseteq 1..streams /\ cutStreams \subseteq 1..streams
    /\ mode \in [Screen!Stream -> {"single", "stream", "files"}]
    /\ helper \in [Screen!Stream -> {"no", "capturing", "waiting", "ended"}]
    /\ helperSession \in [Screen!Stream -> Session \cup {None}]
    /\ lastImage \in [Screen!Stream -> Screen!Image]
    /\ images \in [Screen!Stream -> Seq(Screen!Image)]
    /\ pipe \in [Screen!Stream -> {"no", "open", "draining", "closed"}]
    /\ wire \in [Screen!Stream -> Seq(Frame)]
    /\ receiver \in [Screen!Stream -> {"no", "dialing", "reading", "showing", "posting",
                                            "over", "failed"}]
    /\ canvas \in [Screen!Stream -> Screen!Image] /\ applied \in [Screen!Stream -> Nat]
    /\ closed \in BOOLEAN /\ frame \in Screen!Image \cup {None}
    /\ bitmap \in Screen!Image \cup {None} /\ undrawn \in BOOLEAN
    /\ posted \in Seq(Screen!Image)

\* How far a stream and its helper are.
Stage(k) ==
    /\ k > streams => receiver[k] = "no" /\ helper[k] = "no"
    /\ helper[k] = "no" => images[k] = <<>> /\ applied[k] = 0 /\ wire[k] = <<>>
    /\ helper[k] = "no" <=> pipe[k] = "no"
    /\ helper[k] = "no" <=> receiver[k] \in {"no", "dialing"}
           \/ (receiver[k] = "over" /\ pipe[k] = "no")
    /\ helper[k] # "no" => helperSession[k] \in Session
    /\ pipe[k] \in {"draining", "closed"} => helper[k] = "ended"
    /\ pipe[k] = "closed" => receiver[k] \in {"over", "failed"} \/ k \in cutStreams
\* What the helper has captured.
Encoding(k) ==
    /\ Len(images[k]) <= MaxFrames
    /\ helper[k] = "capturing" => Len(images[k]) < MaxFrames
    /\ mode[k] = "single" => Len(images[k]) <= 1 /\ helper[k] # "waiting"
    /\ mode[k] = "single" /\ images[k] # <<>> => helper[k] = "ended"
    /\ images[k] # <<>> => lastImage[k] = images[k][Len(images[k])]
    /\ \A i \in 1..Len(images[k]) : images[k][i].size = lastImage[k].size
\* What is under way is the captures that have not arrived, in order, and at last an error.
Wire(k) ==
    IF pipe[k] = "closed" THEN wire[k] = <<>>
    ELSE /\ \/ applied[k] + Len(wire[k]) = Len(images[k])
            \/ applied[k] + Len(wire[k]) = Len(images[k]) + 1 /\ helper[k] = "ended"
         /\ \A i \in 1..Len(wire[k]) :
              wire[k][i] = IF applied[k] + i <= Len(images[k])
                  THEN FrameOf(images[k], applied[k] + i)
                           ELSE Screen!Error
\* What has arrived.
FilesAreCounted(k) == mode[k] = "files" /\ screenPlan.count \in 1..Len(images[k])
Arrived(k) ==
    /\ applied[k] <= Len(images[k])
    /\ applied[k] > 0 => canvas[k] = images[k][applied[k]]
    /\ receiver[k] \in {"showing", "posting"} => applied[k] > 0
    /\ mode[k] = "files" => receiver[k] # "posting"
    /\ mode[k] = "files" /\ screenPlan.count > 0 =>
         /\ receiver[k] \in {"no", "dialing", "reading"} => applied[k] < screenPlan.count
         /\ receiver[k] = "showing" => applied[k] <= screenPlan.count
    /\ receiver[k] = "over" /\ k \notin endedStreams \cup cutStreams =>
         IF FilesAreCounted(k) THEN applied[k] = screenPlan.count
         ELSE applied[k] = Len(images[k]) /\ helper[k] \in {"no", "ended"}
\* What the window shows of its only stream.
Viewed ==
    streams <= 1 /\ ~closed =>
      /\ streams = 0 => frame = None
      /\ streams = 1 /\ receiver[1] = "posting" => frame = canvas[1]
      /\ frame # None /\ (streams = 1 => receiver[1] # "posting") =>
           IF posted = <<>> THEN bitmap = frame \/ undrawn ELSE frame = posted[Len(posted)]
StreamInv(k) == Stage(k) /\ Encoding(k) /\ Wire(k) /\ Arrived(k)
ScreenInv == ScreenState /\ (\A k \in Screen!Stream : StreamInv(k)) /\ Viewed

\* A step that leaves a stream alone, but for its context and its connection.
Untouches(k) ==
    /\ mode'[k] = mode[k] /\ helper'[k] = helper[k] /\ helperSession'[k] = helperSession[k]
    /\ lastImage'[k] = lastImage[k] /\ images'[k] = images[k] /\ pipe'[k] = pipe[k]
    /\ wire'[k] = wire[k]
    /\ receiver'[k] = receiver[k] /\ canvas'[k] = canvas[k] /\ applied'[k] = applied[k]
    /\ screenPlan' = screenPlan /\ (k > streams' => k > streams)
    /\ (k \in endedStreams \cup cutStreams => k \in endedStreams' \cup cutStreams')
           /\ (k \in cutStreams => k \in cutStreams')

\* What a step leaves under way, from what it leaves in the variables of the stream.
LEMMA WireAfter ==
    ASSUME NEW k \in Screen!Stream, pipe'[k] # "closed",
           \/ applied'[k] + Len(wire'[k]) = Len(images'[k])
           \/ applied'[k] + Len(wire'[k]) = Len(images'[k]) + 1 /\ helper'[k] = "ended",
           \A i \in 1..Len(wire'[k]) :
               wire'[k][i] = IF applied'[k] + i <= Len(images'[k])
                   THEN FrameOf(images'[k], applied'[k] + i)
                             ELSE Screen!Error
    PROVE  Wire(k)'
BY DEF Wire, FrameOf, Screen!Full, Screen!Delta, Screen!Changed, Screen!Error

\* What is under way is what it was, if no variable of it changes.
LEMMA WireAsBefore ==
    ASSUME NEW k \in Screen!Stream, Wire(k), pipe[k] # "closed", pipe'[k] # "closed",
           wire'[k] = wire[k], images'[k] = images[k], applied'[k] = applied[k],
           helper[k] = "ended" => helper'[k] = "ended"
    PROVE  Wire(k)'
<1>1. \/ applied'[k] + Len(wire'[k]) = Len(images'[k])
      \/ applied'[k] + Len(wire'[k]) = Len(images'[k]) + 1 /\ helper'[k] = "ended"
  BY DEF Wire
<1>2. \A i \in 1..Len(wire'[k]) :
        wire'[k][i] = IF applied'[k] + i <= Len(images'[k])
            THEN FrameOf(images'[k], applied'[k] + i)
                      ELSE Screen!Error
  BY DEF Wire
<1> QED BY <1>1, <1>2, WireAfter

\* A step of another stream keeps what is said of this one.
LEMMA StreamUntouched ==
    ASSUME NEW k \in Screen!Stream, StreamInv(k), Untouches(k) PROVE StreamInv(k)'
<1>1. Stage(k)'
  BY DEF StreamInv, Stage, Untouches
<1>2. Encoding(k)'
  BY DEF StreamInv, Encoding, Untouches
<1>3. Wire(k)'
  <2>1. /\ pipe'[k] = pipe[k] /\ wire'[k] = wire[k] /\ images'[k] = images[k]
        /\ applied'[k] = applied[k] /\ helper'[k] = helper[k] /\ Wire(k)
    BY DEF StreamInv, Untouches
  <2>2. CASE pipe[k] = "closed"
    BY <2>1, <2>2 DEF Wire
  <2>3. CASE pipe[k] # "closed"
    BY <2>1, <2>3, WireAsBefore
  <2> QED BY <2>2, <2>3
<1>4. Arrived(k)'
  BY DEF StreamInv, Arrived, FilesAreCounted, Untouches
<1> QED BY <1>1, <1>2, <1>3, <1>4 DEF StreamInv

\* There are no streams at first.
LEMMA ScreenBegins == Screen!ScreenPlansAssumption /\ Screen!Init => ScreenInv
<1> SUFFICES ASSUME Screen!ScreenPlansAssumption, Screen!Init PROVE ScreenInv
  OBVIOUS
<1> USE DEF Screen!ScreenPlansAssumption, Screen!Init
<1>1. Screen!Blank \in Screen!Image
  BY DEF Screen!Blank, Screen!Image
<1>2. ScreenState
  <2>1. screenPlan.users \subseteq Session /\ screenPlan.count \in Nat
        /\ screenPlan.streams \in 1..MaxStreams
    OBVIOUS
  <2>2. screen \in [Session -> Screen!Image] /\ lastImage \in [Screen!Stream -> Screen!Image]
        /\ canvas \in [Screen!Stream -> Screen!Image]
    BY <1>1
  <2>3. /\ mode \in [Screen!Stream -> {"single", "stream", "files"}]
        /\ helper \in [Screen!Stream -> {"no", "capturing", "waiting", "ended"}]
        /\ helperSession \in [Screen!Stream -> Session \cup {None}]
        /\ images \in [Screen!Stream -> Seq(Screen!Image)]
        /\ pipe \in [Screen!Stream -> {"no", "open", "draining", "closed"}]
        /\ wire \in [Screen!Stream -> Seq(Frame)]
        /\ receiver
               \in [Screen!Stream -> {"no", "dialing", "reading", "showing", "posting",
                                            "over", "failed"}]
        /\ applied \in [Screen!Stream -> Nat]
    OBVIOUS
  <2>4. /\ streams \in 0..MaxStreams /\ active \in 0..streams /\ endedStreams \subseteq 1..streams
        /\ cutStreams \subseteq 1..streams /\ frame \in Screen!Image \cup {None}
        /\ bitmap \in Screen!Image \cup {None} /\ posted \in Seq(Screen!Image)
    OBVIOUS
  <2>5. closed \in BOOLEAN /\ undrawn \in BOOLEAN
    OBVIOUS
  <2> QED BY <2>1, <2>2, <2>3, <2>4, <2>5 DEF ScreenState
<1>3. ASSUME NEW k \in Screen!Stream PROVE StreamInv(k)
  <2>1. /\ receiver[k] = "no" /\ helper[k] = "no" /\ images[k] = <<>> /\ applied[k] = 0
        /\ wire[k] = <<>>
        /\ pipe[k] = "no" /\ mode[k] = "single" /\ screenPlan.count \in Nat
    OBVIOUS
  <2>2. Len(<<>>) = 0
    OBVIOUS
  <2> QED BY <2>1, <2>2 DEF StreamInv, Stage, Encoding, Wire, Arrived, FilesAreCounted
<1>4. Viewed
  BY DEF Viewed
<1> QED BY <1>2, <1>3, <1>4 DEF ScreenInv

\* The invariant says that what is shown is what was captured.
LEMMA ScreenInvMeans ==
    Screen!ScreenPlansAssumption /\ ScreenInv => Screen!ScreenTypeOK /\ Screen!ScreenIsShown
<1> SUFFICES ASSUME Screen!ScreenPlansAssumption, ScreenInv
             PROVE Screen!ScreenTypeOK /\ Screen!ScreenIsShown
  OBVIOUS
<1>1. Screen!ScreenTypeOK
  BY DEF ScreenInv, ScreenState, Screen!ScreenTypeOK, StreamInv, Encoding, Arrived
<1>2. ASSUME NEW k \in Screen!Stream
      PROVE  /\ applied[k] > 0 => canvas[k] = images[k][applied[k]]
             /\ receiver[k] = "over" /\ k \notin endedStreams \cup cutStreams =>
                    applied[k] = IF mode[k] = "files" /\ screenPlan.count \in 1..Len(images[k])
                                   THEN screenPlan.count ELSE Len(images[k])
  BY DEF ScreenInv, StreamInv, Arrived, FilesAreCounted
<1>3. streams = 1 /\ posted = <<>> /\ ~closed /\ frame # None /\ receiver[1] # "posting" =>
          bitmap = frame \/ undrawn
  BY DEF ScreenInv, Viewed
<1> QED BY <1>1, <1>2, <1>3 DEF Screen!ScreenIsShown

\* The frames are of the kinds that Receive knows.
LEMMA FramesAreFrames ==
    /\ Screen!Error \in Frame
    /\ \A image \in Screen!Image : Screen!Full(image) \in Frame
    /\ \A before \in Screen!Image, image \in Screen!Image : Screen!Delta(before, image) \in Frame
<1>1. Screen!Error \in Frame
  BY DEF Frame
<1>2. ASSUME NEW image \in Screen!Image PROVE Screen!Full(image) \in Frame
  <2>1. image.size \in 1..2 /\ image.tiles \in UNION {[S -> 0..1] : S \in SUBSET Tile}
    BY DEF Screen!Image
  <2> QED BY <2>1 DEF Screen!Full, Frame
<1>3. ASSUME NEW before \in Screen!Image, NEW image \in Screen!Image
      PROVE Screen!Delta(before, image) \in Frame
  <2>1. Screen!Changed(before, image) \in SUBSET Tile
    BY DEF Screen!Changed
  <2>2. image.size \in 1..2
        /\ [t \in Screen!Changed(before, image) |-> image.tiles[t]]
               \in [Screen!Changed(before, image) -> 0..1]
    BY <2>1 DEF Screen!Image
  <2>3. [t \in Screen!Changed(before, image) |-> image.tiles[t]] \in UNION {[S -> 0..1] :
            S \in SUBSET Tile}
    BY <2>1, <2>2
  <2> QED BY <2>2, <2>3 DEF Screen!Delta, Frame
<1> QED BY <1>1, <1>2, <1>3

\* A frame drawn over an image gives an image.
LEMMA DrawnIsImage ==
    ASSUME NEW base \in Screen!Image, NEW f \in Frame, f # Screen!Error
    PROVE Screen!Drawn(base, f) \in Screen!Image
<1>1. f \in [type : {"full", "delta"}, size : 1..2,
             rects : UNION {[S -> 0..1] : S \in SUBSET Tile}]
  BY DEF Frame
<1>2. PICK S \in SUBSET Tile : f.rects \in [S -> 0..1]
  BY <1>1
<1>3. \A t \in Tile : (IF t \in DOMAIN f.rects THEN f.rects[t] ELSE base.tiles[t]) \in 0..1
  BY <1>2 DEF Screen!Image
<1> QED BY <1>1, <1>3 DEF Screen!Drawn, Screen!Image

\* The types, through a step.
LEMMA ScreenStateNext ==
    ASSUME Screen!ScreenPlansAssumption, ScreenInv, Screen!Next PROVE ScreenState'
<1> USE DEF Screen!ScreenPlansAssumption
<1>0. ScreenState /\ \A k \in Screen!Stream : StreamInv(k)
  BY DEF ScreenInv
<1>1. ASSUME NEW k \in Screen!Stream, Screen!Launch(k) \/ Screen!LaunchFails(k) PROVE ScreenState'
  <2>1. CASE Screen!Launch(k)
    <3>1. PICK s \in Session : Screen!Runs(k, s)
      BY <1>0, <2>1 DEF Screen!Launch, ScreenState, Screen!ActiveUsers, Screen!DisconnectedUsers,
                        Screen!Console
    <3>2. UNCHANGED screen
      BY <2>1 DEF Screen!Launch, Screen!windowsVars
    <3> QED BY <1>0, <2>1, <3>1, <3>2 DEF Screen!Launch, Screen!Runs, ScreenState,
                                          Screen!viewVars, Screen!startVars
  <2>2. CASE Screen!LaunchFails(k)
    BY <1>0, <2>2 DEF Screen!LaunchFails, ScreenState, Screen!windowsVars, Screen!helperVars,
                      Screen!pipeVars, Screen!viewVars, Screen!startVars
  <2> QED BY <1>1, <2>1, <2>2
<1>2. ASSUME NEW k \in Screen!Stream, Screen!Capture(k) PROVE ScreenState'
  <2>1. Screen!Captured(k) \in Screen!Image /\ lastImage[k] \in Screen!Image
    BY <1>0, <1>2 DEF ScreenState, Screen!Captured, Screen!Capture, StreamInv, Stage
  <2>2. PICK f \in Frame : wire' = [wire EXCEPT ![k] = Append(wire[k], f)]
    BY <1>2, <2>1, FramesAreFrames DEF Screen!Capture, Screen!Writes
  <2>3. \/ UNCHANGED <<lastImage, images>>
        \/ /\ lastImage' = [lastImage EXCEPT ![k] = Screen!Captured(k)]
           /\ images' = [images EXCEPT ![k] = Append(images[k], Screen!Captured(k))]
    BY <1>2 DEF Screen!Capture, Screen!NextPrevious
  <2>4. lastImage' \in [Screen!Stream -> Screen!Image]
        /\ images' \in [Screen!Stream -> Seq(Screen!Image)]
        /\ wire' \in [Screen!Stream -> Seq(Frame)]
    <3>1. lastImage \in [Screen!Stream -> Screen!Image]
          /\ images \in [Screen!Stream -> Seq(Screen!Image)]
          /\ wire \in [Screen!Stream -> Seq(Frame)]
      BY <1>0 DEF ScreenState
    <3>2. Append(wire[k], f) \in Seq(Frame)
          /\ Append(images[k], Screen!Captured(k)) \in Seq(Screen!Image)
      BY <2>1, <3>1
    <3>3. wire' \in [Screen!Stream -> Seq(Frame)]
      BY <2>2, <3>1, <3>2
    <3>4. CASE UNCHANGED <<lastImage, images>>
      BY <3>1, <3>3, <3>4
    <3>5. CASE /\ lastImage' = [lastImage EXCEPT ![k] = Screen!Captured(k)]
               /\ images' = [images EXCEPT ![k] = Append(images[k], Screen!Captured(k))]
      BY <2>1, <3>1, <3>2, <3>3, <3>5
    <3> QED BY <2>3, <3>4, <3>5
  <2>5. helper' \in [Screen!Stream -> {"no", "capturing", "waiting", "ended"}]
    <3>1. \/ helper' = [helper EXCEPT ![k] = "ended"]
          \/ helper' = [helper EXCEPT ![k] = "waiting"]
      BY <1>2 DEF Screen!Capture, Screen!Now
    <3> QED BY <1>0, <3>1 DEF ScreenState
  <2> QED BY <1>0, <1>2, <2>4, <2>5 DEF Screen!Capture, ScreenState, Screen!windowsVars,
                                        Screen!receiverVars, Screen!viewVars, Screen!startVars,
                                        Screen!boundVars
<1>3. ASSUME NEW k \in Screen!Stream, Screen!CaptureFails(k) PROVE ScreenState'
  <2>1. Append(wire[k], Screen!Error) \in Seq(Frame)
    BY <1>0, FramesAreFrames DEF ScreenState
  <2>2. \/ /\ wire' = [wire EXCEPT ![k] = Append(wire[k], Screen!Error)]
           /\ helper' = [helper EXCEPT ![k] = "ended"]
        \/ UNCHANGED <<wire, helper>>
    BY <1>3 DEF Screen!CaptureFails, Screen!Writes, Screen!Now
  <2>3. wire' \in [Screen!Stream -> Seq(Frame)]
        /\ helper' \in [Screen!Stream -> {"no", "capturing", "waiting", "ended"}]
    <3>1. wire \in [Screen!Stream -> Seq(Frame)]
          /\ helper \in [Screen!Stream -> {"no", "capturing", "waiting", "ended"}]
      BY <1>0 DEF ScreenState
    <3> QED BY <2>1, <2>2, <3>1
  <2> QED BY <1>0, <1>3, <2>3 DEF Screen!CaptureFails, ScreenState, Screen!windowsVars,
                                  Screen!receiverVars, Screen!viewVars,
                                  Screen!startVars, Screen!boundVars
<1>4. ASSUME NEW k \in Screen!Stream,
             Screen!Tick(k) \/ Screen!HelperIsClosed(k) \/ Screen!HelperEOF(k) PROVE ScreenState'
  BY <1>0, <1>4 DEF Screen!Tick, Screen!HelperIsClosed, Screen!HelperEOF, Screen!OnHelperEOF,
                    Screen!Now, ScreenState, Screen!windowsVars, Screen!helperVars,
                    Screen!pipeVars, Screen!receiverVars, Screen!viewVars, Screen!startVars,
                    Screen!boundVars
<1>5. ASSUME NEW k \in Screen!Stream,
             Screen!DrainTimeout(k) \/ Screen!RelayEnds(k) \/ Screen!LinkFails(k)
      PROVE ScreenState'
  <2>1. k \in 1..streams /\ <<>> \in Seq(Frame)
    <3>1. pipe[k] \in {"open", "draining"}
      BY <1>5 DEF Screen!DrainTimeout, Screen!RelayEnds, Screen!LinkFails
    <3>2. ~(k > streams)
      BY <1>0, <3>1 DEF StreamInv, Stage
    <3> QED BY <1>0, <3>2 DEF Screen!Stream, ScreenState
  <2>2. /\ pipe' = [pipe EXCEPT ![k] = "closed"] /\ wire' = [wire EXCEPT ![k] = <<>>]
        /\ cutStreams' \in {cutStreams, cutStreams \cup {k}}
        /\ helper' \in {helper, [helper EXCEPT ![k] = "ended"]}
    BY <1>5 DEF Screen!DrainTimeout, Screen!RelayEnds, Screen!LinkFails, Screen!Now,
                Screen!helperVars
  <2>3. /\ pipe' \in [Screen!Stream -> {"no", "open", "draining", "closed"}]
        /\ wire' \in [Screen!Stream -> Seq(Frame)]
        /\ cutStreams' \subseteq 1..streams
        /\ helper' \in [Screen!Stream -> {"no", "capturing", "waiting", "ended"}]
    BY <1>0, <2>1, <2>2 DEF ScreenState
  <2>4. UNCHANGED <<screen, helperSession, lastImage, images, canvas, applied, receiver, active,
                    closed, frame, posted, bitmap, undrawn, streams, mode, endedStreams,
                    screenPlan>>
    BY <1>5 DEF Screen!DrainTimeout, Screen!RelayEnds, Screen!LinkFails, Screen!windowsVars,
                Screen!helperVars, Screen!receiverVars, Screen!viewVars, Screen!startVars,
                Screen!boundVars
  <2> QED BY <1>0, <2>3, <2>4 DEF ScreenState
<1>6. ASSUME NEW k \in Screen!Stream, Screen!ReadFrame(k) PROVE ScreenState'
  <2>1. wire[k] \in Seq(Frame) /\ wire[k] # <<>> /\ canvas[k] \in Screen!Image
    BY <1>0, <1>6 DEF ScreenState, Screen!ReadFrame
  <2>2. Head(wire[k]) \in Frame /\ Tail(wire[k]) \in Seq(Frame)
    BY <2>1
  <2>3. Screen!Fits(k, Head(wire[k])) => Head(wire[k]) # Screen!Error
    BY DEF Screen!Fits, Screen!Error
  <2>4. Screen!Fits(k, Head(wire[k])) => Screen!Drawn(canvas[k], Head(wire[k])) \in Screen!Image
    BY <2>1, <2>2, <2>3, DrawnIsImage
  <2>5. \/ /\ Screen!Fits(k, Head(wire[k])) /\ receiver' = [receiver EXCEPT ![k] = "showing"]
           /\ canvas' = [canvas EXCEPT ![k] = Screen!Drawn(canvas[k], Head(wire[k]))]
           /\ applied' = [applied EXCEPT ![k] = applied[k] + 1]
        \/ receiver' = [receiver EXCEPT ![k] = "over"] /\ UNCHANGED <<canvas, applied>>
    BY <1>6 DEF Screen!ReadFrame, Screen!Goes
  <2>6. /\ canvas' \in [Screen!Stream -> Screen!Image] /\ applied' \in [Screen!Stream -> Nat]
        /\ receiver'
               \in [Screen!Stream -> {"no", "dialing", "reading", "showing", "posting",
                                            "over", "failed"}]
    <3>1. /\ canvas \in [Screen!Stream -> Screen!Image] /\ applied \in [Screen!Stream -> Nat]
          /\ receiver
                 \in [Screen!Stream -> {"no", "dialing", "reading", "showing", "posting",
                                            "over", "failed"}]
      BY <1>0 DEF ScreenState
    <3>2. CASE receiver' = [receiver EXCEPT ![k] = "over"] /\ UNCHANGED <<canvas, applied>>
      BY <3>1, <3>2
    <3>3. CASE /\ Screen!Fits(k, Head(wire[k])) /\ receiver' = [receiver EXCEPT ![k] = "showing"]
               /\ canvas' = [canvas EXCEPT ![k] = Screen!Drawn(canvas[k], Head(wire[k]))]
               /\ applied' = [applied EXCEPT ![k] = applied[k] + 1]
      <4>1. Screen!Drawn(canvas[k], Head(wire[k])) \in Screen!Image
        BY <2>4, <3>3
      <4>2. canvas' \in [Screen!Stream -> Screen!Image]
        BY <3>1, <3>3, <4>1
      <4>3. applied' \in [Screen!Stream -> Nat]
        BY <3>1, <3>3
      <4>4. receiver'
                \in [Screen!Stream -> {"no", "dialing", "reading", "showing", "posting",
                                            "over", "failed"}]
        BY <3>1, <3>3
      <4> QED BY <4>2, <4>3, <4>4
    <3> QED BY <2>5, <3>2, <3>3
  <2>7. wire' = [wire EXCEPT ![k] = Tail(wire[k])]
    BY <1>6 DEF Screen!ReadFrame
  <2>8. wire' \in [Screen!Stream -> Seq(Frame)]
    BY <1>0, <2>2, <2>7 DEF ScreenState
  <2>9. UNCHANGED <<screen, helper, helperSession, lastImage, images, pipe, cutStreams, active,
                    closed, frame, posted, bitmap, undrawn,
                    streams, mode, endedStreams, screenPlan>>
    BY <1>6 DEF Screen!ReadFrame, Screen!windowsVars, Screen!helperVars, Screen!viewVars,
                Screen!startVars, Screen!boundVars
  <2> QED BY <1>0, <2>6, <2>8, <2>9 DEF ScreenState
<1>7. ASSUME NEW k \in Screen!Stream, Screen!ReadFails(k) \/ Screen!WritePNG(k) PROVE ScreenState'
  BY <1>0, <1>7 DEF Screen!ReadFails, Screen!WritePNG, Screen!Goes, ScreenState,
                    Screen!windowsVars, Screen!helperVars, Screen!pipeVars, Screen!viewVars,
                    Screen!startVars, Screen!boundVars
<1>8. ASSUME NEW k \in Screen!Stream, Screen!SetFrame(k) PROVE ScreenState'
  BY <1>0, <1>8 DEF Screen!SetFrame, Screen!Goon, Screen!Goes, ScreenState, Screen!windowsVars,
                    Screen!helperVars, Screen!pipeVars, Screen!startVars, Screen!boundVars
<1>9. ASSUME NEW k \in Screen!Stream, Screen!Synchronize(k) PROVE ScreenState'
  <2>1. posted' \in Seq(Screen!Image)
    BY <1>0, <1>9 DEF Screen!Synchronize, ScreenState
  <2> QED BY <1>0, <1>9, <2>1 DEF Screen!Synchronize, Screen!Goon, Screen!Goes, ScreenState,
                                  Screen!windowsVars, Screen!helperVars, Screen!pipeVars,
                                  Screen!startVars, Screen!boundVars
<1>10. ASSUME NEW k \in Screen!Stream, Screen!Interrupt(k) PROVE ScreenState'
  <2>1. k \in 1..streams
    <3>1. k <= streams
      BY <1>0, <1>10 DEF Screen!Interrupt, StreamInv, Stage, Screen!Stream, ScreenState
    <3> QED BY <1>0, <3>1 DEF Screen!Stream, ScreenState
  <2> QED BY <1>0, <1>10, <2>1 DEF Screen!Interrupt, ScreenState, Screen!windowsVars,
                                   Screen!helperVars, Screen!pipeVars, Screen!receiverVars,
                                   Screen!viewVars
<1>11. ASSUME NEW how \in {"single", "stream", "files"}, Screen!Opens(how),
              UNCHANGED <<Screen!windowsVars, Screen!helperVars, Screen!pipeVars, canvas,
                          applied, closed, frame, posted, bitmap, undrawn, Screen!boundVars>>,
              \/ endedStreams' = endedStreams \cup ({active} \ {0}) /\ active' = streams + 1
              \/ UNCHANGED <<endedStreams, active>>
       PROVE  ScreenState'
  <2>1. streams' = streams + 1 /\ streams + 1 \in 1..MaxStreams /\ streams + 1 \in Screen!Stream
    BY <1>0, <1>11 DEF Screen!Opens, ScreenState, Screen!Stream
  <2>2. mode' \in [Screen!Stream -> {"single", "stream", "files"}]
        /\ receiver'
               \in [Screen!Stream -> {"no", "dialing", "reading", "showing", "posting",
                                            "over", "failed"}]
    BY <1>0, <1>11 DEF Screen!Opens, ScreenState
  <2>3. active' \in 0..streams' /\ cutStreams \subseteq 1..streams'
    BY <1>0, <1>11, <2>1 DEF ScreenState
  <2>4. endedStreams' \subseteq 1..streams'
    <3>1. endedStreams \subseteq 1..streams' /\ {active} \ {0} \subseteq 1..streams'
      BY <1>0, <2>1 DEF ScreenState
    <3>2. endedStreams' = endedStreams \cup ({active} \ {0}) \/ endedStreams' = endedStreams
      BY <1>11
    <3> QED BY <3>1, <3>2
  <2>5. UNCHANGED <<screen, helper, helperSession, lastImage, images, pipe, wire, cutStreams,
                    canvas, applied, closed, frame,
                    posted, bitmap, undrawn, screenPlan>>
    BY <1>11 DEF Screen!windowsVars, Screen!helperVars, Screen!pipeVars, Screen!boundVars
  <2>6. streams' \in 0..MaxStreams /\ cutStreams' \subseteq 1..streams'
    BY <2>1, <2>3, <2>5
  <2>7. /\ canvas' \in [Screen!Stream -> Screen!Image] /\ applied' \in [Screen!Stream -> Nat]
        /\ screen' \in [Session -> Screen!Image]
        /\ frame' \in Screen!Image \cup {None} /\ bitmap' \in Screen!Image \cup {None}
        /\ posted' \in Seq(Screen!Image)
        /\ lastImage' \in [Screen!Stream -> Screen!Image]
        /\ images' \in [Screen!Stream -> Seq(Screen!Image)]
        /\ wire' \in [Screen!Stream -> Seq(Frame)]
    BY <1>0, <2>5 DEF ScreenState
  <2>8. closed' \in BOOLEAN /\ undrawn' \in BOOLEAN
    BY <1>0, <2>5 DEF ScreenState
  <2> QED BY <1>0, <2>2, <2>3, <2>4, <2>5, <2>6, <2>7, <2>8 DEF ScreenState
<1>12. CASE Screen!Stop \/ Screen!CloseWindow
  <2>1. active' = 0 /\ endedStreams' \subseteq 1..streams
    <3>1. endedStreams \subseteq 1..streams /\ {active} \ {0} \subseteq 1..streams
      BY <1>0 DEF ScreenState
    <3>2. endedStreams' = endedStreams \cup ({active} \ {0}) /\ active' = 0
      BY <1>12 DEF Screen!Stop, Screen!CloseWindow
    <3> QED BY <3>1, <3>2
  <2>2. closed' \in BOOLEAN
    BY <1>0, <1>12 DEF Screen!Stop, Screen!CloseWindow, ScreenState
  <2>3. /\ UNCHANGED <<screen, helper, helperSession, lastImage, images, pipe, wire, cutStreams,
                       canvas, applied, receiver, streams, mode, screenPlan>>
        /\ frame' = frame /\ bitmap' \in {bitmap, None} /\ posted' = posted /\ undrawn' = undrawn
    BY <1>12 DEF Screen!Stop, Screen!CloseWindow, Screen!windowsVars, Screen!helperVars,
                 Screen!pipeVars, Screen!receiverVars, Screen!boundVars
  <2> QED BY <1>0, <2>1, <2>2, <2>3 DEF ScreenState
<1>13. CASE Screen!ShowPosted
  <2>1. Head(posted) \in Screen!Image /\ Tail(posted) \in Seq(Screen!Image)
    BY <1>0, <1>13 DEF Screen!ShowPosted, ScreenState
  <2>2. bitmap' \in Screen!Image \cup {None} /\ undrawn' \in BOOLEAN
    BY <1>0, <1>13, <2>1 DEF Screen!ShowPosted, ScreenState
  <2> QED BY <1>0, <1>13, <2>1, <2>2 DEF Screen!ShowPosted, ScreenState, Screen!windowsVars,
                                   Screen!helperVars, Screen!pipeVars,
                                   Screen!receiverVars, Screen!startVars, Screen!boundVars
<1>14. ASSUME NEW s \in Session, Screen!Draws(s) PROVE ScreenState'
  <2>1. screen[s] \in Screen!Image
    BY <1>0 DEF ScreenState
  <2>2. ASSUME NEW image \in Screen!Drawable(screen[s]) PROVE image \in Screen!Image
    <3>1. ASSUME NEW t \in Tile PROVE [screen[s] EXCEPT !.tiles[t] = 1 - @] \in Screen!Image
      BY <2>1 DEF Screen!Image
    <3>2. [screen[s] EXCEPT !.size = 3 - @] \in Screen!Image
      BY <2>1 DEF Screen!Image
    <3> QED BY <3>1, <3>2 DEF Screen!Drawable
  <2>3. screen' \in [Session -> Screen!Image]
    BY <1>0, <1>14, <2>2 DEF Screen!Draws, ScreenState
  <2> QED BY <1>0, <1>14, <2>3 DEF Screen!Draws, ScreenState, Screen!helperVars, Screen!pipeVars,
                                   Screen!receiverVars, Screen!viewVars, Screen!startVars
<1>15. ASSUME NEW s \in Session, Screen!Detach(s)
                  \/ \E ways \in SUBSET {"gdi", "dxgi"} : Screen!Switches(s, ways)
       PROVE  ScreenState'
  <2>1. /\ UNCHANGED <<screen, streams, active, screenPlan, endedStreams, cutStreams, mode,
                        helper, helperSession, lastImage>>
        /\ UNCHANGED <<images, pipe, wire, receiver, canvas, applied, closed, frame, bitmap,
                        posted, undrawn>>
    BY <1>15 DEF Screen!Detach, Screen!Switches, Screen!helperVars, Screen!pipeVars,
                 Screen!receiverVars, Screen!viewVars, Screen!startVars
  <2> QED BY <1>0, <2>1 DEF ScreenState
<1>16. ASSUME NEW how \in {"single", "stream"}, Screen!Start(how) PROVE ScreenState'
  BY <1>11, <1>16 DEF Screen!Start
<1>17. CASE Screen!RunCLI
  BY <1>11, <1>17 DEF Screen!RunCLI, Screen!viewVars
<1> QED BY <1>1, <1>2, <1>3, <1>4, <1>5, <1>6, <1>7, <1>8, <1>9, <1>10, <1>12, <1>13, <1>14,
    <1>15, <1>16,
           <1>17 DEF Screen!Next

\* The state of one stream, all of whose parts are of its type.
LEMMA StreamTypes ==
    ASSUME ScreenState, NEW k \in Screen!Stream
    PROVE  /\ images[k] \in Seq(Screen!Image) /\ wire[k] \in Seq(Frame) /\ applied[k] \in Nat
           /\ Len(images[k]) \in Nat
           /\ Len(wire[k]) \in Nat /\ lastImage[k] \in Screen!Image /\ canvas[k] \in Screen!Image
           /\ k \in Nat /\ streams \in Nat
           /\ DOMAIN mode = Screen!Stream /\ DOMAIN helper = Screen!Stream
           /\ DOMAIN helperSession = Screen!Stream
           /\ DOMAIN lastImage = Screen!Stream /\ DOMAIN images = Screen!Stream
           /\ DOMAIN pipe = Screen!Stream /\ DOMAIN wire = Screen!Stream
           /\ DOMAIN receiver = Screen!Stream /\ DOMAIN canvas = Screen!Stream
           /\ DOMAIN applied = Screen!Stream
<1>1. images[k] \in Seq(Screen!Image) /\ wire[k] \in Seq(Frame) /\ applied[k] \in Nat
      /\ lastImage[k] \in Screen!Image /\ canvas[k] \in Screen!Image
  BY DEF ScreenState
<1>2. Len(images[k]) \in Nat /\ Len(wire[k]) \in Nat
  BY <1>1
<1>3. k \in Nat /\ streams \in Nat
  BY DEF ScreenState, Screen!Stream
<1>4. /\ DOMAIN mode = Screen!Stream /\ DOMAIN helper = Screen!Stream
      /\ DOMAIN helperSession = Screen!Stream
      /\ DOMAIN lastImage = Screen!Stream /\ DOMAIN images = Screen!Stream
      /\ DOMAIN pipe = Screen!Stream /\ DOMAIN wire = Screen!Stream
      /\ DOMAIN receiver = Screen!Stream /\ DOMAIN canvas = Screen!Stream
      /\ DOMAIN applied = Screen!Stream
  BY DEF ScreenState
<1> QED BY <1>1, <1>2, <1>3, <1>4

Others(k) == \A j \in Screen!Stream \ {k} : Untouches(j)

\* A helper is launched, or is not.
LEMMA LaunchesKeep ==
    ASSUME Screen!ScreenPlansAssumption, ScreenInv, NEW k \in Screen!Stream,
           Screen!Launch(k) \/ Screen!LaunchFails(k)
    PROVE  StreamInv(k)' /\ Others(k)
<1> USE DEF Screen!ScreenPlansAssumption
<1>0. ScreenState /\ StreamInv(k) /\ receiver[k] = "dialing"
  BY DEF ScreenInv, Screen!Launch, Screen!LaunchFails
<1>1. /\ helper[k] = "no" /\ images[k] = <<>> /\ applied[k] = 0 /\ wire[k] = <<>>
      /\ pipe[k] = "no"
      /\ ~(k > streams) /\ k \notin 1..Len(<<>>) /\ Len(<<>>) = 0
  BY <1>0 DEF StreamInv, Stage
<1>2. UNCHANGED <<images, wire, applied, mode, streams, lastImage, canvas, cutStreams,
                  endedStreams, screenPlan>>
  BY DEF Screen!Launch, Screen!LaunchFails, Screen!helperVars, Screen!pipeVars, Screen!startVars
<1>3. CASE Screen!Launch(k)
  <2>1. PICK s \in Session : Screen!Runs(k, s)
    BY <1>0, <1>3 DEF Screen!Launch, ScreenState, Screen!ActiveUsers, Screen!DisconnectedUsers,
                      Screen!Console
  <2>2. /\ helper' = [helper EXCEPT ![k] = "capturing"]
        /\ helperSession' = [helperSession EXCEPT ![k] = s]
        /\ pipe' = [pipe EXCEPT ![k] = "open"] /\ receiver' = [receiver EXCEPT ![k] = "reading"]
    BY <2>1 DEF Screen!Runs
  <2>3. /\ helper'[k] = "capturing" /\ helperSession'[k] = s /\ pipe'[k] = "open"
        /\ receiver'[k] = "reading"
    BY <1>0, <2>2, StreamTypes
  <2>4. Stage(k)'
    BY <1>1, <1>2, <2>3 DEF Stage
  <2>5. Encoding(k)'
    BY <1>0, <1>1, <1>2, <2>3 DEF StreamInv, Encoding
  <2>6. Wire(k)'
    BY <1>1, <1>2, <2>3 DEF Wire
  <2>7. Arrived(k)'
    BY <1>0, <1>1, <1>2, <2>3 DEF Arrived, FilesAreCounted, StreamInv
  <2>8. Others(k)
    BY <1>0, <1>2, <2>2, StreamTypes DEF Others, Untouches
  <2> QED BY <2>4, <2>5, <2>6, <2>7, <2>8 DEF StreamInv
<1>4. CASE Screen!LaunchFails(k)
  <2>1. /\ receiver' = [receiver EXCEPT ![k] = "over"]
        /\ UNCHANGED <<helper, helperSession, pipe>>
    BY <1>4 DEF Screen!LaunchFails, Screen!helperVars, Screen!pipeVars
  <2>2. receiver'[k] = "over"
    BY <1>0, <2>1, StreamTypes
  <2>3. StreamInv(k)'
    <3>1. Stage(k)'
      BY <1>0, <1>1, <1>2, <2>1, <2>2 DEF Stage
    <3>2. Encoding(k)'
      BY <1>0, <1>1, <1>2, <2>1 DEF StreamInv, Encoding
    <3>3. Wire(k)'
      BY <1>1, <1>2, <2>1 DEF Wire
    <3>4. Arrived(k)'
      BY <1>0, <1>1, <1>2, <2>1, <2>2 DEF StreamInv, Arrived, FilesAreCounted
    <3> QED BY <3>1, <3>2, <3>3, <3>4 DEF StreamInv
  <2>4. Others(k)
    BY <1>0, <1>2, <2>1, StreamTypes DEF Others, Untouches
  <2> QED BY <2>3, <2>4
<1> QED BY <1>3, <1>4

\* A helper captures an image and writes what has changed of it.
LEMMA CaptureKeeps ==
    ASSUME Screen!ScreenPlansAssumption, ScreenInv, NEW k \in Screen!Stream, Screen!Capture(k)
    PROVE  StreamInv(k)' /\ Others(k)
<1> USE DEF Screen!ScreenPlansAssumption
<1> DEFINE image == Screen!Captured(k)
           f == IF images[k] = <<>> THEN Screen!Full(image) ELSE Screen!Delta(lastImage[k], image)
           n == Len(images[k])
<1>0. ScreenState /\ StreamInv(k) /\ helper[k] = "capturing"
  BY DEF ScreenInv, Screen!Capture
<1>1. image \in Screen!Image
  BY <1>0 DEF ScreenState, Screen!Captured, StreamInv, Stage
<1>2. /\ pipe[k] = "open" /\ helperSession[k] \in Session /\ ~(k > streams)
      /\ ~(receiver[k] \in {"no", "dialing"} \/ (receiver[k] = "over" /\ pipe[k] = "no"))
  BY <1>0 DEF StreamInv, Stage, ScreenState
<1>3. /\ n \in Nat /\ n < MaxFrames /\ (mode[k] = "single" => images[k] = <<>>)
      /\ applied[k] + Len(wire[k]) = n /\ applied[k] <= n
  BY <1>0, <1>2, StreamTypes DEF StreamInv, Encoding, Wire, Arrived
<1>4. UNCHANGED <<helperSession, pipe, cutStreams, receiver, canvas, applied, streams, mode,
                  endedStreams, screenPlan>>
  BY DEF Screen!Capture, Screen!receiverVars, Screen!startVars, Screen!boundVars
<1>7. applied[k] \in Nat /\ Len(wire[k]) \in Nat
  BY <1>0, StreamTypes
<1> HIDE DEF image, n
<1>5. CASE images[k] # <<>> /\ lastImage[k].size # image.size
  <2>1. /\ wire' = [wire EXCEPT ![k] = Append(wire[k], Screen!Error)]
        /\ helper' = [helper EXCEPT ![k] = "ended"]
        /\ UNCHANGED <<lastImage, images>>
    BY <1>5 DEF Screen!Capture, Screen!Writes, Screen!Now, image
  <2>2. wire'[k] = Append(wire[k], Screen!Error) /\ helper'[k] = "ended"
    BY <1>0, <2>1, StreamTypes
  <2>3. /\ Len(wire'[k]) = Len(wire[k]) + 1 /\ wire'[k][Len(wire[k]) + 1] = Screen!Error
        /\ \A i \in 1..Len(wire[k]) : wire'[k][i] = wire[k][i]
    BY <1>0, <2>2, StreamTypes
  <2>4. Stage(k)'
    BY <1>0, <1>2, <1>4, <2>1, <2>2 DEF Stage, StreamInv
  <2>5. Encoding(k)'
    BY <1>0, <1>4, <2>1, <2>2 DEF Encoding, StreamInv
  <2>6. Wire(k)'
    <3>1. ASSUME NEW i \in 1..Len(wire'[k])
          PROVE  wire'[k][i] = IF applied[k] + i <= n THEN FrameOf(images[k], applied[k] + i)
                     ELSE Screen!Error
      <4>1. CASE i \in 1..Len(wire[k])
        BY <1>0, <1>2, <2>3, <4>1 DEF StreamInv, Wire, n
      <4>2. CASE i = Len(wire[k]) + 1
        BY <1>0, <1>3, <2>3, <4>2, StreamTypes
      <4> QED BY <1>0, <2>3, <4>1, <4>2, StreamTypes
    <3>2. applied[k] + Len(wire'[k]) = n + 1
      <4>1. Len(wire'[k]) = Len(wire[k]) + 1
        BY <2>3
      <4> QED BY <1>3, <1>7, <4>1
    <3>3. pipe'[k] # "closed" /\ applied'[k] = applied[k] /\ images'[k] = images[k]
          /\ Len(images'[k]) = n
      BY <1>2, <1>4, <2>1 DEF n
    <3> QED BY <2>2, <3>1, <3>2, <3>3, WireAfter
  <2>7. Arrived(k)'
    BY <1>0, <1>4, <2>1, <2>2 DEF Arrived, FilesAreCounted, StreamInv
  <2>8. Others(k)
    BY <1>0, <1>4, <2>1, StreamTypes DEF Others, Untouches
  <2> QED BY <2>4, <2>5, <2>6, <2>7, <2>8 DEF StreamInv
<1>6. CASE ~(images[k] # <<>> /\ lastImage[k].size # image.size)
  <2>1. /\ wire' = [wire EXCEPT ![k] = Append(wire[k], f)]
        /\ helper' = [helper EXCEPT ![k] = IF mode[k] = "single" THEN "ended" ELSE "waiting"]
        /\ lastImage' = [lastImage EXCEPT ![k] = image]
        /\ images' = [images EXCEPT ![k] = Append(images[k], image)]
    BY <1>6 DEF Screen!Capture, Screen!Writes, Screen!Now, Screen!NextPrevious, image
  <2>2. /\ wire'[k] = Append(wire[k], f)
        /\ helper'[k] = (IF mode[k] = "single" THEN "ended" ELSE "waiting")
        /\ lastImage'[k] = image /\ images'[k] = Append(images[k], image)
    BY <1>0, <2>1, StreamTypes
  <2>3. f \in Frame
    BY <1>0, <1>1, FramesAreFrames, StreamTypes
  <2> HIDE DEF f
  <2>4. /\ Len(wire'[k]) = Len(wire[k]) + 1 /\ wire'[k][Len(wire[k]) + 1] = f
        /\ \A i \in 1..Len(wire[k]) : wire'[k][i] = wire[k][i]
    BY <1>0, <2>2, <2>3, StreamTypes
  <2>5. /\ Len(images'[k]) = n + 1 /\ images'[k][n + 1] = image
        /\ \A i \in 1..n : images'[k][i] = images[k][i]
    BY <1>0, <1>1, <2>2, StreamTypes DEF n
  <2>6. Stage(k)'
    BY <1>0, <1>2, <1>4, <2>1, <2>2 DEF Stage, StreamInv
  <2>7. n = 0 <=> images[k] = <<>>
    BY <1>0, StreamTypes DEF n
  <2>8. Encoding(k)'
    <3>1. ASSUME NEW i \in 1..n + 1 PROVE images'[k][i].size = image.size
      <4>1. CASE i \in 1..n
        <5>1. images[k][i].size = lastImage[k].size /\ images[k] # <<>>
          BY <1>0, <1>3, <2>7, <4>1 DEF StreamInv, Encoding, n
        <5> QED BY <1>6, <2>5, <4>1, <5>1
      <4>2. CASE i = n + 1
        BY <2>5, <4>2
      <4> QED BY <1>3, <4>1, <4>2
    <3>2. n + 1 <= MaxFrames /\ (mode[k] = "single" => n + 1 <= 1)
      BY <1>3, <2>7
    <3> QED BY <1>3, <1>4, <2>2, <2>5, <3>1, <3>2 DEF Encoding
  <2>9. Wire(k)'
    <3>1. f = FrameOf(images'[k], n + 1)
      <4>1. CASE images[k] = <<>>
        BY <2>5, <2>7, <4>1 DEF f, FrameOf
      <4>2. CASE images[k] # <<>>
        <5>1. n + 1 # 1 /\ n \in 1..n /\ (n + 1) - 1 = n
          BY <1>3, <2>7, <4>2
        <5>2. images'[k][n] = lastImage[k]
          BY <1>0, <2>5, <4>2, <5>1 DEF StreamInv, Encoding, n
        <5> QED BY <2>5, <4>2, <5>1, <5>2 DEF f, FrameOf
      <4> QED BY <4>1, <4>2
    <3>2. ASSUME NEW j \in 1..n PROVE FrameOf(images'[k], j) = FrameOf(images[k], j)
      <4>1. images'[k][j] = images[k][j]
        BY <2>5
      <4>2. CASE j = 1
        BY <4>1, <4>2 DEF FrameOf
      <4>3. CASE j # 1
        <5>1. j - 1 \in 1..n
          BY <1>3, <4>3
        <5>2. images'[k][j - 1] = images[k][j - 1]
          BY <2>5, <5>1
        <5> QED BY <4>1, <4>3, <5>2 DEF FrameOf
      <4> QED BY <4>2, <4>3
    <3>3. ASSUME NEW i \in 1..Len(wire'[k])
          PROVE applied[k] + i <= n + 1 /\ wire'[k][i] = FrameOf(images'[k], applied[k] + i)
      <4>1. CASE i \in 1..Len(wire[k])
        <5>1. applied[k] + i \in 1..n
          BY <1>0, <1>3, <4>1, StreamTypes
        <5>2. wire[k][i] = FrameOf(images[k], applied[k] + i)
          BY <1>0, <1>2, <4>1, <5>1 DEF StreamInv, Wire, n
        <5> QED BY <1>3, <2>4, <3>2, <4>1, <5>1, <5>2
      <4>2. CASE i = Len(wire[k]) + 1
        <5>1. applied[k] + i = n + 1
          BY <1>3, <1>7, <4>2
        <5> QED BY <1>3, <2>4, <3>1, <4>2, <5>1
      <4> QED BY <1>7, <2>4, <4>1, <4>2
    <3>4. applied[k] + Len(wire'[k]) = n + 1
      <4>1. Len(wire'[k]) = Len(wire[k]) + 1
        BY <2>4
      <4> QED BY <1>3, <1>7, <4>1
    <3>5. pipe'[k] # "closed" /\ applied'[k] = applied[k]
      BY <1>2, <1>4
    <3> QED BY <2>5, <3>3, <3>4, <3>5, WireAfter
  <2>10. Arrived(k)'
    <3>1. applied[k] > 0 => canvas'[k] = images'[k][applied[k]]
      BY <1>0, <1>3, <1>4, <2>5, StreamTypes DEF StreamInv, Arrived
    <3>2. receiver[k] = "over" /\ k \notin endedStreams \cup cutStreams =>
              FilesAreCounted(k)' /\ applied[k] = screenPlan.count
      <4>1. receiver[k] = "over" /\ k \notin endedStreams \cup cutStreams =>
                FilesAreCounted(k) /\ applied[k] = screenPlan.count
        BY <1>0 DEF StreamInv, Arrived
      <4>2. FilesAreCounted(k) => FilesAreCounted(k)'
        BY <1>3, <1>4, <2>5 DEF FilesAreCounted, n
      <4> QED BY <4>1, <4>2
    <3>3. applied[k] <= n + 1
      BY <1>3, <1>7
    <3>4. /\ receiver[k] \in {"showing", "posting"} => applied[k] > 0
          /\ mode[k] = "files" => receiver[k] # "posting"
          /\ mode[k] = "files" /\ screenPlan.count > 0 =>
               /\ receiver[k] \in {"no", "dialing", "reading"} => applied[k] < screenPlan.count
               /\ receiver[k] = "showing" => applied[k] <= screenPlan.count
      BY <1>0 DEF StreamInv, Arrived
    <3> QED BY <1>4, <2>5, <3>1, <3>2, <3>3, <3>4 DEF Arrived
  <2>11. Others(k)
    BY <1>0, <1>4, <2>1, StreamTypes DEF Others, Untouches
  <2> QED BY <2>6, <2>8, <2>9, <2>10, <2>11 DEF StreamInv
<1> QED BY <1>5, <1>6

\* A helper fails, waits for the next frame, or ends.
LEMMA HelperKeeps ==
    ASSUME Screen!ScreenPlansAssumption, ScreenInv, NEW k \in Screen!Stream,
           Screen!CaptureFails(k) \/ Screen!Tick(k) \/ Screen!HelperIsClosed(k)
               \/ Screen!HelperEOF(k)
    PROVE  StreamInv(k)' /\ Others(k)
<1> USE DEF Screen!ScreenPlansAssumption
<1>0. ScreenState /\ StreamInv(k)
  BY DEF ScreenInv
<1>1. UNCHANGED <<helperSession, lastImage, images, cutStreams, receiver, canvas, applied,
                  streams, mode, endedStreams, screenPlan>>
  BY DEF Screen!CaptureFails, Screen!Tick, Screen!HelperIsClosed, Screen!HelperEOF,
         Screen!helperVars, Screen!pipeVars, Screen!receiverVars, Screen!startVars,
         Screen!boundVars
<1>2. CASE Screen!CaptureFails(k)
  <2>1. /\ helper[k] = "capturing" /\ pipe' = pipe
        /\ \/ /\ wire' = [wire EXCEPT ![k] = Append(wire[k], Screen!Error)]
              /\ helper' = [helper EXCEPT ![k] = "ended"]
           \/ UNCHANGED <<wire, helper>>
    BY <1>2 DEF Screen!CaptureFails, Screen!Writes, Screen!Now
  <2>2. /\ pipe[k] = "open"
        /\ ~(receiver[k] \in {"no", "dialing"} \/ (receiver[k] = "over" /\ pipe[k] = "no"))
        /\ ~(k > streams)
    BY <1>0, <2>1 DEF StreamInv, Stage, ScreenState
  <2>3. CASE wire' = [wire EXCEPT ![k] = Append(wire[k], Screen!Error)]
             /\ helper' = [helper EXCEPT ![k] = "ended"]
    <3>1. wire'[k] = Append(wire[k], Screen!Error) /\ helper'[k] = "ended"
      BY <1>0, <2>3, StreamTypes
    <3>2. /\ Len(wire'[k]) = Len(wire[k]) + 1 /\ wire'[k][Len(wire[k]) + 1] = Screen!Error
          /\ \A i \in 1..Len(wire[k]) : wire'[k][i] = wire[k][i]
      BY <1>0, <3>1, StreamTypes
    <3>3. applied[k] + Len(wire[k]) = Len(images[k]) /\ applied[k] \in Nat /\ Len(wire[k]) \in Nat
      BY <1>0, <2>1, <2>2, StreamTypes DEF StreamInv, Wire
    <3>4. ASSUME NEW i \in 1..Len(wire'[k])
          PROVE  wire'[k][i] = IF applied[k] + i <= Len(images[k])
                     THEN FrameOf(images[k], applied[k] + i) ELSE Screen!Error
      <4>1. CASE i \in 1..Len(wire[k])
        BY <1>0, <2>2, <3>2, <4>1 DEF StreamInv, Wire
      <4>2. CASE i = Len(wire[k]) + 1
        <5>1. ~(applied[k] + i <= Len(images[k]))
          BY <3>3, <4>2
        <5> QED BY <3>2, <4>2, <5>1
      <4> QED BY <3>2, <3>3, <4>1, <4>2
    <3>5. applied[k] + Len(wire'[k]) = Len(images[k]) + 1
      <4> DEFINE x == applied[k]
                 y == Len(wire[k])
                 z == Len(wire'[k])
                 n == Len(images[k])
      <4>1. x \in Nat /\ y \in Nat /\ x + y = n /\ z = y + 1
        BY <3>2, <3>3
      <4> HIDE DEF x, y, z, n
      <4>2. x + z = n + 1
        BY <4>1
      <4> QED BY <4>2 DEF x, z, n
    <3>6. Wire(k)'
      <4>1. pipe'[k] # "closed" /\ applied'[k] = applied[k] /\ images'[k] = images[k]
        BY <1>1, <2>1, <2>2
      <4> QED BY <3>1, <3>4, <3>5, <4>1, WireAfter
    <3>7. Stage(k)' /\ Encoding(k)' /\ Arrived(k)'
      BY <1>0, <1>1, <2>1, <2>2, <3>1 DEF StreamInv, Stage, Encoding, Arrived, FilesAreCounted
    <3>8. Others(k)
      BY <1>0, <1>1, <2>1, <2>3, StreamTypes DEF Others, Untouches
    <3> QED BY <3>6, <3>7, <3>8 DEF StreamInv
  <2>4. CASE UNCHANGED <<wire, helper>>
    <3>1. \A j \in Screen!Stream : Untouches(j)
      BY <1>1, <2>1, <2>4 DEF Untouches
    <3> QED BY <1>0, <3>1, StreamUntouched DEF Others
  <2> QED BY <2>1, <2>3, <2>4
<1>3. CASE Screen!Tick(k)
  <2>1. /\ helper[k] = "waiting" /\ Len(images[k]) < MaxFrames
        /\ helper' = [helper EXCEPT ![k] = "capturing"]
        /\ UNCHANGED <<pipe, wire>>
    BY <1>3 DEF Screen!Tick, Screen!Now, Screen!pipeVars
  <2>2. helper'[k] = "capturing" /\ mode[k] # "single"
    BY <1>0, <2>1, StreamTypes DEF StreamInv, Encoding
  <2>3. Stage(k)' /\ Encoding(k)'
    BY <1>0, <1>1, <2>1, <2>2 DEF StreamInv, Stage, Encoding
  <2>4. Arrived(k)'
    BY <1>0, <1>1, <2>1, <2>2 DEF StreamInv, Arrived, FilesAreCounted
  <2>5. Wire(k)'
    BY <1>0, <1>1, <2>1, <2>2, WireAsBefore DEF StreamInv, Stage
  <2>6. Others(k)
    BY <1>0, <1>1, <2>1, StreamTypes DEF Others, Untouches
  <2> QED BY <2>3, <2>4, <2>5, <2>6 DEF StreamInv
<1>4. CASE Screen!HelperIsClosed(k)
  <2>1. /\ helper[k] \in {"capturing", "waiting"} /\ helper' = [helper EXCEPT ![k] = "ended"]
        /\ UNCHANGED <<pipe, wire>>
    BY <1>4 DEF Screen!HelperIsClosed, Screen!Now, Screen!pipeVars
  <2>2. helper'[k] = "ended"
    BY <1>0, <2>1, StreamTypes
  <2>3. Stage(k)' /\ Encoding(k)'
    BY <1>0, <1>1, <2>1, <2>2 DEF StreamInv, Stage, Encoding
  <2>4. Arrived(k)'
    BY <1>0, <1>1, <2>1, <2>2 DEF StreamInv, Arrived, FilesAreCounted
  <2>5. Wire(k)'
    BY <1>0, <1>1, <2>1, <2>2, WireAsBefore DEF StreamInv, Stage
  <2>6. Others(k)
    BY <1>0, <1>1, <2>1, StreamTypes DEF Others, Untouches
  <2> QED BY <2>3, <2>4, <2>5, <2>6 DEF StreamInv
<1>5. CASE Screen!HelperEOF(k)
  <2>1. /\ helper[k] = "ended" /\ pipe[k] = "open" /\ pipe' = [pipe EXCEPT ![k] = "draining"]
        /\ UNCHANGED <<helper, wire>>
    BY <1>5 DEF Screen!HelperEOF, Screen!OnHelperEOF, Screen!helperVars
  <2>2. pipe'[k] = "draining"
    BY <1>0, <2>1, StreamTypes
  <2>3. Stage(k)' /\ Encoding(k)'
    BY <1>0, <1>1, <2>1, <2>2 DEF StreamInv, Stage, Encoding
  <2>4. Arrived(k)'
    BY <1>0, <1>1, <2>1, <2>2 DEF StreamInv, Arrived, FilesAreCounted
  <2>5. Wire(k)'
    BY <1>0, <1>1, <2>1, <2>2, WireAsBefore DEF StreamInv, Stage
  <2>6. Others(k)
    BY <1>0, <1>1, <2>1, StreamTypes DEF Others, Untouches
  <2> QED BY <2>3, <2>4, <2>5, <2>6 DEF StreamInv
<1> QED BY <1>2, <1>3, <1>4, <1>5

\* A pipe is closed: what was under way is lost.
LEMMA ClosesKeep ==
    ASSUME Screen!ScreenPlansAssumption, ScreenInv, NEW k \in Screen!Stream,
           Screen!DrainTimeout(k) \/ Screen!RelayEnds(k) \/ Screen!LinkFails(k)
    PROVE  StreamInv(k)' /\ Others(k)
<1> USE DEF Screen!ScreenPlansAssumption
<1>0. ScreenState /\ StreamInv(k)
  BY DEF ScreenInv
<1>1. /\ UNCHANGED <<helperSession, lastImage, images, receiver, canvas, applied, streams, mode,
                     endedStreams, screenPlan>>
      /\ pipe[k] \in {"open", "draining"} /\ pipe' = [pipe EXCEPT ![k] = "closed"]
      /\ wire' = [wire EXCEPT ![k] = <<>>]
      /\ cutStreams' \in {cutStreams, cutStreams \cup {k}}
      /\ (receiver[k] \in {"over", "failed"} \/ cutStreams' = cutStreams \cup {k})
      /\ helper' = [helper EXCEPT ![k] = "ended"] \/ (pipe[k] = "draining" /\ helper' = helper)
  BY DEF Screen!DrainTimeout, Screen!RelayEnds, Screen!LinkFails, Screen!Now, Screen!helperVars,
         Screen!pipeVars, Screen!receiverVars, Screen!startVars, Screen!boundVars
<1>2. /\ pipe'[k] = "closed" /\ wire'[k] = <<>> /\ helper'[k] = "ended" /\ helper[k] # "no"
  BY <1>0, <1>1, StreamTypes DEF StreamInv, Stage
<1>3. Stage(k)' /\ Encoding(k)'
  BY <1>0, <1>1, <1>2 DEF StreamInv, Stage, Encoding
<1>4. Arrived(k)'
  BY <1>0, <1>1, <1>2 DEF StreamInv, Arrived, FilesAreCounted
<1>5. Wire(k)'
  BY <1>2 DEF Wire
<1>6. Others(k)
  BY <1>0, <1>1, StreamTypes DEF Others, Untouches
<1> QED BY <1>3, <1>4, <1>5, <1>6 DEF StreamInv

\* A frame arrives: what is drawn is the next of the images captured.
LEMMA ReadsKeep ==
    ASSUME Screen!ScreenPlansAssumption, ScreenInv, NEW k \in Screen!Stream, Screen!ReadFrame(k)
    PROVE  StreamInv(k)' /\ Others(k)
<1> USE DEF Screen!ScreenPlansAssumption
<1> DEFINE f == Head(wire[k])
           n == Len(images[k])
           a == applied[k]
<1>0. ScreenState /\ StreamInv(k) /\ receiver[k] = "reading" /\ wire[k] # <<>>
  BY DEF ScreenInv, Screen!ReadFrame
<1>1. /\ UNCHANGED <<helper, helperSession, lastImage, images, pipe, cutStreams, streams, mode,
                     endedStreams, screenPlan>>
      /\ wire' = [wire EXCEPT ![k] = Tail(wire[k])] /\ k \notin endedStreams
  BY DEF Screen!ReadFrame, Screen!helperVars, Screen!startVars, Screen!boundVars
<1>2. /\ n \in Nat /\ a \in Nat /\ wire[k] \in Seq(Frame) /\ images[k] \in Seq(Screen!Image)
      /\ canvas[k] \in Screen!Image
  BY <1>0, StreamTypes
<1>3. /\ pipe[k] # "closed" /\ f = wire[k][1] /\ Len(wire[k]) \in Nat \ {0}
  BY <1>0, <1>2 DEF StreamInv, Wire
<1>4. /\ wire'[k] = Tail(wire[k]) /\ Len(wire'[k]) = Len(wire[k]) - 1
      /\ \A i \in 1..Len(wire'[k]) : wire'[k][i] = wire[k][i + 1]
  <2>1. wire'[k] = Tail(wire[k])
    BY <1>0, <1>1, StreamTypes
  <2> QED BY <1>0, <1>2, <2>1
<1>5. /\ a + Len(wire[k]) = n \/ (a + Len(wire[k]) = n + 1 /\ helper[k] = "ended")
      /\ \A i \in 1..Len(wire[k]) : wire[k][i] = IF a + i <= n THEN FrameOf(images[k], a + i)
             ELSE Screen!Error
  BY <1>0, <1>3 DEF StreamInv, Wire
<1>6. \/ Screen!Fits(k, f) /\ receiver' = [receiver EXCEPT ![k] = "showing"]
           /\ canvas' = [canvas EXCEPT ![k] = Screen!Drawn(canvas[k], f)]
           /\ applied' = [applied EXCEPT ![k] = a + 1]
      \/ ~Screen!Fits(k, f) /\ receiver' = [receiver EXCEPT ![k] = "over"]
         /\ UNCHANGED <<canvas, applied>>
  BY DEF Screen!ReadFrame, Screen!Goes
<1>7. Others(k)
  BY <1>0, <1>1, <1>6, StreamTypes DEF Others, Untouches
<1>8. Encoding(k)'
  BY <1>0, <1>1 DEF StreamInv, Encoding
<1>9. mode[k] = "files" /\ screenPlan.count > 0 => a < screenPlan.count
  BY <1>0 DEF StreamInv, Arrived
<1>10. screenPlan.count \in Nat
  BY <1>0 DEF ScreenState
<1> HIDE DEF f, n, a
<1>11. CASE a + 1 <= n
  <2>1. f = FrameOf(images[k], a + 1)
    BY <1>2, <1>3, <1>5, <1>11
  <2>2. images[k][a + 1] \in Screen!Image /\ (a # 0 => images[k][a] \in Screen!Image)
    BY <1>2, <1>11 DEF n
  <2>3. Screen!Fits(k, f) /\ Screen!Drawn(canvas[k], f) = images[k][a + 1]
    <3> DEFINE image == images[k][a + 1]
    <3>1. image.tiles \in [Tile -> 0..1] /\ image = [size |-> image.size, tiles |-> image.tiles]
      BY <2>2 DEF Screen!Image
    <3>2. CASE a = 0
      <4>1. f = [type |-> "full", size |-> image.size, rects |-> image.tiles]
        BY <2>1, <3>2 DEF FrameOf, Screen!Full
      <4>2. Screen!Fits(k, f) /\ DOMAIN f.rects = Tile /\ f.rects = image.tiles
            /\ f.size = image.size
        BY <3>1, <4>1 DEF Screen!Fits
      <4>3. Screen!Drawn(canvas[k], f) = [size |-> image.size,
                                          tiles |-> [t \in Tile |-> image.tiles[t]]]
        BY <4>2 DEF Screen!Drawn
      <4> QED BY <3>1, <4>2, <4>3
    <3>3. CASE a # 0
      <4> DEFINE before == images[k][a]
      <4>1. f = Screen!Delta(before, image) /\ canvas[k] = before
        <5>1. a + 1 # 1 /\ (a + 1) - 1 = a /\ a > 0
          BY <1>2, <3>3
        <5> QED BY <1>0, <2>1, <5>1 DEF FrameOf, StreamInv, Arrived, a
      <4>2. before.size = image.size
        <5>1. a \in 1..n /\ a + 1 \in 1..n
          BY <1>2, <1>11, <3>3
        <5> QED BY <1>0, <5>1 DEF StreamInv, Encoding, n
      <4>3. /\ f.type = "delta" /\ f.size = image.size
            /\ DOMAIN f.rects = Screen!Changed(before, image)
            /\ \A t \in Screen!Changed(before, image) : f.rects[t] = image.tiles[t]
        BY <4>1 DEF Screen!Delta
      <4>4. Screen!Fits(k, f)
        <5>1. applied[k] > 0
          BY <1>2, <3>3 DEF a
        <5> QED BY <4>1, <4>2, <4>3, <5>1 DEF Screen!Fits
      <4>5. \A t \in Tile :
                (IF t \in DOMAIN f.rects THEN f.rects[t] ELSE before.tiles[t]) = image.tiles[t]
        BY <4>3 DEF Screen!Changed
      <4>6. Screen!Drawn(before, f) = [size |-> image.size,
                                       tiles |-> [t \in Tile |-> image.tiles[t]]]
        BY <4>3, <4>5 DEF Screen!Drawn
      <4> QED BY <3>1, <4>1, <4>4, <4>6
    <3> QED BY <3>2, <3>3
  <2>4. /\ receiver'[k] = "showing" /\ canvas'[k] = images[k][a + 1] /\ applied'[k] = a + 1
    BY <1>0, <1>6, <2>3, StreamTypes
  <2>5. Stage(k)'
    BY <1>0, <1>1, <2>4 DEF StreamInv, Stage
  <2>6. Wire(k)'
    <3>1. ASSUME NEW i \in 1..Len(wire'[k])
          PROVE  wire'[k][i] = IF a + 1 + i <= n THEN FrameOf(images[k], a + 1 + i)
                     ELSE Screen!Error
      <4>1. i + 1 \in 1..Len(wire[k]) /\ a + (i + 1) = a + 1 + i
        <5> DEFINE l == Len(wire[k])
                   m == Len(wire'[k])
        <5>1. l \in Nat \ {0} /\ m = l - 1 /\ i \in 1..m /\ a \in Nat
          BY <1>2, <1>3, <1>4
        <5> HIDE DEF l, m, a
        <5>2. i + 1 \in 1..l /\ a + (i + 1) = a + 1 + i
          BY <5>1
        <5> QED BY <5>2 DEF l
      <4>2. wire'[k][i] = wire[k][i + 1]
        BY <1>4
      <4>3. wire[k][i + 1] = IF a + (i + 1) <= n THEN FrameOf(images[k], a + (i + 1))
                             ELSE Screen!Error
        BY <1>5, <4>1
      <4> QED BY <4>1, <4>2, <4>3
    <3>2. a + 1 + Len(wire'[k]) = a + Len(wire[k])
      <4> DEFINE y == Len(wire[k])
                 z == Len(wire'[k])
      <4>1. y \in Nat /\ z = y - 1
        BY <1>3, <1>4
      <4> HIDE DEF y, z
      <4>2. a + 1 + z = a + y
        BY <1>2, <4>1
      <4> QED BY <4>2 DEF y, z
    <3>3. pipe'[k] # "closed" /\ images'[k] = images[k] /\ helper'[k] = helper[k]
      BY <1>1, <1>3
    <3> QED BY <1>5, <2>4, <3>1, <3>2, <3>3, WireAfter DEF n
  <2>7. Arrived(k)'
    <3>1. applied'[k] > 0 /\ applied'[k] <= Len(images'[k])
          /\ canvas'[k] = images'[k][applied'[k]]
      BY <1>1, <1>2, <1>11, <2>4 DEF n
    <3>2. mode[k] = "files" /\ screenPlan.count > 0 => a + 1 <= screenPlan.count
      BY <1>2, <1>9, <1>10
    <3> QED BY <1>1, <2>4, <3>1, <3>2 DEF Arrived
  <2> QED BY <1>7, <1>8, <2>5, <2>6, <2>7 DEF StreamInv
<1>12. CASE ~(a + 1 <= n)
  <2>1. f = Screen!Error /\ a = n /\ helper[k] = "ended" /\ Len(wire[k]) = 1
    <3>1. f = Screen!Error
      BY <1>3, <1>5, <1>12
    <3>2. Len(wire[k]) >= 1
      BY <1>3
    <3>3. a <= n
      BY <1>0 DEF StreamInv, Arrived, a, n
    <3>4. a = n
      BY <1>2, <1>12, <3>3
    <3>5. Len(wire[k]) = 1 /\ helper[k] = "ended"
      <4> DEFINE y == Len(wire[k])
      <4>1. y \in Nat /\ y >= 1 /\ (a + y = n \/ (a + y = n + 1 /\ helper[k] = "ended"))
        BY <1>3, <1>5, <3>2
      <4> HIDE DEF y
      <4>2. y = 1 /\ helper[k] = "ended"
        BY <1>2, <3>4, <4>1
      <4> QED BY <4>2 DEF y
    <3> QED BY <3>1, <3>4, <3>5
  <2>2. ~Screen!Fits(k, f)
    BY <2>1 DEF Screen!Fits, Screen!Error
  <2>3. receiver'[k] = "over" /\ UNCHANGED <<canvas, applied>>
    BY <1>0, <1>6, <2>2, StreamTypes
  <2>4. wire'[k] = <<>> /\ Len(wire'[k]) = 0
    <3>1. wire[k] \in Seq(Frame) /\ Len(wire[k]) = 1
      BY <1>0, <2>1, StreamTypes
    <3>2. wire[k] # <<>> /\ Tail(wire[k]) \in Seq(Frame) /\ Len(Tail(wire[k])) = 0
      BY <1>0, <3>1, HeadTailProperties
    <3>3. Tail(wire[k]) = <<>>
      BY <3>2, EmptySeq
    <3>4. wire'[k] = Tail(wire[k])
      BY <1>4
    <3> QED BY <3>2, <3>3, <3>4
  <2>5. Stage(k)'
    BY <1>0, <1>1, <2>1, <2>3 DEF StreamInv, Stage
  <2>6. Wire(k)'
    <3>1. applied'[k] + Len(wire'[k]) = Len(images'[k])
      BY <1>1, <1>2, <2>1, <2>3, <2>4 DEF a, n
    <3>2. pipe'[k] # "closed" /\ 1..Len(wire'[k]) = {}
      BY <1>1, <1>3, <2>4
    <3> QED BY <3>1, <3>2, WireAfter
  <2>7. Arrived(k)'
    <3>1. ~FilesAreCounted(k)
      BY <1>9, <1>10, <2>1, <1>2 DEF FilesAreCounted, n
    <3>2. ~FilesAreCounted(k)'
      BY <1>1, <3>1 DEF FilesAreCounted
    <3>3. applied'[k] = Len(images'[k]) /\ helper'[k] = "ended"
      BY <1>1, <2>1, <2>3 DEF a, n
    <3>4. applied'[k] > 0 => canvas'[k] = images'[k][applied'[k]]
      BY <1>0, <1>1, <2>3 DEF StreamInv, Arrived
    <3>5. applied'[k] <= Len(images'[k])
      BY <1>0, <1>1, <2>3 DEF StreamInv, Arrived
    <3> QED BY <2>3, <3>2, <3>3, <3>4, <3>5 DEF Arrived
  <2> QED BY <1>7, <1>8, <2>5, <2>6, <2>7 DEF StreamInv
<1> QED BY <1>11, <1>12

\* The receiver goes on, with the image it has.
LEMMA ReceiverKeeps ==
    ASSUME Screen!ScreenPlansAssumption, ScreenInv, NEW k \in Screen!Stream,
           Screen!ReadFails(k) \/ Screen!SetFrame(k) \/ Screen!Synchronize(k)
               \/ Screen!WritePNG(k)
    PROVE  StreamInv(k)' /\ Others(k)
<1> USE DEF Screen!ScreenPlansAssumption
<1>0. ScreenState /\ StreamInv(k)
  BY DEF ScreenInv
<1>1. UNCHANGED <<helper, helperSession, lastImage, images, pipe, wire, cutStreams, canvas,
                  applied, streams, mode, endedStreams,
                  screenPlan>>
  BY DEF Screen!ReadFails, Screen!SetFrame, Screen!Synchronize, Screen!WritePNG,
         Screen!helperVars, Screen!pipeVars, Screen!startVars, Screen!boundVars
<1>2. screenPlan.count \in Nat /\ applied[k] \in Nat /\ Len(images[k]) \in Nat
      /\ receiver[k] \in {"reading", "showing", "posting"}
  BY <1>0, StreamTypes DEF ScreenState, Screen!ReadFails, Screen!SetFrame, Screen!Synchronize,
                           Screen!WritePNG
<1>3. \/ /\ receiver[k] = "reading" /\ receiver' = [receiver EXCEPT ![k] = "over"]
         /\ k \in endedStreams \/ (pipe[k] = "closed" /\ wire[k] = <<>>)
      \/ /\ receiver[k] = "showing" /\ mode[k] # "files"
         /\ receiver' = [receiver EXCEPT ![k] = "posting"]
      \/ /\ receiver[k] \in {"showing", "posting"} /\ mode[k] # "files"
         /\ receiver' = [receiver EXCEPT ![k] = IF mode[k] = "single" THEN "over" ELSE "reading"]
      \/ /\ receiver[k] = "showing" /\ mode[k] = "files"
         /\ receiver' = [receiver EXCEPT ![k] = IF applied[k] = screenPlan.count THEN "over"
                         ELSE "reading"]
      \/ receiver[k] = "showing" /\ receiver' = [receiver EXCEPT ![k] = "failed"]
  <2>1. receiver[k] = "posting" => mode[k] # "files"
    BY <1>0 DEF StreamInv, Arrived
  <2> QED BY <2>1 DEF Screen!ReadFails, Screen!SetFrame, Screen!Synchronize, Screen!WritePNG,
                      Screen!Goes, Screen!Goon
<1>4. receiver'[k] \in {"over", "posting", "reading", "failed"} /\ Others(k)
  <2>1. \A j \in Screen!Stream \ {k} : receiver'[j] = receiver[j]
    BY <1>0, <1>3, StreamTypes
  <2>2. receiver'[k] \in {"over", "posting", "reading", "failed"}
    BY <1>0, <1>3, StreamTypes
  <2> QED BY <1>1, <2>1, <2>2 DEF Others, Untouches
<1>5. Encoding(k)' /\ Wire(k)'
  <2>1. Encoding(k)'
    BY <1>0, <1>1 DEF StreamInv, Encoding
  <2>2. CASE pipe[k] = "closed"
    BY <1>0, <1>1, <2>1, <2>2 DEF StreamInv, Wire
  <2>3. CASE pipe[k] # "closed"
    BY <1>0, <1>1, <2>1, <2>3, WireAsBefore DEF StreamInv
  <2> QED BY <2>1, <2>2, <2>3
<1>6. CASE /\ receiver[k] = "reading" /\ receiver' = [receiver EXCEPT ![k] = "over"]
           /\ k \in endedStreams \/ (pipe[k] = "closed" /\ wire[k] = <<>>)
  <2>1. receiver'[k] = "over"
    BY <1>0, <1>6, StreamTypes
  <2>2. Stage(k)'
    BY <1>0, <1>1, <1>6, <2>1 DEF StreamInv, Stage
  <2>3. k \in endedStreams \cup cutStreams
    BY <1>0, <1>6 DEF StreamInv, Stage
  <2>4. Arrived(k)'
    BY <1>0, <1>1, <2>1, <2>3 DEF StreamInv, Arrived
  <2> QED BY <1>4, <1>5, <2>2, <2>4 DEF StreamInv
<1>7. CASE receiver[k] = "showing" /\ mode[k] # "files"
           /\ receiver' = [receiver EXCEPT ![k] = "posting"]
  <2>1. receiver'[k] = "posting"
    BY <1>0, <1>7, StreamTypes
  <2>2. Stage(k)'
    BY <1>0, <1>1, <1>7, <2>1 DEF StreamInv, Stage
  <2>4. Arrived(k)'
    BY <1>0, <1>1, <1>7, <2>1 DEF StreamInv, Arrived
  <2> QED BY <1>4, <1>5, <2>2, <2>4 DEF StreamInv
<1>8. CASE /\ receiver[k] \in {"showing", "posting"} /\ mode[k] # "files"
           /\ receiver' = [receiver EXCEPT ![k] = IF mode[k] = "single" THEN "over"
                           ELSE "reading"]
  <2>1. receiver'[k] = IF mode[k] = "single" THEN "over" ELSE "reading"
    BY <1>0, <1>8, StreamTypes
  <2>2. helper[k] # "no" /\ pipe[k] # "no"
    BY <1>0, <1>8 DEF StreamInv, Stage
  <2>3. Stage(k)'
    BY <1>0, <1>1, <1>8, <2>1, <2>2 DEF StreamInv, Stage
  <2>4. mode[k] = "single" => applied[k] = Len(images[k]) /\ helper[k] = "ended"
    <3>1. applied[k] > 0 /\ applied[k] <= Len(images[k])
      BY <1>0, <1>8 DEF StreamInv, Arrived
    <3>2. mode[k] = "single" => Len(images[k]) <= 1
      BY <1>0 DEF StreamInv, Encoding
    <3>3. images[k] # <<>>
      BY <1>0, <1>2, <3>1, StreamTypes
    <3>4. mode[k] = "single" => helper[k] = "ended"
      BY <1>0, <3>3 DEF StreamInv, Encoding
    <3> QED BY <1>2, <3>1, <3>2, <3>4
  <2>5. Arrived(k)'
    BY <1>0, <1>1, <1>8, <2>1, <2>4 DEF StreamInv, Arrived, FilesAreCounted
  <2> QED BY <1>4, <1>5, <2>3, <2>5 DEF StreamInv
<1>9. CASE /\ receiver[k] = "showing" /\ mode[k] = "files"
           /\ receiver' = [receiver EXCEPT ![k] = IF applied[k] = screenPlan.count THEN "over"
                           ELSE "reading"]
  <2>1. receiver'[k] = IF applied[k] = screenPlan.count THEN "over" ELSE "reading"
    BY <1>0, <1>9, StreamTypes
  <2>2. helper[k] # "no" /\ pipe[k] # "no"
    BY <1>0, <1>9 DEF StreamInv, Stage
  <2>3. Stage(k)'
    BY <1>0, <1>1, <1>9, <2>1, <2>2 DEF StreamInv, Stage
  <2>4. /\ applied[k] > 0 /\ applied[k] <= Len(images[k])
        /\ screenPlan.count > 0 => applied[k] <= screenPlan.count
    BY <1>0, <1>9 DEF StreamInv, Arrived
  <2>5. applied[k] = screenPlan.count => FilesAreCounted(k)
    BY <1>2, <1>9, <2>4 DEF FilesAreCounted
  <2>6. applied[k] # screenPlan.count /\ screenPlan.count > 0 => applied[k] < screenPlan.count
    BY <1>2, <2>4
  <2>7. Arrived(k)'
    BY <1>0, <1>1, <1>9, <2>1, <2>4, <2>5, <2>6 DEF StreamInv, Arrived, FilesAreCounted
  <2> QED BY <1>4, <1>5, <2>3, <2>7 DEF StreamInv
<1>10. CASE receiver[k] = "showing" /\ receiver' = [receiver EXCEPT ![k] = "failed"]
  <2>1. receiver'[k] = "failed"
    BY <1>0, <1>10, StreamTypes
  <2>2. Stage(k)'
    BY <1>0, <1>1, <1>10, <2>1 DEF StreamInv, Stage
  <2>3. Arrived(k)'
    BY <1>0, <1>1, <1>10, <2>1 DEF StreamInv, Arrived
  <2> QED BY <1>4, <1>5, <2>2, <2>3 DEF StreamInv
<1> QED BY <1>3, <1>6, <1>7, <1>8, <1>9, <1>10

\* A stream opens: it is the next one, of which there is nothing yet.
LEMMA OpensKeeps ==
    ASSUME Screen!ScreenPlansAssumption, ScreenInv, NEW how \in {"single", "stream", "files"},
           Screen!Opens(how),
           UNCHANGED <<Screen!windowsVars, Screen!helperVars, Screen!pipeVars, canvas, applied,
                       Screen!boundVars>>,
           endedStreams \subseteq endedStreams'
    PROVE  \A j \in Screen!Stream : StreamInv(j)'
<1> USE DEF Screen!ScreenPlansAssumption
<1>0. ScreenState /\ \A j \in Screen!Stream : StreamInv(j)
  BY DEF ScreenInv
<1>1. PICK k \in Screen!Stream : k = streams + 1 /\ k > streams /\ streams' = k
  <2>1. streams + 1 \in Screen!Stream /\ streams + 1 > streams /\ streams' = streams + 1
    BY <1>0 DEF ScreenState, Screen!Opens, Screen!Stream
  <2> QED BY <2>1
<1>2. UNCHANGED <<helper, helperSession, lastImage, images, pipe, wire, cutStreams, canvas,
                  applied, screenPlan>>
  BY DEF Screen!helperVars, Screen!pipeVars, Screen!boundVars
<1>3. mode' = [mode EXCEPT ![k] = how] /\ receiver' = [receiver EXCEPT ![k] = "dialing"]
  BY <1>1 DEF Screen!Opens
<1>4. ASSUME NEW j \in Screen!Stream \ {k} PROVE StreamInv(j)'
  <2>1. j > streams' => j > streams
    BY <1>0, <1>1 DEF ScreenState, Screen!Stream
  <2>2. Untouches(j)
    BY <1>0, <1>2, <1>3, <2>1, StreamTypes DEF Untouches
  <2> QED BY <1>0, <2>2, StreamUntouched
<1>5. StreamInv(k)'
  <2>1. /\ mode'[k] = how /\ receiver'[k] = "dialing"
        /\ helper[k] = "no" /\ images[k] = <<>> /\ applied[k] = 0 /\ wire[k] = <<>>
        /\ pipe[k] = "no"
    BY <1>0, <1>1, <1>3, StreamTypes DEF StreamInv, Stage
  <2>2. ~(k > streams') /\ Len(<<>>) = 0 /\ screenPlan.count \in Nat
    BY <1>0, <1>1 DEF ScreenState, Screen!Stream
  <2>3. Stage(k)' /\ Arrived(k)'
    BY <1>2, <2>1, <2>2 DEF Stage, Arrived
  <2>4. Encoding(k)' /\ Wire(k)'
    BY <1>0, <1>1, <1>2, <2>1, <2>2 DEF Encoding, Wire, StreamInv
  <2> QED BY <2>3, <2>4 DEF StreamInv
<1> QED BY <1>4, <1>5

\* Every step keeps what is said of every stream.
LEMMA StreamsNext ==
    ASSUME Screen!ScreenPlansAssumption, ScreenInv, Screen!Next
    PROVE \A j \in Screen!Stream : StreamInv(j)'
<1>0. ScreenState /\ \A j \in Screen!Stream : StreamInv(j)
  BY DEF ScreenInv
<1>1. ASSUME NEW k \in Screen!Stream, StreamInv(k)', Others(k)
      PROVE \A j \in Screen!Stream : StreamInv(j)'
  BY <1>0, <1>1, StreamUntouched DEF Others
<1>2. ASSUME \A j \in Screen!Stream : Untouches(j) PROVE \A j \in Screen!Stream : StreamInv(j)'
  BY <1>0, <1>2, StreamUntouched
<1>3. ASSUME NEW k \in Screen!Stream,
             \/ Screen!Launch(k) \/ Screen!LaunchFails(k) \/ Screen!Capture(k)
             \/ Screen!CaptureFails(k) \/ Screen!Tick(k)
             \/ Screen!HelperIsClosed(k) \/ Screen!HelperEOF(k) \/ Screen!DrainTimeout(k)
             \/ Screen!RelayEnds(k) \/ Screen!LinkFails(k)
             \/ Screen!ReadFrame(k) \/ Screen!ReadFails(k) \/ Screen!SetFrame(k)
             \/ Screen!Synchronize(k) \/ Screen!WritePNG(k)
      PROVE  \A j \in Screen!Stream : StreamInv(j)'
  <2>1. StreamInv(k)' /\ Others(k)
    BY <1>3, LaunchesKeep, CaptureKeeps, HelperKeeps, ClosesKeep, ReadsKeep, ReceiverKeeps
  <2> QED BY <1>1, <2>1
<1>4. ASSUME NEW k \in Screen!Stream, Screen!Interrupt(k)
      PROVE \A j \in Screen!Stream : StreamInv(j)'
  <2>1. /\ UNCHANGED <<mode, helper, helperSession, lastImage, images, pipe, wire, receiver,
                       canvas, applied, screenPlan,
                       streams, cutStreams>>
        /\ endedStreams \subseteq endedStreams'
    BY <1>4 DEF Screen!Interrupt, Screen!helperVars, Screen!pipeVars, Screen!receiverVars
  <2> QED BY <1>2, <2>1 DEF Untouches
<1>5. ASSUME NEW how \in {"single", "stream"}, Screen!Start(how)
      PROVE \A j \in Screen!Stream : StreamInv(j)'
  BY <1>5, OpensKeeps DEF Screen!Start
<1>6. ASSUME Screen!RunCLI PROVE \A j \in Screen!Stream : StreamInv(j)'
  BY <1>6, OpensKeeps DEF Screen!RunCLI
<1>7. ASSUME Screen!Stop \/ Screen!CloseWindow \/ Screen!ShowPosted
      PROVE \A j \in Screen!Stream : StreamInv(j)'
  <2>1. /\ UNCHANGED <<mode, helper, helperSession, lastImage, images, pipe, wire, receiver,
                       canvas, applied, screenPlan,
                       streams, cutStreams>>
        /\ endedStreams \subseteq endedStreams'
    BY <1>7 DEF Screen!Stop, Screen!CloseWindow, Screen!ShowPosted, Screen!helperVars,
                Screen!pipeVars, Screen!receiverVars, Screen!startVars, Screen!boundVars
  <2> QED BY <1>2, <2>1 DEF Untouches
<1>8. ASSUME NEW s \in Session, Screen!Draws(s) \/ Screen!Detach(s)
                 \/ \E ways \in SUBSET {"gdi", "dxgi"} : Screen!Switches(s, ways)
      PROVE  \A j \in Screen!Stream : StreamInv(j)'
  <2>1. UNCHANGED <<mode, helper, helperSession, lastImage, images, pipe, wire, receiver, canvas,
                    applied, screenPlan,
                    streams, cutStreams, endedStreams>>
    BY <1>8 DEF Screen!Draws, Screen!Detach, Screen!Switches, Screen!helperVars, Screen!pipeVars,
                Screen!receiverVars, Screen!startVars
  <2> QED BY <1>2, <2>1 DEF Untouches
<1> QED BY <1>3, <1>4, <1>5, <1>6, <1>7, <1>8 DEF Screen!Next

\* A step that does not touch what the window shows, nor its stream's image.
LEMMA QuietForTheViewer ==
    ASSUME Viewed, UNCHANGED <<streams, closed, frame, posted, bitmap, undrawn>>,
           streams = 1 => /\ receiver'[1] = "posting" <=> receiver[1] = "posting"
                          /\ receiver[1] = "posting" => canvas'[1] = canvas[1]
    PROVE  Viewed'
BY DEF Viewed

\* What the window shows, through a step.
LEMMA ViewedNext == ASSUME Screen!ScreenPlansAssumption, ScreenInv, Screen!Next PROVE Viewed'
<1> USE DEF Screen!ScreenPlansAssumption
<1>0. ScreenState /\ Viewed /\ \A j \in Screen!Stream : StreamInv(j)
  BY DEF ScreenInv
<1>1. streams \in Nat /\ (streams = 1 => 1 \in Screen!Stream)
  BY <1>0 DEF ScreenState, Screen!Stream
<1>2. ASSUME UNCHANGED <<streams, closed, frame, posted, bitmap, undrawn, receiver, canvas>>
      PROVE  Viewed'
  BY <1>0, <1>2, QuietForTheViewer
<1>3. ASSUME NEW k \in Screen!Stream,
             \/ Screen!Capture(k) \/ Screen!CaptureFails(k) \/ Screen!Tick(k)
             \/ Screen!HelperIsClosed(k) \/ Screen!HelperEOF(k)
             \/ Screen!DrainTimeout(k) \/ Screen!RelayEnds(k) \/ Screen!LinkFails(k)
             \/ Screen!Interrupt(k)
      PROVE  Viewed'
  <2>1. UNCHANGED <<streams, closed, frame, posted, bitmap, undrawn, receiver, canvas>>
    BY <1>3 DEF Screen!Capture, Screen!CaptureFails, Screen!Tick, Screen!HelperIsClosed,
                Screen!HelperEOF, Screen!DrainTimeout, Screen!RelayEnds, Screen!LinkFails,
                Screen!Interrupt, Screen!receiverVars, Screen!viewVars, Screen!startVars
  <2> QED BY <1>2, <2>1
<1>4. ASSUME NEW s \in Session, Screen!Draws(s) \/ Screen!Detach(s)
                 \/ \E ways \in SUBSET {"gdi", "dxgi"} : Screen!Switches(s, ways)
      PROVE  Viewed'
  <2>1. UNCHANGED <<streams, closed, frame, posted, bitmap, undrawn, receiver, canvas>>
    BY <1>4 DEF Screen!Draws, Screen!Detach, Screen!Switches, Screen!receiverVars,
                Screen!viewVars, Screen!startVars
  <2> QED BY <1>2, <2>1
<1>5. CASE Screen!Stop
  <2>1. UNCHANGED <<streams, closed, frame, posted, bitmap, undrawn, receiver, canvas>>
    BY <1>5 DEF Screen!Stop, Screen!receiverVars
  <2> QED BY <1>2, <2>1
<1>6. CASE Screen!CloseWindow
  BY <1>6 DEF Screen!CloseWindow, Viewed
<1>7. ASSUME NEW k \in Screen!Stream,
             Screen!Launch(k) \/ Screen!LaunchFails(k) \/ Screen!ReadFrame(k)
                 \/ Screen!ReadFails(k) \/ Screen!WritePNG(k)
      PROVE  Viewed'
  <2>1. UNCHANGED <<streams, closed, frame, posted, bitmap, undrawn>>
    BY <1>7 DEF Screen!Launch, Screen!LaunchFails, Screen!ReadFrame, Screen!ReadFails,
                Screen!WritePNG, Screen!viewVars, Screen!startVars
  <2>2. PICK to \in {"reading", "over", "showing", "failed"} : receiver' = [receiver EXCEPT ![k] = to]
    BY <1>7 DEF Screen!Launch, Screen!LaunchFails, Screen!Runs, Screen!ReadFrame,
                Screen!ReadFails, Screen!WritePNG, Screen!Goes
  <2>3. receiver[k] # "posting" /\ (canvas' = canvas \/ \E c : canvas' = [canvas EXCEPT ![k] = c])
    BY <1>7 DEF Screen!Launch, Screen!LaunchFails, Screen!ReadFrame, Screen!ReadFails,
                Screen!WritePNG
  <2>4. ASSUME streams = 1
        PROVE  /\ receiver'[1] = "posting" <=> receiver[1] = "posting"
               /\ receiver[1] = "posting" => canvas'[1] = canvas[1]
    <3>1. CASE k = 1
      BY <1>0, <2>2, <2>3, <3>1, StreamTypes
    <3>2. CASE k # 1
      BY <1>0, <1>1, <2>2, <2>3, <2>4, <3>2, StreamTypes
    <3> QED BY <3>1, <3>2
  <2> QED BY <1>0, <2>1, <2>4, QuietForTheViewer
<1>8. ASSUME NEW k \in Screen!Stream, Screen!SetFrame(k) \/ Screen!Synchronize(k) PROVE Viewed'
  <2>1. k <= streams /\ k \in Nat /\ k >= 1
    <3>1. receiver[k] # "no"
      BY <1>8 DEF Screen!SetFrame, Screen!Synchronize
    <3>2. ~(k > streams)
      BY <1>0, <3>1 DEF StreamInv, Stage
    <3> QED BY <1>1, <3>2 DEF Screen!Stream
  <2>2. SUFFICES ASSUME streams <= 1, ~closed PROVE Viewed'
    <3>1. UNCHANGED <<streams, closed>>
      BY <1>8 DEF Screen!SetFrame, Screen!Synchronize, Screen!startVars
    <3> QED BY <3>1 DEF Viewed
  <2>3. k = 1 /\ streams = 1
    BY <1>1, <2>1, <2>2
  <2>4. CASE Screen!SetFrame(k)
    <3>1. /\ frame' = canvas[1] /\ canvas' = canvas /\ streams' = streams
          /\ receiver' = [receiver EXCEPT ![1] = "posting"]
      BY <2>2, <2>3, <2>4 DEF Screen!SetFrame, Screen!Goes, Screen!startVars
    <3>2. receiver'[1] = "posting"
      BY <1>0, <1>1, <2>3, <3>1, StreamTypes
    <3> QED BY <2>3, <3>1, <3>2 DEF Viewed
  <2>5. CASE Screen!Synchronize(k)
    <3>1. /\ receiver[1] = "posting" /\ posted' = Append(posted, canvas[1]) /\ streams' = streams
          /\ frame' = frame
          /\ receiver' = [receiver EXCEPT ![1] = IF mode[1] = "single" THEN "over" ELSE "reading"]
      BY <2>3, <2>5 DEF Screen!Synchronize, Screen!Goes, Screen!Goon, Screen!startVars
    <3>2. receiver'[1] # "posting"
      BY <1>0, <1>1, <2>3, <3>1, StreamTypes
    <3>3. frame = canvas[1]
      BY <1>0, <2>2, <2>3, <3>1 DEF Viewed
    <3>4. posted' # <<>> /\ posted'[Len(posted')] = canvas[1]
      <4>1. posted \in Seq(Screen!Image) /\ canvas[1] \in Screen!Image
        BY <1>0, <1>1, <2>3, StreamTypes DEF ScreenState
      <4> QED BY <3>1, <4>1
    <3> QED BY <2>3, <3>1, <3>2, <3>3, <3>4 DEF Viewed
  <2> QED BY <1>8, <2>4, <2>5
<1>9. CASE Screen!ShowPosted
  <2>1. /\ posted # <<>> /\ (bitmap' = Head(posted) \/ undrawn') /\ posted' = Tail(posted)
        /\ posted \in Seq(Screen!Image)
        /\ UNCHANGED <<streams, closed, frame, receiver, canvas>>
    BY <1>0, <1>9 DEF Screen!ShowPosted, Screen!receiverVars, Screen!startVars, ScreenState
  <2>2. CASE Len(posted) = 1
    <3>1. (bitmap' = posted[1] \/ undrawn') /\ posted' = <<>>
      BY <2>1, <2>2
    <3> QED BY <1>0, <2>1, <2>2, <3>1 DEF Viewed
  <2>3. CASE Len(posted) # 1
    <3>1. posted' # <<>> /\ posted'[Len(posted')] = posted[Len(posted)]
      <4>1. Len(posted) \in Nat /\ Len(posted) > 1
        <5>1. posted \in Seq(Screen!Image) /\ posted # <<>>
          BY <2>1
        <5>2. Len(posted) \in Nat /\ Len(posted) # 0
          BY <5>1
        <5> DEFINE n == Len(posted)
        <5>3. n \in Nat /\ n # 0 /\ n # 1
          BY <2>3, <5>2
        <5> HIDE DEF n
        <5>4. n > 1
          BY <5>3
        <5> QED BY <5>3, <5>4 DEF n
      <4>2. Len(Tail(posted)) = Len(posted) - 1
            /\ \A i \in 1..Len(posted) - 1 : Tail(posted)[i] = posted[i + 1]
        BY <2>1, <4>1
      <4>3. Len(posted) - 1 \in 1..Len(posted) - 1 /\ (Len(posted) - 1) + 1 = Len(posted)
        BY <4>1
      <4>4. Tail(posted)[Len(posted) - 1] = posted[Len(posted)]
        BY <4>2, <4>3
      <4>5. Tail(posted) # <<>>
        <5>1. Len(Tail(posted)) # 0
          <6> DEFINE n == Len(posted)
                     m == Len(Tail(posted))
          <6>1. n \in Nat /\ n > 1 /\ m = n - 1
            BY <4>1, <4>2
          <6> HIDE DEF n, m
          <6>2. m # 0
            BY <6>1
          <6> QED BY <6>2 DEF m
        <5>2. Len(<<>>) = 0
          OBVIOUS
        <5> QED BY <5>1, <5>2
      <4> QED BY <2>1, <4>2, <4>4, <4>5
    <3> QED BY <1>0, <2>1, <3>1 DEF Viewed
  <2> QED BY <2>2, <2>3
<1>10. CASE Screen!RunCLI \/ \E how \in {"single", "stream"} : Screen!Start(how)
  <2>1. /\ streams' = streams + 1 /\ receiver' = [receiver EXCEPT ![streams + 1] = "dialing"]
        /\ UNCHANGED <<closed, frame>> /\ streams + 1 \in Screen!Stream
    <3>1. /\ streams' = streams + 1 /\ receiver' = [receiver EXCEPT ![streams + 1] = "dialing"]
          /\ UNCHANGED <<closed, frame>> /\ streams < screenPlan.streams
      BY <1>10 DEF Screen!RunCLI, Screen!Start, Screen!Opens, Screen!viewVars
    <3> QED BY <1>0, <3>1 DEF ScreenState, Screen!Stream
  <2>2. SUFFICES ASSUME streams' <= 1, ~closed' PROVE Viewed'
    BY DEF Viewed
  <2>3. streams = 0 /\ streams' = 1 /\ frame' = None
    BY <1>0, <1>1, <2>1, <2>2 DEF Viewed
  <2>4. receiver'[1] = "dialing"
    BY <1>0, <2>1, <2>3, StreamTypes
  <2> QED BY <2>3, <2>4 DEF Viewed
<1> QED BY <1>3, <1>4, <1>5, <1>6, <1>7, <1>8, <1>9, <1>10 DEF Screen!Next

\* The invariant is inductive,
LEMMA ScreenInvNext == Screen!ScreenPlansAssumption /\ ScreenInv /\ Screen!Next => ScreenInv'
BY ScreenStateNext, StreamsNext, ViewedNext DEF ScreenInv

\* and depends on the variables of the part only.
LEMMA ScreenInvSame == ScreenInv /\ UNCHANGED Screen!vars => ScreenInv'
<1> SUFFICES ASSUME ScreenInv, UNCHANGED Screen!vars PROVE ScreenInv'
  OBVIOUS
<1>1. /\ UNCHANGED <<screen, streams, active, screenPlan, endedStreams, cutStreams, mode, helper,
                     helperSession, lastImage,
                     images, pipe, wire, receiver, canvas>>
      /\ UNCHANGED <<applied, closed, frame, bitmap, posted, undrawn>>
  BY DEF Screen!vars, Screen!windowsVars, Screen!helperVars, Screen!pipeVars, Screen!receiverVars,
         Screen!viewVars, Screen!startVars, Screen!boundVars
<1>2. ScreenState'
  BY <1>1 DEF ScreenInv, ScreenState
<1>3. \A j \in Screen!Stream : StreamInv(j)'
  BY <1>1, StreamUntouched DEF ScreenInv, Untouches
<1>4. Viewed'
  BY <1>1 DEF ScreenInv, Viewed
<1> QED BY <1>2, <1>3, <1>4 DEF ScreenInv

-----------------------------------------------------------------------------
(* The parts together: the invariant of the part that runs.                *)

ProgramsInv ==
    /\ part = "dialing" => DialingInv
    /\ part = "log" => LogInv
    /\ part = "window" => WindowInv
    /\ part = "profiles" => ProfilesInv
    /\ part = "setup" => SetupInv
    /\ part = "winrm" => WinRMInv
    /\ part = "screen" => ScreenInv

\* The assumptions on the constants are the parts' own.
LEMMA PartsConstants ==
    /\ DialingConstants /\ LogConstants /\ WindowConstants /\ ProfilesConstants /\ SetupConstants
    /\ WinRM!WinRMAssumption /\ Screen!ScreenPlansAssumption
BY ProgramsAssumption DEF DialingConstants, LogConstants, WindowConstants, ProfilesConstants,
                          SetupConstants

\* The part that runs begins in its own initial states.
LEMMA ProgramsBegin == Init => ProgramsInv
<1> SUFFICES ASSUME Init PROVE ProgramsInv
  OBVIOUS
<1>1. ASSUME part = "dialing" PROVE DialingInv
  <2>1. Dialing!Init
    BY <1>1 DEF Init
  <2> QED  BY <2>1, PartsConstants, DialingBegins
<1>2. ASSUME part = "log" PROVE LogInv
  <2>1. Logging!Init
    BY <1>2 DEF Init
  <2> QED  BY <2>1, PartsConstants, LogBegins
<1>3. ASSUME part = "window" PROVE WindowInv
  <2>1. Window!Init
    BY <1>3 DEF Init
  <2> QED  BY <2>1, PartsConstants, WindowBegins
<1>4. ASSUME part = "profiles" PROVE ProfilesInv
  <2>1. Profiles!Init
    BY <1>4 DEF Init
  <2> QED  BY <2>1, PartsConstants, ProfilesBegin
<1>5. ASSUME part = "setup" PROVE SetupInv
  <2>1. Setup!Init
    BY <1>5 DEF Init
  <2> QED  BY <2>1, PartsConstants, SetupBegins
<1>6. ASSUME part = "winrm" PROVE WinRMInv
  <2>1. WinRM!Init
    BY <1>6 DEF Init
  <2> QED  BY <2>1, PartsConstants, WinRMInit
<1>7. ASSUME part = "screen" PROVE ScreenInv
  <2>1. Screen!Init
    BY <1>7 DEF Init
  <2> QED  BY <2>1, PartsConstants, ScreenBegins
<1> QED  BY <1>1, <1>2, <1>3, <1>4, <1>5, <1>6, <1>7 DEF ProgramsInv

\* It goes on by its own steps: those of the others are not taken.
LEMMA ProgramsGoOn == ProgramsInv /\ [Next]_vars => ProgramsInv'
<1> SUFFICES ASSUME ProgramsInv, [Next]_vars PROVE ProgramsInv'
  OBVIOUS
<1>0. part' = part
  BY DEF Next, vars, OnlyDialing, OnlyLogging, OnlyPairing, OnlyWindow, OnlyProfiles, OnlySetup,
         OnlyWinRM, OnlyScreen
<1>1. ASSUME part = "dialing" PROVE DialingInv'
  <2>1. DialingInv
    BY <1>1 DEF ProgramsInv
  <2>2. CASE Next
    <3>1. Dialing!Next
      BY <1>1, <2>2 DEF Next
    <3> QED  BY <2>1, <3>1, PartsConstants, DialingTypesNext
  <2>3. CASE UNCHANGED vars
    <3>1. UNCHANGED Dialing!vars
      BY <2>3 DEF vars, DialingVars, Dialing!vars, Dialing!markVars, Dialing!saveVars
    <3> QED  BY <2>1, <3>1, DialingTypesSame
  <2> QED  BY <2>2, <2>3
<1>2. ASSUME part = "log" PROVE LogInv'
  <2>1. LogInv
    BY <1>2 DEF ProgramsInv
  <2>2. CASE Next
    <3>1. Logging!Next
      BY <1>2, <2>2 DEF Next
    <3> QED  BY <2>1, <3>1, PartsConstants, LogInvNext
  <2>3. CASE UNCHANGED vars
    <3>1. UNCHANGED Logging!vars
      BY <2>3 DEF vars, LoggingVars, Logging!vars, Logging!fileVars, Logging!hubVars,
                  Logging!uploadVars
    <3> QED  BY <2>1, <3>1, LogInvSame
  <2> QED  BY <2>2, <2>3
<1>3. ASSUME part = "window" PROVE WindowInv'
  <2>1. WindowInv
    BY <1>3 DEF ProgramsInv
  <2>2. CASE Next
    <3>1. Window!Next
      BY <1>3, <2>2 DEF Next
    <3> QED  BY <2>1, <3>1, PartsConstants, WindowInvNext
  <2>3. CASE UNCHANGED vars
    <3>1. UNCHANGED Window!vars
      BY <2>3 DEF vars, WindowVars, Window!vars, Window!tunnelVars, Window!connVars,
                  Window!shownVars, Window!windowVars
    <3> QED  BY <2>1, <3>1, WindowInvSame
  <2> QED  BY <2>2, <2>3
<1>4. ASSUME part = "profiles" PROVE ProfilesInv'
  <2>1. ProfilesInv
    BY <1>4 DEF ProgramsInv
  <2>2. CASE Next
    <3>1. Profiles!Next
      BY <1>4, <2>2 DEF Next
    <3> QED  BY <2>1, <3>1, PartsConstants, ProfilesInvNext
  <2>3. CASE UNCHANGED vars
    <3>1. UNCHANGED Profiles!vars
      BY <2>3 DEF vars, ProfilesVars, Profiles!vars
    <3> QED  BY <2>1, <3>1, ProfilesInvSame
  <2> QED  BY <2>2, <2>3
<1>5. ASSUME part = "setup" PROVE SetupInv'
  <2>1. SetupInv
    BY <1>5 DEF ProgramsInv
  <2>2. CASE Next
    <3>1. Setup!Next
      BY <1>5, <2>2 DEF Next
    <3> QED  BY <2>1, <3>1, PartsConstants, SetupInvNext
  <2>3. CASE UNCHANGED vars
    <3>1. UNCHANGED Setup!vars
      BY <2>3 DEF vars, SetupVars, Setup!vars, Setup!machine, Setup!locals
    <3> QED  BY <2>1, <3>1, SetupInvSame
  <2> QED  BY <2>2, <2>3
<1>6. ASSUME part = "winrm" PROVE WinRMInv'
  <2>1. WinRMInv
    BY <1>6 DEF ProgramsInv
  <2>2. CASE Next
    <3>1. WinRM!Next
      BY <1>6, <2>2 DEF Next
    <3> QED  BY <2>1, <3>1, PartsConstants, WinRMInvNext
  <2>3. CASE UNCHANGED vars
    <3>1. UNCHANGED WinRM!vars
      BY <2>3 DEF vars, WinRMVars, WinRM!vars, WinRM!workerVars, WinRM!timerVars, WinRM!callVars
    <3> QED  BY <2>1, <3>1, WinRMInvSame
  <2> QED  BY <2>2, <2>3
<1>7. ASSUME part = "screen" PROVE ScreenInv'
  <2>1. ScreenInv
    BY <1>7 DEF ProgramsInv
  <2>2. CASE Next
    <3>1. Screen!Next
      BY <1>7, <2>2 DEF Next
    <3> QED  BY <2>1, <3>1, PartsConstants, ScreenInvNext
  <2>3. CASE UNCHANGED vars
    <3>1. UNCHANGED Screen!vars
      BY <2>3 DEF vars, ScreenVars, Screen!vars, Screen!windowsVars, Screen!helperVars,
                  Screen!pipeVars, Screen!receiverVars, Screen!viewVars, Screen!startVars,
                  Screen!boundVars
    <3> QED  BY <2>1, <3>1, ScreenInvSame
  <2> QED  BY <2>2, <2>3
<1> QED  BY <1>0, <1>1, <1>2, <1>3, <1>4, <1>5, <1>6, <1>7 DEF ProgramsInv

\* Every behaviour satisfies the invariant.
LEMMA ProgramsInvariant == Spec => []ProgramsInv
<1>1. Init => ProgramsInv
  BY ProgramsBegin
<1>2. ProgramsInv /\ [Next]_vars => ProgramsInv'
  BY ProgramsGoOn
<1> QED  BY <1>1, <1>2, PTL DEF Spec

\* Every variable of the part that runs has its type; that of LegacyPairing's list
\* of waiting sockets, which the code filters, is left to the model checker.
THEOREM ProgramsTypeCorrect == Spec => [](part # "pairing" => TypeOK)
<1>1. ProgramsInv => (part # "pairing" => TypeOK)
  BY PartsConstants, LogInvMeans, WindowInvMeans, ProfilesTypes, SetupInvMeans, WinRMInvMeans,
     ScreenInvMeans DEF ProgramsInv, TypeOK, DialingInv
<1> QED  BY <1>1, ProgramsInvariant, PTL

\* Through rotations, changes of date and failed writes, for whatever limits, the log
\* files of a day hold the latest of its lines, in order.
THEOREM LogFilesKeepTheLatest == Spec => []FilesKeepTheLatest
<1>1. ProgramsInv => FilesKeepTheLatest
  BY PartsConstants, LogInvMeans DEF ProgramsInv, FilesKeepTheLatest
<1> QED  BY <1>1, ProgramsInvariant, PTL

\* The home window shows no connection that is over, and counts no more than there are,
\* however connections, tunnels and saves overlap.
THEOREM WindowShowsWhatIsThere == Spec => []ShownConnectionsExist
<1>1. ProgramsInv => ShownConnectionsExist
  BY PartsConstants, WindowInvMeans DEF ProgramsInv, ShownConnectionsExist
<1> QED  BY <1>1, ProgramsInvariant, PTL

\* Every connection of the tunnel that runs is shown, and the count misses no more of them
\* than connections of earlier tunnels have ended, for any number of tunnels and connections.
THEOREM WindowMissesOnlyForStrays == Spec => []OnlyStraysAreMiscounted
<1>1. ProgramsInv => OnlyStraysAreMiscounted
  BY PartsConstants, WindowInvMeans DEF ProgramsInv, OnlyStraysAreMiscounted
<1> QED  BY <1>1, ProgramsInvariant, PTL

\* Whatever was edited, added, removed and imported, the home client loads what it saved.
THEOREM HomeSettingsSurvive == Spec => []SettingsSurviveRestart
<1>1. ProgramsInv => SettingsSurviveRestart
  BY PartsConstants, SavedSurvives, ProfilesTypes DEF ProgramsInv, SettingsSurviveRestart
<1> QED  BY <1>1, ProgramsInvariant, PTL

\* Of however many programs that install at once, the last that succeeds leaves an
\* installation all of whose parts are its own.
THEOREM LastInstallIsWhole == Spec => []InstallsAgree
<1>1. ProgramsInv => InstallsAgree
  BY PartsConstants, SetupInvMeans DEF ProgramsInv, InstallsAgree
<1> QED  BY <1>1, ProgramsInvariant, PTL

\* Whatever single step of an install or of an update fails, the Work service that it
\* found running runs again at its end, but for the two ways that ProductSetup names.
THEOREM WorkServiceSurvives == Spec => []WorkSurvives
<1>1. ProgramsInv => WorkSurvives
  BY PartsConstants, SetupInvMeans DEF ProgramsInv, WorkSurvives
<1> QED  BY <1>1, ProgramsInvariant, PTL

\* A WinRM command is answered by its own answer, from a session of its own login,
\* whatever sessions fail, are closed or time out.
THEOREM WinRMCommandsAreAnswered == Spec => []CommandIsAnswered
<1>1. ProgramsInv => CommandIsAnswered
  BY PartsConstants, WinRMInvMeans DEF ProgramsInv, CommandIsAnswered
<1> QED  BY <1>1, ProgramsInvariant, PTL

\* What the home side draws of a screen is what the helper captured, for any number of
\* streams, sessions, tiles and frames.
THEOREM CapturedScreenIsShown == Spec => []ScreenIsShown
<1>1. ProgramsInv => ScreenIsShown
  BY PartsConstants, ScreenInvMeans DEF ProgramsInv, ScreenIsShown
<1> QED  BY <1>1, ProgramsInvariant, PTL

=============================================================================
