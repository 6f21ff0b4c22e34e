-------------------------- MODULE RelaySessionProofs --------------------------
(***************************************************************************)
(* Theorems about RelaySession, for every number of sockets, failures and  *)
(* messages, every queue capacity, and with or without a resume window.    *)
(***************************************************************************)
EXTENDS RelaySession, FiniteSetTheorems, TLAPS

Telling == pc \in {"tellAgent", "tellClient"}

\* The relay has never heard of socket n of side s.
Unknown(s, n) ==
    /\ told[s][n] = 0 /\ handler[s][n] = "none" /\ ~noticed[s][n]
    /\ held[s] # n
    /\ \A i \in 1..Len(queue[s]) : queue[s][i] # n

\* What has been attached, held or told was opened by its side.
Opened == \A s \in Sides, n \in Conns : peer[s][n] = "none" => Unknown(s, n)

\* A socket that was told to go on and is open is its side's endpoint, of the
\* current generation; while the relay waits there is none.
ToldIsEndpoint ==
    /\ endpoint[Agent].gen = endpoint[Client].gen
    /\ \A s \in Sides, n \in Conns :
         open[s][n] /\ told[s][n] # 0 =>
           pc # "wait" /\ n = endpoint[s].conn /\ told[s][n] = endpoint[s].gen

\* The attachments of a bridge are its endpoints.
HeldIsEndpoint ==
    /\ Telling => \A s \in Sides : held[s] # 0 /\ held[s] = endpoint[s].conn
    /\ pc = "select" => \A s \in Sides : held[s] \in {0, endpoint[s].conn}

SessionInv == TypeOK /\ Opened /\ ToldIsEndpoint /\ HeldIsEndpoint

\* What readLoop has seen end is over.
NoticedIsOver ==
    \A s \in Sides, n \in Conns : noticed[s][n] => ~open[s][n] \/ ~InUse(s, n)

\* A side has a running pump, or the report of one that has stopped, or neither
\* and is not marked as running.
OnePump ==
    /\ \A s \in Sides : \A p, q \in pump[s] : p = q
    /\ \A s \in Sides : ~running[s] => pump[s] = {}
    /\ \A i \in 1..Len(results) : pump[results[i].from] = {} /\ running[results[i].from]
    /\ \A i, j \in 1..Len(results) : results[i].from = results[j].from => i = j

\* A socket is queued once, and held once it has been taken.
QueuedOnce ==
    \A s \in Sides :
      /\ \A i, j \in 1..Len(queue[s]) : queue[s][i] = queue[s][j] => i = j
      /\ \A i \in 1..Len(queue[s]) :
           handler[s][queue[s][i]] # "queuing" /\ queue[s][i] # held[s]
      /\ held[s] # 0 => handler[s][held[s]] # "queuing"

\* A socket that was told to go on will not be told again.
ToldIsTaken ==
    \A s \in Sides, n \in Conns : told[s][n] # 0 =>
      /\ handler[s][n] # "queuing"
      /\ \A i \in 1..Len(queue[s]) : queue[s][i] # n
      /\ held[s] = n =>
           pc \in {"select", "returned", "over"} \/ (pc = "tellClient" /\ s = Agent)

\* No socket is ahead of the endpoints; those of a bridge were told to go on.
Bridged ==
    /\ \A s \in Sides, n \in Conns : told[s][n] <= endpoint[s].gen
    /\ Telling => \A s \in Sides : endpoint[s].gen > 0
    /\ pc = "tellClient" /\ open[Agent][held[Agent]] => told[Agent][held[Agent]] # 0
    /\ pc = "select" => \A s \in Sides :
         /\ endpoint[s].conn \in Conns /\ endpoint[s].gen > 0
         /\ told[s][endpoint[s].conn] = endpoint[s].gen

\* A pump reads from a socket of its own generation.
PumpIsTold ==
    \A s \in Sides : \A p \in pump[s] :
      p.src \in Conns /\ p.gen > 0 /\ told[s][p.src] = p.gen

\* What has been written was read from sockets no newer than the pump's.
GotIsOld ==
    \A s \in Sides, n \in Conns : \A i \in 1..Len(got[s][n]) :
      /\ got[s][n][i] \in Conns /\ told[Other[s]][got[s][n][i]] # 0
      /\ \A p \in pump[Other[s]] : told[Other[s]][got[s][n][i]] <= p.gen

OrderInv == QueuedOnce /\ ToldIsTaken /\ Bridged /\ PumpIsTold /\ GotIsOld /\ OldBeforeNew

-----------------------------------------------------------------------------

LEMMA ConstantTypes ==
    /\ Agent \in Sides /\ Client \in Sides /\ Agent # Client
    /\ Other \in [Sides -> Sides] /\ Sends \in [Sides -> Nat]
    /\ MaxConn \in Nat /\ MaxConn > 0 /\ MaxFail \in Nat /\ QueueCap \in Nat /\ QueueCap > 0
    /\ 1 \in Conns /\ 0 \notin Conns /\ Conns \subseteq Nat /\ Conns \subseteq 0..MaxConn
BY SidesAssumption, SizesAssumption DEF Sides, Other, Sends, Conns

\* One socket's entry of a table is changed.
LEMMA Cell ==
    ASSUME NEW S, NEW f \in [Sides -> [Conns -> S]], NEW s \in Sides, NEW n, NEW v,
           n \in Conns => v \in S
    PROVE  /\ [f EXCEPT ![s][n] = v] \in [Sides -> [Conns -> S]]
           /\ \A t \in Sides, m \in Conns :
                [f EXCEPT ![s][n] = v][t][m] = IF t = s /\ m = n THEN v ELSE f[t][m]
OBVIOUS

\* Types of the tables, one by one.
LEMMA TableTypes ==
    ASSUME TypeOK
    PROVE  /\ peer \in [Sides -> [Conns -> PeerStates]]
           /\ open \in [Sides -> [Conns -> BOOLEAN]]
           /\ inbox \in [Sides -> [Conns -> Nat]]
           /\ told \in [Sides -> [Conns -> Nat]]
           /\ handler \in [Sides -> [Conns -> HandlerStates]]
           /\ noticed \in [Sides -> [Conns -> BOOLEAN]]
           /\ queue \in [Sides -> Seq(Conns)]
           /\ sent \in [Sides -> Nat]
BY DEF TypeOK

LEMMA PumpTableTypes ==
    ASSUME TypeOK
    PROVE  pump \in [Sides -> SUBSET Pump] /\ running \in [Sides -> BOOLEAN]
BY DEF TypeOK

LEMMA EntryTypes ==
    ASSUME TypeOK, NEW s \in Sides
    PROVE  /\ sent[s] \in Nat
           /\ \A n \in Conns : inbox[s][n] \in Nat
<1>1. inbox \in [Sides -> [Conns -> Nat]] /\ sent \in [Sides -> Nat]
  BY DEF TypeOK
<1> QED BY <1>1

LEMMA ShutType ==
    ASSUME TypeOK, NEW C
    PROVE  Shut(C) \in [Sides -> [Conns -> BOOLEAN]]
BY DEF TypeOK, Shut

LEMMA DoneType ==
    ASSUME TypeOK, NEW C
    PROVE  Done(C) \in [Sides -> [Conns -> HandlerStates]]
BY DEF TypeOK, Done, HandlerStates

LEMMA PumpsType ==
    ASSUME TypeOK, NEW D
    PROVE  PumpsWith(D) \in [Sides -> SUBSET Pump]
<1>1. \A s \in Sides :
        [pc |-> "read", src |-> endpoint[s].conn, gen |-> endpoint[s].gen] \in Pump
  BY DEF TypeOK, Endpoint, Pump
<1> QED BY <1>1 DEF TypeOK, PumpsWith

LEMMA NobodyType == Nobody \in [Sides -> 0..MaxConn]
BY ConstantTypes DEF Nobody

\* What is taken from a queue was a socket, and the rest is a queue.
LEMMA QueueType ==
    ASSUME TypeOK, NEW s \in Sides, queue[s] # <<>>
    PROVE  /\ Head(queue[s]) \in Conns
           /\ [queue EXCEPT ![s] = Tail(@)] \in [Sides -> Seq(Conns)]
           /\ \A t \in Sides : Len([queue EXCEPT ![s] = Tail(@)][t]) <= QueueCap
<1>1. queue[s] \in Seq(Conns) /\ Len(queue[s]) <= QueueCap
  BY DEF TypeOK
<1>2. Head(queue[s]) \in Conns /\ Tail(queue[s]) \in Seq(Conns) /\ Len(Tail(queue[s])) <= QueueCap
  BY <1>1, ConstantTypes
<1> QED BY <1>2 DEF TypeOK

LEMMA InitType == Init => TypeOK
<1> SUFFICES ASSUME Init PROVE TypeOK
  OBVIOUS
<1> USE ConstantTypes
<1>1. peer \in [Sides -> [Conns -> PeerStates]] /\ open \in [Sides -> [Conns -> BOOLEAN]]
  BY DEF Init, PeerStates
<1>2. handler \in [Sides -> [Conns -> HandlerStates]]
  BY DEF Init, HandlerStates
<1>3. endpoint \in [Sides -> Endpoint]
  BY DEF Init, Endpoint
<1>4. pump \in [Sides -> SUBSET Pump]
  BY DEF Init, Pump
<1>5. pc \in RunnerStates /\ bridged \in BOOLEAN
  BY SizesAssumption DEF Init, RunnerStates
<1>6. running \in [Sides -> BOOLEAN]
  BY <1>5 DEF Init
<1>7. /\ got \in [Sides -> [Conns -> Seq(Nat)]] /\ results \in Seq(Result)
      /\ queue \in [Sides -> Seq(Conns)] /\ \A s \in Sides : Len(queue[s]) <= QueueCap
  BY DEF Init
<1>8. /\ ended \in [Sides -> BOOLEAN] /\ sent \in [Sides -> Nat] /\ done \in BOOLEAN
  BY DEF Init
<1>11. fails \in 0..MaxFail /\ held \in [Sides -> 0..MaxConn]
  BY DEF Init
<1>9. inbox \in [Sides -> [Conns -> Nat]] /\ noticed \in [Sides -> [Conns -> BOOLEAN]]
  BY DEF Init
<1>10. told \in [Sides -> [Conns -> Nat]]
  BY DEF Init
<1> QED BY <1>1, <1>2, <1>3, <1>4, <1>5, <1>6, <1>7, <1>8, <1>9, <1>10, <1>11 DEF TypeOK

-----------------------------------------------------------------------------
(* Types, one group of actions at a time.                                  *)

LEMMA SideTypes ==
    ASSUME TypeOK, NEW s \in Sides, NEW n \in Conns,
           \/ GiveUp(s, n) \/ SilentExpires(s, n) \/ Dial(s, n) \/ Send(s, n) \/ Lose(s, n)
           \/ Refused(s) \/ CloseSession(s) \/ ReportEnd
    PROVE  TypeOK'
<1> USE DEF sideVars, connVars, handlerVars, runVars, pumpVars, Leave
<1>0. ASSUME NEW v \in PeerStates
      PROVE  [peer EXCEPT ![s][n] = v] \in [Sides -> [Conns -> PeerStates]]
  BY Cell DEF TypeOK
<1>1. ASSUME GiveUp(s, n) PROVE TypeOK'
  <2>1. peer' \in [Sides -> [Conns -> PeerStates]]
    BY <1>0, <1>1, SizesAssumption DEF GiveUp, PeerStates
  <2>2. fails' \in 0..MaxFail
    BY <1>1, ConstantTypes DEF GiveUp, TypeOK
  <2> QED BY <1>1, <2>1, <2>2 DEF GiveUp, TypeOK
<1>2. ASSUME SilentExpires(s, n) PROVE TypeOK'
  <2>1. peer' \in [Sides -> [Conns -> PeerStates]]
    BY <1>0, <1>2 DEF SilentExpires, PeerStates
  <2> QED BY <1>2, <2>1 DEF SilentExpires, TypeOK
<1>3. ASSUME Dial(s, n) PROVE TypeOK'
  <2>1. peer' \in [Sides -> [Conns -> PeerStates]]
    BY <1>3 DEF Dial, PeerStates, TypeOK
  <2>4. open' = [open EXCEPT ![s][n] = TRUE] /\ handler' = [handler EXCEPT ![s][n] = "queuing"]
    BY <1>3 DEF Dial
  <2>5. [handler EXCEPT ![s][n] = "queuing"] \in [Sides -> [Conns -> HandlerStates]]
    BY Cell, TableTypes DEF HandlerStates
  <2>6. [open EXCEPT ![s][n] = TRUE] \in [Sides -> [Conns -> BOOLEAN]]
    BY Cell, TableTypes
  <2>2. open' \in [Sides -> [Conns -> BOOLEAN]]
    BY <2>4, <2>6
  <2>3. handler' \in [Sides -> [Conns -> HandlerStates]]
    BY <2>4, <2>5
  <2> QED BY <1>3, <2>1, <2>2, <2>3 DEF Dial, TypeOK
<1>4. ASSUME Send(s, n) PROVE TypeOK'
  <2>0. inbox[s][n] \in Nat /\ sent[s] \in Nat
    BY EntryTypes
  <2>1. inbox[s][n] + 1 \in Nat /\ sent[s] + 1 \in Nat
    BY <2>0
  <2>2. inbox' \in [Sides -> [Conns -> Nat]]
    BY <1>4, <2>1, Cell, TableTypes DEF Send
  <2>3. sent' \in [Sides -> Nat]
    BY <1>4, <2>1, TableTypes DEF Send
  <2> QED BY <1>4, <2>2, <2>3 DEF Send, TypeOK
<1>5. ASSUME Lose(s, n) PROVE TypeOK'
  <2>0. inbox[s][n] \in Nat
    BY EntryTypes
  <2>1. inbox[s][n] > 0 => inbox[s][n] - 1 \in Nat
    BY <2>0
  <2>2. inbox' \in [Sides -> [Conns -> Nat]]
    BY <1>5, <2>1, Cell, TableTypes DEF Lose
  <2> QED BY <1>5, <2>2 DEF Lose, TypeOK
<1>6. CASE Refused(s)
  BY <1>6 DEF Refused, TypeOK
<1>7. ASSUME CloseSession(s) PROVE TypeOK'
  <2>1. \A m \in Conns, v \in PeerStates :
          [peer EXCEPT ![s][m] = v] \in [Sides -> [Conns -> PeerStates]]
    BY Cell DEF TypeOK
  <2>2. peer' \in [Sides -> [Conns -> PeerStates]]
    <3>1. peer' = peer \/ \E m \in Conns, v \in {"gone", "closed"} : peer' = [peer EXCEPT ![s][m] = v]
      BY <1>7 DEF CloseSession
    <3>2. {"gone", "closed"} \subseteq PeerStates
      BY DEF PeerStates
    <3>3. peer \in [Sides -> [Conns -> PeerStates]]
      BY TableTypes
    <3> QED BY <2>1, <3>1, <3>2, <3>3
  <2> QED BY <1>7, <2>2 DEF CloseSession, TypeOK
<1>8. CASE ReportEnd
  BY <1>8 DEF ReportEnd, TypeOK
<1> QED BY <1>1, <1>2, <1>3, <1>4, <1>5, <1>6, <1>7, <1>8

LEMMA HandlerTypes ==
    ASSUME TypeOK, NEW s \in Sides, NEW n \in Conns,
           Enqueue(s, n) \/ Release(s, n) \/ Notice(s, n)
    PROVE  TypeOK'
<1> USE DEF sideVars, connVars, handlerVars, runVars, pumpVars
<1>1. ASSUME Enqueue(s, n) PROVE TypeOK'
  <2>0. [open EXCEPT ![s][n] = FALSE] \in [Sides -> [Conns -> BOOLEAN]]
    BY Cell, TableTypes
  <2>1. \A v \in HandlerStates : [handler EXCEPT ![s][n] = v] \in [Sides -> [Conns -> HandlerStates]]
    BY Cell, TableTypes
  <2>6. /\ handler' \in [Sides -> [Conns -> HandlerStates]]
        /\ open' \in [Sides -> [Conns -> BOOLEAN]]
    BY <1>1, <2>0, <2>1, TableTypes DEF Enqueue, HandlerStates
  <2>2. queue[s] \in Seq(Conns) /\ Len(queue[s]) <= QueueCap /\ QueueCap \in Nat
    BY ConstantTypes DEF TypeOK
  <2>3. Len(queue[s]) < QueueCap =>
          Append(queue[s], n) \in Seq(Conns) /\ Len(Append(queue[s], n)) <= QueueCap
    BY <2>2
  <2>4. \/ queue' = queue
        \/ queue' = [queue EXCEPT ![s] = Append(@, n)] /\ Len(queue[s]) < QueueCap
    BY <1>1 DEF Enqueue, Room
  <2>7. \A t \in Sides : Len(queue[t]) <= QueueCap
    BY DEF TypeOK
  <2>5. queue' \in [Sides -> Seq(Conns)] /\ \A t \in Sides : Len(queue'[t]) <= QueueCap
    <3>1. CASE queue' = queue
      BY <3>1, <2>7, TableTypes
    <3>2. ASSUME queue' = [queue EXCEPT ![s] = Append(@, n)], Len(queue[s]) < QueueCap
          PROVE  queue' \in [Sides -> Seq(Conns)] /\ \A t \in Sides : Len(queue'[t]) <= QueueCap
      <4>1. queue \in [Sides -> Seq(Conns)]
        BY TableTypes
      <4>2. Append(queue[s], n) \in Seq(Conns) /\ Len(Append(queue[s], n)) <= QueueCap
        BY <2>3, <3>2
      <4> QED BY <3>2, <2>7, <4>1, <4>2
    <3> QED BY <2>4, <3>1, <3>2
  <2> QED BY <1>1, <2>5, <2>6 DEF TypeOK, Enqueue
<1>2. ASSUME Release(s, n) PROVE TypeOK'
  <2>1. handler' \in [Sides -> [Conns -> HandlerStates]]
    BY <1>2, Cell, TableTypes DEF Release, HandlerStates
  <2> QED BY <1>2, <2>1 DEF TypeOK, Release
<1>3. ASSUME Notice(s, n) PROVE TypeOK'
  <2>1. noticed' \in [Sides -> [Conns -> BOOLEAN]]
    BY <1>3, Cell, TableTypes DEF Notice
  <2> QED BY <1>3, <2>1 DEF TypeOK, Notice
<1> QED BY <1>1, <1>2, <1>3

LEMMA PumpTypes ==
    ASSUME TypeOK, NEW s \in Sides, PumpStep(s)
    PROVE  TypeOK'
<1> USE DEF sideVars, connVars, handlerVars, runVars, pumpVars
<1>1. PICK p \in pump[s] :
        PumpRead(s, p) \/ PumpReadFails(s, p) \/ PumpWrite(s, p) \/ PumpWriteFails(s, p)
  BY DEF PumpStep
<1>2. p \in Pump /\ pump[s] \subseteq Pump
  BY DEF TypeOK
<1>3. ASSUME NEW to \in {"read", "write"}, Advance(s, p, to)
      PROVE  /\ pump' \in [Sides -> SUBSET Pump]
             /\ running' \in [Sides -> BOOLEAN] /\ results' \in Seq(Result)
  <2>1. [p EXCEPT !.pc = to] \in Pump
    BY <1>2 DEF Pump
  <2> QED BY <1>2, <1>3, <2>1 DEF TypeOK, Advance
<1>4. ASSUME NEW t \in Sides, NEW g \in Nat, NEW close \in BOOLEAN, Report(s, p, t, g, close)
      PROVE  /\ pump' \in [Sides -> SUBSET Pump]
             /\ running' \in [Sides -> BOOLEAN] /\ results' \in Seq(Result)
  <2>1. [from |-> s, failed |-> t, gen |-> g, close |-> close] \in Result
    BY DEF Result
  <2>2. results' \in Seq(Result)
    BY <1>4, <2>1 DEF TypeOK, Report
  <2> QED BY <1>2, <1>4, <2>2 DEF TypeOK, Report
<1>5. ASSUME PumpRead(s, p) PROVE TypeOK'
  <2>2. p.src \in Conns => inbox[s][p.src] \in Nat
    BY EntryTypes
  <2>0. inbox[s][p.src] > 0 /\ p.src \in Conns => inbox[s][p.src] - 1 \in Nat
    BY <2>2
  <2>1. inbox' \in [Sides -> [Conns -> Nat]]
    <3>1. inbox' = [inbox EXCEPT ![s][p.src] = inbox[s][p.src] - 1] /\ inbox[s][p.src] > 0
      BY <1>5 DEF PumpRead
    <3>2. inbox \in [Sides -> [Conns -> Nat]]
      BY TableTypes
    <3> QED BY <2>0, <3>1, <3>2, Cell
  <2>3. Advance(s, p, "write")
    BY <1>5 DEF PumpRead
  <2> QED BY <1>3, <1>5, <2>1, <2>3 DEF TypeOK, PumpRead
<1>6. ASSUME PumpReadFails(s, p) PROVE TypeOK'
  <2>1. p.gen \in Nat
    BY <1>2 DEF Pump
  <2>2. /\ pump' \in [Sides -> SUBSET Pump]
        /\ running' \in [Sides -> BOOLEAN] /\ results' \in Seq(Result)
    BY <1>4, <1>6, <2>1 DEF PumpReadFails
  <2> QED BY <1>6, <2>2 DEF TypeOK, PumpReadFails
<1>7. ASSUME PumpWrite(s, p) PROVE TypeOK'
  <2>1. p.src \in Nat
    BY <1>2 DEF Pump
  <2>2. \A t \in Sides, n \in Conns : Append(got[t][n], p.src) \in Seq(Nat)
    BY <2>1 DEF TypeOK
  <2>3. got' \in [Sides -> [Conns -> Seq(Nat)]]
    <3>1. got \in [Sides -> [Conns -> Seq(Nat)]]
      BY DEF TypeOK
    <3> DEFINE t == Other[s]
               n == endpoint[t].conn
    <3>2. t \in Sides /\ got' = [got EXCEPT ![t][n] = Append(got[t][n], p.src)]
      BY <1>7, ConstantTypes DEF PumpWrite
    <3> HIDE DEF t, n
    <3>3. n \in Conns => Append(got[t][n], p.src) \in Seq(Nat)
      BY <2>2, <3>2
    <3>4. [got EXCEPT ![t][n] = Append(got[t][n], p.src)] \in [Sides -> [Conns -> Seq(Nat)]]
      BY <3>1, <3>2, <3>3, Cell
    <3> QED BY <3>2, <3>4
  <2>4. Advance(s, p, "read")
    BY <1>7 DEF PumpWrite
  <2> QED BY <1>3, <1>7, <2>3, <2>4 DEF TypeOK, PumpWrite
<1>8. ASSUME PumpWriteFails(s, p) PROVE TypeOK'
  <2>1. Other[s] \in Sides /\ endpoint[Other[s]].gen \in Nat
    BY ConstantTypes DEF TypeOK, Endpoint
  <2>2. /\ pump' \in [Sides -> SUBSET Pump]
        /\ running' \in [Sides -> BOOLEAN] /\ results' \in Seq(Result)
    BY <1>4, <1>8, <2>1 DEF PumpWriteFails
  <2> QED BY <1>8, <2>2 DEF TypeOK, PumpWriteFails
<1> QED BY <1>1, <1>5, <1>6, <1>7, <1>8

LEMMA RunnerTypes ==
    ASSUME TypeOK, Runner
    PROVE  TypeOK'
<1> USE DEF sideVars, connVars, handlerVars, runVars, pumpVars
<1>1. \A C : /\ Shut(C) \in [Sides -> [Conns -> BOOLEAN]]
             /\ Done(C) \in [Sides -> [Conns -> HandlerStates]]
             /\ PumpsWith(C) \in [Sides -> SUBSET Pump]
  BY ShutType, DoneType, PumpsType
<1>2. held \in [Sides -> 0..MaxConn] /\ endpoint \in [Sides -> Endpoint]
  BY DEF TypeOK
<1>3. ASSUME TakeResult PROVE TypeOK'
  <2>1. results # <<>> /\ results \in Seq(Result)
    BY <1>3 DEF TypeOK, TakeResult
  <2>2. results' \in Seq(Result)
    BY <1>3, <2>1 DEF TakeResult
  <2>7. /\ open' = open \/ open' = Shut(Endpoints)
        /\ handler' = handler \/ handler' = Done(Held)
        /\ pump' = pump \/ \E t : pump' = PumpsWith({t})
    BY <1>3 DEF TakeResult, Interrupt
  <2>8. open' \in [Sides -> [Conns -> BOOLEAN]]
    BY <1>1, <2>7, TableTypes
  <2>9. handler' \in [Sides -> [Conns -> HandlerStates]]
    BY <1>1, <2>7, TableTypes
  <2>3. pump' \in [Sides -> SUBSET Pump]
    <3>1. CASE pump' = pump
      BY <3>1, PumpTableTypes
    <3>2. ASSUME NEW t, pump' = PumpsWith({t}) PROVE pump' \in [Sides -> SUBSET Pump]
      BY <3>2, PumpsType
    <3> QED BY <2>7, <3>1, <3>2
  <2>4. held' \in [Sides -> 0..MaxConn] /\ pc' \in RunnerStates
    BY <1>2, <1>3, NobodyType DEF TakeResult, Interrupt, RunnerStates
  <2>5. running' \in [Sides -> BOOLEAN]
    BY <1>3 DEF TakeResult, TypeOK
  <2>6. UNCHANGED <<peer, ended, sent, fails, inbox, got, told, noticed, queue, bridged, endpoint, done>>
    BY <1>3 DEF TakeResult, Interrupt
  <2> QED BY <2>2, <2>3, <2>4, <2>5, <2>6, <2>8, <2>9 DEF TypeOK
<1>4. ASSUME WindowExpires PROVE TypeOK'
  BY <1>1, <1>4, NobodyType DEF WindowExpires, TypeOK, RunnerStates
<1>5. ASSUME WaitEnds PROVE TypeOK'
  BY <1>5, NobodyType DEF WaitEnds, TypeOK, RunnerStates
<1>6. ASSUME Pair PROVE TypeOK'
  <2>1. endpoint' \in [Sides -> Endpoint]
    BY <1>2, <1>6 DEF Pair, Endpoint
  <2> QED BY <1>6, <2>1 DEF Pair, TypeOK, RunnerStates
<1>7. ASSUME NEW s \in Sides, Tell(s) PROVE told' \in [Sides -> [Conns -> Nat]]
  <2>1. endpoint[s].gen \in Nat
    BY <1>2 DEF Endpoint
  <2>2. [told EXCEPT ![s][held[s]] = endpoint[s].gen] \in [Sides -> [Conns -> Nat]]
    BY <2>1, Cell, TableTypes
  <2> QED BY <1>7, <2>2 DEF Tell
<1>8. ASSUME TellAgent \/ TellClient PROVE TypeOK'
  <2>1. told' \in [Sides -> [Conns -> Nat]]
    <3>1. told' = told \/ Tell(Agent) \/ Tell(Client)
      BY <1>8 DEF TellAgent, TellClient
    <3> QED BY <1>7, <3>1, TableTypes, ConstantTypes
  <2>2. /\ open' \in [Sides -> [Conns -> BOOLEAN]] /\ handler' \in [Sides -> [Conns -> HandlerStates]]
    BY <1>1, <1>8, TableTypes DEF TellAgent, TellClient, Retry
  <2>3. pump' \in [Sides -> SUBSET Pump] /\ running' \in [Sides -> BOOLEAN]
    <3>1. \/ pump' = pump /\ running' = running
          \/ pump' = PumpsWith(Startable) /\ running' = [s \in Sides |-> TRUE]
      BY <1>8 DEF TellAgent, TellClient, Retry
    <3>2. PumpsWith(Startable) \in [Sides -> SUBSET Pump]
      BY <1>1
    <3> QED BY <3>1, <3>2, PumpTableTypes
  <2>4. held' \in [Sides -> 0..MaxConn] /\ pc' \in RunnerStates
    BY <1>2, <1>8, NobodyType DEF TellAgent, TellClient, Retry, RunnerStates
  <2>5. bridged' \in BOOLEAN
    BY <1>8 DEF TellAgent, TellClient, Retry, TypeOK
  <2>6. UNCHANGED <<peer, ended, sent, fails, inbox, got, noticed, queue, endpoint, results, done>>
    BY <1>8 DEF TellAgent, TellClient
  <2> QED BY <2>1, <2>2, <2>3, <2>4, <2>5, <2>6 DEF TypeOK
<1>9. ASSUME Finish PROVE TypeOK'
  BY <1>1, <1>9 DEF Finish, TypeOK, RunnerStates
<1>10. ASSUME NEW s \in Sides, TakeEarly(s) \/ TakeAttachment(s) PROVE TypeOK'
  <2>1. queue[s] # <<>> /\ queue' = [queue EXCEPT ![s] = Tail(@)]
    BY <1>10 DEF TakeEarly, TakeAttachment
  <2>2. /\ Head(queue[s]) \in 0..MaxConn
        /\ queue' \in [Sides -> Seq(Conns)] /\ \A t \in Sides : Len(queue'[t]) <= QueueCap
    BY <2>1, QueueType, ConstantTypes
  <2>6. \/ held' = held \/ held' = [Nobody EXCEPT ![s] = Head(queue[s])]
        \/ held' = [held EXCEPT ![s] = Head(queue[s])]
    BY <1>10 DEF TakeEarly, TakeAttachment, Interrupt
  <2>3. held' \in [Sides -> 0..MaxConn]
    BY <1>2, <2>2, <2>6, NobodyType
  <2>7. pc' \in RunnerStates
    BY <1>10 DEF TakeEarly, TakeAttachment, Interrupt, RunnerStates, TypeOK
  <2>8. /\ open' = open \/ \E C : open' = Shut(C)
        /\ handler' = handler \/ \E C : handler' = Done(C)
    BY <1>10 DEF TakeEarly, TakeAttachment, Interrupt
  <2>9. open' \in [Sides -> [Conns -> BOOLEAN]]
    BY <1>1, <2>8, TableTypes
  <2>4. handler' \in [Sides -> [Conns -> HandlerStates]]
    BY <1>1, <2>8, TableTypes
  <2>5. UNCHANGED <<peer, ended, sent, fails, inbox, got, told, noticed, bridged, endpoint,
                    pump, running, results, done>>
    BY <1>10 DEF TakeEarly, TakeAttachment, Interrupt
  <2> QED BY <2>2, <2>3, <2>4, <2>5, <2>7, <2>9 DEF TypeOK
<1>11. ASSUME NEW s \in Sides, DropDead(s) PROVE TypeOK'
  <2>1. held' \in [Sides -> 0..MaxConn]
    BY <1>2, <1>11, ConstantTypes DEF DropDead
  <2> QED BY <1>1, <1>11, <2>1 DEF DropDead, TypeOK
<1> QED BY <1>3, <1>4, <1>5, <1>6, <1>8, <1>9, <1>10, <1>11 DEF Runner

LEMMA TypeStep ==
    ASSUME TypeOK, [Next]_vars
    PROVE  TypeOK'
<1>1. CASE Runner
  BY <1>1, RunnerTypes
<1>2. ASSUME NEW s \in Sides, PumpStep(s) PROVE TypeOK'
  BY <1>2, PumpTypes
<1>3. ASSUME NEW s \in Sides, CloseSession(s) \/ Refused(s) \/ ReportEnd PROVE TypeOK'
  BY <1>3, SideTypes, ConstantTypes
<1>4. ASSUME NEW s \in Sides, NEW n \in Conns, Socket(s, n) PROVE TypeOK'
  BY <1>4, SideTypes, HandlerTypes DEF Socket
<1>5. CASE UNCHANGED vars
  BY <1>5 DEF vars, TypeOK
<1> QED BY <1>1, <1>2, <1>3, <1>4, <1>5, ConstantTypes DEF Next

\* Types are kept, attachment queues stay within their capacity.
THEOREM RelayTypeCorrect == Spec => []TypeOK
<1>1. Init => TypeOK
  BY InitType
<1>2. TypeOK /\ [Next]_vars => TypeOK'
  BY TypeStep
<1> QED BY <1>1, <1>2, PTL DEF Spec

-----------------------------------------------------------------------------

-----------------------------------------------------------------------------
(* Opened.                                                                 *)

LEMMA OpenedInit == Init => Opened
<1> SUFFICES ASSUME Init, NEW s \in Sides, NEW n \in Conns, peer[s][n] = "none"
             PROVE  Unknown(s, n)
  BY DEF Opened
<1>1. PICK first \in {{Agent, Client}, {Agent}, {Client}} :
        /\ bridged = (first = Sides)
        /\ peer = [t \in Sides |-> [m \in Conns |->
                     IF t \in first /\ m = 1 THEN "open" ELSE "none"]]
        /\ handler = [t \in Sides |-> [m \in Conns |->
                     IF t \in first /\ m = 1 /\ ~bridged THEN "queuing" ELSE "none"]]
  BY DEF Init
<1>2. ~(s \in first /\ n = 1)
  BY <1>1
<1>3. handler[s][n] = "none"
  BY <1>1, <1>2
<1>4. told[s][n] = 0
  BY <1>1, <1>2 DEF Init
<1>5. ~noticed[s][n] /\ held[s] = 0 /\ queue[s] = <<>>
  BY DEF Init
<1> QED BY <1>3, <1>4, <1>5, ConstantTypes DEF Unknown

\* The sides' actions: they only open sockets, and tell the relay nothing.
LEMMA OpenedSides ==
    ASSUME TypeOK, Opened, NEW s \in Sides, NEW n \in Conns,
           \/ GiveUp(s, n) \/ SilentExpires(s, n) \/ Dial(s, n) \/ Send(s, n) \/ Lose(s, n)
           \/ Refused(s) \/ CloseSession(s) \/ ReportEnd
    PROVE  Opened'
<1> USE DEF sideVars, connVars, handlerVars, runVars, pumpVars, Leave
<1>0. peer \in [Sides -> [Conns -> PeerStates]] /\ handler \in [Sides -> [Conns -> HandlerStates]]
  BY TableTypes
<1>1. ASSUME ~Dial(s, n), NEW t \in Sides, NEW m \in Conns, peer'[t][m] = "none"
      PROVE  peer[t][m] = "none"
  <2>1. \/ peer' = peer
        \/ \E k \in Conns, v \in {"gone", "silent", "closed"} : peer' = [peer EXCEPT ![s][k] = v]
    BY <1>1, SizesAssumption DEF GiveUp, SilentExpires, Send, Lose, Refused, CloseSession, ReportEnd
  <2>2. ASSUME NEW k \in Conns, NEW v \in {"gone", "silent", "closed"},
               peer' = [peer EXCEPT ![s][k] = v]
        PROVE  peer[t][m] = "none"
    BY <1>0, <1>1, <2>2
  <2> QED BY <1>1, <2>1, <2>2
<1>2. ASSUME ~Dial(s, n) PROVE UNCHANGED <<told, handler, noticed, held, queue>>
  BY <1>2 DEF GiveUp, SilentExpires, Send, Lose, Refused, CloseSession, ReportEnd
<1>3. ASSUME ~Dial(s, n) PROVE Opened'
  BY <1>1, <1>2, <1>3 DEF Opened, Unknown
<1>4. ASSUME Dial(s, n), NEW t \in Sides, NEW m \in Conns, peer'[t][m] = "none"
      PROVE  Unknown(t, m)'
  <2>1. peer[t][m] = "none" /\ ~(t = s /\ m = n)
    BY <1>0, <1>4 DEF Dial
  <2>2. handler'[t][m] = handler[t][m]
    BY <1>0, <1>4, <2>1 DEF Dial
  <2>3. UNCHANGED <<told, noticed, held, queue>>
    BY <1>4 DEF Dial
  <2> QED BY <2>1, <2>2, <2>3 DEF Opened, Unknown
<1> QED BY <1>3, <1>4 DEF Opened

LEMMA OpenedHandlers ==
    ASSUME TypeOK, Opened, NEW s \in Sides, NEW n \in Conns,
           Enqueue(s, n) \/ Release(s, n) \/ Notice(s, n)
    PROVE  Opened'
<1> SUFFICES ASSUME NEW t \in Sides, NEW m \in Conns, peer'[t][m] = "none"
             PROVE  Unknown(t, m)'
  BY DEF Opened
<1> USE DEF sideVars, connVars, handlerVars, runVars
<1>1. peer[t][m] = "none" /\ UNCHANGED <<told, held>>
  BY DEF Enqueue, Release, Notice
<1>2. Unknown(t, m)
  BY <1>1 DEF Opened
<1>3. handler[s][n] # "none"
  BY DEF Enqueue, Release, Notice
<1>4. ~(t = s /\ m = n)
  BY <1>2, <1>3 DEF Unknown
<1>5. handler'[t][m] = handler[t][m] /\ noticed'[t][m] = noticed[t][m]
  BY <1>4, TableTypes DEF Enqueue, Release, Notice
<1>6. ASSUME NEW i \in 1..Len(queue'[t]) PROVE queue'[t][i] # m
  <2>1. queue' = queue \/ queue' = [queue EXCEPT ![s] = Append(@, n)]
    BY DEF Enqueue, Release, Notice
  <2>2. queue \in [Sides -> Seq(Conns)] /\ queue[t] \in Seq(Conns) /\ queue[s] \in Seq(Conns)
    BY TableTypes
  <2>3. \A j \in 1..Len(queue[t]) : queue[t][j] # m
    BY <1>2 DEF Unknown
  <2>4. ASSUME t # s \/ queue' = queue PROVE queue'[t][i] # m
    BY <1>6, <2>1, <2>2, <2>3, <2>4
  <2>5. ASSUME t = s, queue' = [queue EXCEPT ![s] = Append(@, n)] PROVE queue'[t][i] # m
    <3>1. queue'[t] = Append(queue[t], n)
      BY <2>2, <2>5
    <3>2. n # m
      BY <1>4, <2>5
    <3> QED BY <1>6, <2>2, <2>3, <3>1, <3>2
  <2> QED BY <2>1, <2>4, <2>5
<1> QED BY <1>1, <1>2, <1>5, <1>6 DEF Unknown

LEMMA OpenedRunner ==
    ASSUME TypeOK, Opened, Runner
    PROVE  Opened'
<1> SUFFICES ASSUME NEW t \in Sides, NEW m \in Conns, peer'[t][m] = "none"
             PROVE  Unknown(t, m)'
  BY DEF Opened
<1> USE DEF sideVars, connVars, handlerVars, runVars
<1>1. peer[t][m] = "none" /\ noticed' = noticed
  BY DEF Runner, TakeResult, WindowExpires, WaitEnds, Pair, TellAgent, TellClient, Finish, TakeEarly,
         TakeAttachment, DropDead, Interrupt
<1>2. Unknown(t, m)
  BY <1>1 DEF Opened
<1>3. told'[t][m] = 0
  <2>1. told' = told \/ \E s \in Sides : Tell(s)
    BY ConstantTypes DEF Runner, TakeResult, WindowExpires, WaitEnds, Pair, TellAgent, TellClient,
           Finish, TakeEarly, TakeAttachment, DropDead, Interrupt
  <2>2. ASSUME NEW s \in Sides, Tell(s) PROVE told'[t][m] = told[t][m]
    BY <1>2, <2>2, TableTypes DEF Tell, Unknown
  <2> QED BY <1>2, <2>1, <2>2 DEF Unknown
<1>4. \A s \in Sides : queue[s] # <<>> => Head(queue[s]) = queue[s][1] /\ 1 \in 1..Len(queue[s])
  BY TableTypes
<1>5. ASSUME queue[t] # <<>> PROVE Head(queue[t]) # m
  BY <1>2, <1>4, <1>5 DEF Unknown
<1>6. handler'[t][m] = "none"
  <2>1. \/ handler' = handler
        \/ \E s \in Sides : handler' = Done(Held) \/ handler' = Done({<<s, held[s]>>})
        \/ \E s \in Sides : queue[s] # <<>> /\ handler' = Done({<<s, Head(queue[s])>>})
    BY ConstantTypes DEF Runner, TakeResult, WindowExpires, WaitEnds, Pair, TellAgent, TellClient,
           Finish, TakeEarly, TakeAttachment, DropDead, Interrupt, Retry, LetGo
  <2>2. <<t, m>> \notin Held /\ \A s \in Sides : <<t, m>> # <<s, held[s]>>
    BY <1>2 DEF Unknown, Held
  <2>3. \A s \in Sides : queue[s] # <<>> => <<t, m>> # <<s, Head(queue[s])>>
    BY <1>5
  <2>4. ASSUME NEW C, <<t, m>> \notin C, handler' = Done(C) PROVE handler'[t][m] = handler[t][m]
    BY <2>4 DEF Done
  <2> QED BY <1>2, <2>1, <2>2, <2>3, <2>4 DEF Unknown
<1>7. held'[t] # m
  <2>1. held \in [Sides -> 0..MaxConn] /\ m # 0
    BY ConstantTypes DEF TypeOK
  <2>2. \/ held' = held \/ held' = Nobody
        \/ \E s \in Sides : held' = [held EXCEPT ![s] = 0]
        \/ \E s \in Sides : queue[s] # <<>> /\ held' = [held EXCEPT ![s] = Head(queue[s])]
        \/ \E s \in Sides : queue[s] # <<>> /\ held' = [Nobody EXCEPT ![s] = Head(queue[s])]
    BY DEF Runner, TakeResult, WindowExpires, WaitEnds, Pair, TellAgent, TellClient, Finish, TakeEarly,
           TakeAttachment, DropDead, Interrupt, Retry
  <2> QED BY <1>2, <1>5, <2>1, <2>2 DEF Unknown, Nobody
<1>8. ASSUME NEW i \in 1..Len(queue'[t]) PROVE queue'[t][i] # m
  <2>1. queue' = queue \/ \E s \in Sides : queue[s] # <<>> /\ queue' = [queue EXCEPT ![s] = Tail(@)]
    BY DEF Runner, TakeResult, WindowExpires, WaitEnds, Pair, TellAgent, TellClient, Finish, TakeEarly,
           TakeAttachment, DropDead, Interrupt, Retry
  <2>2. queue \in [Sides -> Seq(Conns)] /\ queue[t] \in Seq(Conns)
    BY TableTypes
  <2>3. queue'[t] = queue[t] \/ (queue[t] # <<>> /\ queue'[t] = Tail(queue[t]))
    BY <2>1, <2>2
  <2>4. \A j \in 1..Len(queue[t]) : queue[t][j] # m
    BY <1>2 DEF Unknown
  <2>5. CASE queue'[t] = queue[t]
    BY <1>8, <2>4, <2>5
  <2>6. CASE queue[t] # <<>> /\ queue'[t] = Tail(queue[t])
    <3>1. /\ Len(Tail(queue[t])) = Len(queue[t]) - 1 /\ Len(queue[t]) \in Nat
          /\ \A j \in 1..Len(Tail(queue[t])) : Tail(queue[t])[j] = queue[t][j + 1]
      BY <2>2, <2>6
    <3>2. i + 1 \in 1..Len(queue[t]) /\ queue'[t][i] = queue[t][i + 1]
      BY <1>8, <2>6, <3>1
    <3> QED BY <2>4, <3>2
  <2> QED BY <2>3, <2>5, <2>6
<1> QED BY <1>1, <1>2, <1>3, <1>6, <1>7, <1>8 DEF Unknown

LEMMA OpenedStep ==
    ASSUME TypeOK, Opened, [Next]_vars
    PROVE  Opened'
<1>1. CASE Runner
  BY <1>1, OpenedRunner
<1>2. ASSUME NEW s \in Sides, PumpStep(s) PROVE Opened'
  <2>1. UNCHANGED <<peer, told, handler, noticed, held, queue>>
    BY <1>2 DEF PumpStep, PumpRead, PumpReadFails, PumpWrite, PumpWriteFails,
                sideVars, connVars, handlerVars, runVars
  <2> QED BY <2>1 DEF Opened, Unknown
<1>3. ASSUME NEW s \in Sides, CloseSession(s) \/ Refused(s) \/ ReportEnd PROVE Opened'
  BY <1>3, OpenedSides, ConstantTypes
<1>4. ASSUME NEW s \in Sides, NEW n \in Conns, Socket(s, n) PROVE Opened'
  BY <1>4, OpenedSides, OpenedHandlers DEF Socket
<1>5. CASE UNCHANGED vars
  BY <1>5 DEF vars, Opened, Unknown
<1> QED BY <1>1, <1>2, <1>3, <1>4, <1>5, ConstantTypes DEF Next

-----------------------------------------------------------------------------

-----------------------------------------------------------------------------
(* ToldIsEndpoint and HeldIsEndpoint.                                      *)

\* The runner's variables that only the runner changes.
LEMMA OnlyRunner ==
    ASSUME [Next]_vars, ~Runner
    PROVE  UNCHANGED <<told, pc, bridged, held, endpoint>>
<1> USE DEF sideVars, connVars, handlerVars, runVars, pumpVars
<1>1. ASSUME NEW s \in Sides, PumpStep(s) PROVE UNCHANGED <<told, pc, bridged, held, endpoint>>
  BY <1>1 DEF PumpStep, PumpRead, PumpReadFails, PumpWrite, PumpWriteFails
<1>2. ASSUME NEW s \in Sides, NEW n \in Conns, Socket(s, n)
      PROVE  UNCHANGED <<told, pc, bridged, held, endpoint>>
  BY <1>2 DEF Socket, GiveUp, SilentExpires, Dial, Send, Lose, Enqueue, Release, Notice
<1>3. ASSUME NEW s \in Sides, CloseSession(s) \/ Refused(s) \/ ReportEnd
      PROVE  UNCHANGED <<told, pc, bridged, held, endpoint>>
  BY <1>3 DEF CloseSession, Refused, ReportEnd
<1> QED BY <1>1, <1>2, <1>3, ConstantTypes DEF Next, vars

\* Outside the runner a socket opens only with Dial, which takes a new one.
LEMMA OnlyDialOpens ==
    ASSUME TypeOK, [Next]_vars, ~Runner, NEW t \in Sides, NEW m \in Conns,
           open'[t][m], ~open[t][m]
    PROVE  peer[t][m] = "none"
<1> USE DEF sideVars, connVars, handlerVars, runVars, pumpVars
<1>1. ASSUME NEW s \in Sides, PumpStep(s) PROVE open' = open
  BY <1>1 DEF PumpStep, PumpRead, PumpReadFails, PumpWrite, PumpWriteFails
<1>2. ASSUME NEW s \in Sides, CloseSession(s) \/ Refused(s) \/ ReportEnd PROVE open' = open
  BY <1>2 DEF CloseSession, Refused, ReportEnd
<1>3. ASSUME NEW s \in Sides, NEW n \in Conns, Socket(s, n) PROVE peer[t][m] = "none"
  <2>1. open \in [Sides -> [Conns -> BOOLEAN]]
    BY TableTypes
  <2>2. \/ open' = open \/ open' = [open EXCEPT ![s][n] = FALSE]
        \/ Dial(s, n) /\ open' = [open EXCEPT ![s][n] = TRUE]
    BY <1>3 DEF Socket, GiveUp, SilentExpires, Dial, Send, Lose, Enqueue, Release, Notice
  <2>3. Dial(s, n) /\ open' = [open EXCEPT ![s][n] = TRUE]
    BY <2>1, <2>2
  <2>4. t = s /\ m = n
    BY <2>1, <2>3
  <2>5. (n < n) = (peer[s][n] # "none")
    BY <2>3 DEF Dial
  <2>6. ~(n < n)
    BY ConstantTypes
  <2> QED BY <2>4, <2>5, <2>6
<1> QED BY <1>1, <1>2, <1>3, ConstantTypes DEF Next, vars

LEMMA HeldInit == Init => ToldIsEndpoint /\ HeldIsEndpoint
BY ConstantTypes DEF Init, ToldIsEndpoint, HeldIsEndpoint, Telling

LEMMA HeldStep ==
    ASSUME TypeOK, HeldIsEndpoint, [Next]_vars
    PROVE  HeldIsEndpoint'
<1> USE DEF sideVars, connVars, handlerVars, runVars, HeldIsEndpoint, Telling
<1>1. ASSUME ~Runner PROVE HeldIsEndpoint'
  BY <1>1, OnlyRunner
<1>2. CASE TakeResult
  BY <1>2 DEF TakeResult, Interrupt
<1>3. CASE WindowExpires \/ WaitEnds
  BY <1>3 DEF WindowExpires, WaitEnds
<1>4. CASE Pair
  BY <1>4 DEF Pair, BothHeld
<1>5. CASE TellAgent
  BY <1>5 DEF TellAgent, Retry
<1>6. CASE TellClient
  BY <1>6 DEF TellClient, Retry
<1>7. CASE Finish
  BY <1>7 DEF Finish
<1>8. ASSUME NEW s \in Sides, TakeEarly(s) \/ TakeAttachment(s) \/ DropDead(s)
      PROVE  HeldIsEndpoint'
  BY <1>8 DEF TakeEarly, TakeAttachment, DropDead, Interrupt
<1> QED BY <1>1, <1>2, <1>3, <1>4, <1>5, <1>6, <1>7, <1>8 DEF Runner

\* Told sockets that the relay closes satisfy ToldIsEndpoint whatever happens.
LEMMA ShutAll ==
    ASSUME TypeOK, ToldIsEndpoint, NEW C, open' = Shut(C), UNCHANGED <<told, endpoint>>,
           Endpoints \subseteq C \/ pc' # "wait"
    PROVE  ToldIsEndpoint'
<1> USE DEF ToldIsEndpoint
<1>1. ASSUME NEW s \in Sides, NEW n \in Conns, open'[s][n], told[s][n] # 0
      PROVE  pc' # "wait" /\ n = endpoint[s].conn /\ told[s][n] = endpoint[s].gen
  <2>1. open[s][n] /\ <<s, n>> \notin C
    BY <1>1 DEF Shut
  <2>2. n = endpoint[s].conn /\ told[s][n] = endpoint[s].gen
    BY <1>1, <2>1
  <2>3. <<s, n>> \in Endpoints
    BY <2>2 DEF Endpoints
  <2> QED BY <2>1, <2>2, <2>3
<1> QED BY <1>1

\* While run waits, no open socket has been told to go on.
LEMMA NobodyTold ==
    ASSUME TypeOK, ToldIsEndpoint, pc = "wait", NEW s \in Sides, NEW n \in Conns, open[s][n]
    PROVE  told[s][n] = 0
BY DEF ToldIsEndpoint

\* The effect of Tell: the side's endpoint is told its generation.
LEMMA ToldNow ==
    ASSUME TypeOK, ToldIsEndpoint, HeldIsEndpoint, Telling, NEW s \in Sides, Tell(s),
           NEW t \in Sides, NEW n \in Conns, open[t][n], told'[t][n] # 0
    PROVE  n = endpoint[t].conn /\ told'[t][n] = endpoint[t].gen
<1>1. told \in [Sides -> [Conns -> Nat]]
  BY TableTypes
<1>2. held[s] = endpoint[s].conn
  BY DEF HeldIsEndpoint
<1>3. CASE t = s /\ n = held[s]
  <2>1. told'[t][n] = endpoint[s].gen
    BY <1>1, <1>3 DEF Tell
  <2> QED BY <1>2, <1>3, <2>1
<1>4. CASE ~(t = s /\ n = held[s])
  <2>1. told'[t][n] = told[t][n]
    BY <1>1, <1>4 DEF Tell
  <2> QED BY <2>1 DEF ToldIsEndpoint
<1> QED BY <1>3, <1>4

LEMMA ToldStep ==
    ASSUME TypeOK, Opened, ToldIsEndpoint, HeldIsEndpoint, [Next]_vars
    PROVE  ToldIsEndpoint'
<1> USE DEF sideVars, connVars, handlerVars, runVars
<1>1. ASSUME ~Runner PROVE ToldIsEndpoint'
  <2>1. UNCHANGED <<told, pc, endpoint>>
    BY <1>1, OnlyRunner
  <2>2. ASSUME NEW s \in Sides, NEW n \in Conns, open'[s][n], told[s][n] # 0
        PROVE  open[s][n]
    BY <1>1, <2>2, OnlyDialOpens DEF Opened, Unknown
  <2> QED BY <2>1, <2>2 DEF ToldIsEndpoint
<1>2. ASSUME TakeResult PROVE ToldIsEndpoint'
  <2>1. UNCHANGED <<told, endpoint>>
    BY <1>2 DEF TakeResult, Interrupt
  <2>2. \/ open' = Shut(Endpoints) \/ UNCHANGED <<open, pc>>
    BY <1>2 DEF TakeResult, Interrupt
  <2> QED BY <2>1, <2>2, ShutAll DEF ToldIsEndpoint
<1>3. ASSUME WindowExpires \/ WaitEnds PROVE ToldIsEndpoint'
  <2>1. UNCHANGED <<told, endpoint>> /\ pc' # "wait" /\ pc = "wait"
    BY <1>3 DEF WindowExpires, WaitEnds, Waiting
  <2>2. open' = Shut(Held) \/ open' = open
    BY <1>3 DEF WindowExpires, WaitEnds
  <2> QED BY <2>1, <2>2, ShutAll DEF ToldIsEndpoint
<1>4. ASSUME Pair PROVE ToldIsEndpoint'
  <2>1. UNCHANGED <<told, open>> /\ pc = "wait"
    BY <1>4 DEF Pair, BothHeld
  <2>2. endpoint'[Agent].gen = endpoint[Agent].gen + 1 /\ endpoint'[Client].gen = endpoint[Client].gen + 1
    BY <1>4, ConstantTypes DEF Pair
  <2>3. endpoint'[Agent].gen = endpoint'[Client].gen
    BY <2>2 DEF ToldIsEndpoint
  <2>4. ASSUME NEW s \in Sides, NEW n \in Conns, open[s][n] PROVE told[s][n] = 0
    BY <2>1, <2>4, NobodyTold
  <2> QED BY <2>1, <2>3, <2>4 DEF ToldIsEndpoint
<1>5. ASSUME NEW s \in Sides, TakeAttachment(s) \/ DropDead(s) PROVE ToldIsEndpoint'
  <2>1. UNCHANGED <<told, endpoint, pc>> /\ pc = "wait"
    BY <1>5 DEF TakeAttachment, DropDead
  <2>2. ASSUME NEW t \in Sides, NEW n \in Conns, open'[t][n] PROVE open[t][n]
    BY <1>5, <2>2 DEF TakeAttachment, DropDead, Shut
  <2>3. ASSUME NEW t \in Sides, NEW n \in Conns, open[t][n] PROVE told[t][n] = 0
    BY <2>1, <2>3, NobodyTold
  <2> QED BY <2>1, <2>2, <2>3 DEF ToldIsEndpoint
<1>6. ASSUME NEW s \in Sides, TakeEarly(s) PROVE ToldIsEndpoint'
  <2>1. UNCHANGED <<told, endpoint>>
    BY <1>6 DEF TakeEarly, Interrupt
  <2>2. open' = Shut(Endpoints) \/ UNCHANGED <<open, pc>>
    BY <1>6 DEF TakeEarly, Interrupt
  <2> QED BY <2>1, <2>2, ShutAll DEF ToldIsEndpoint
<1>7. ASSUME Finish PROVE ToldIsEndpoint'
  BY <1>7, ShutAll DEF Finish
<1>8. ASSUME TellAgent \/ TellClient PROVE ToldIsEndpoint'
  <2>1. Telling /\ endpoint' = endpoint
    BY <1>8 DEF TellAgent, TellClient, Telling
  <2>2. told' = told \/ \E s \in Sides : Tell(s)
    BY <1>8, ConstantTypes DEF TellAgent, TellClient
  <2>3. \/ open' = Shut(Held)
        \/ (open' = open \/ open' = Shut({<<Agent, held[Agent]>>})) /\ pc' # "wait"
    BY <1>8 DEF TellAgent, TellClient, Retry
  <2>4. ASSUME NEW t \in Sides, NEW n \in Conns, open'[t][n], told'[t][n] # 0
        PROVE  n = endpoint[t].conn /\ told'[t][n] = endpoint[t].gen
    <3>1. open[t][n]
      BY <2>3, <2>4 DEF Shut
    <3> QED BY <2>1, <2>2, <2>4, <3>1, ToldNow DEF ToldIsEndpoint
  <2>5. ASSUME NEW t \in Sides, NEW n \in Conns, open' = Shut(Held), n = endpoint[t].conn
        PROVE  ~open'[t][n]
    BY <2>1, <2>5 DEF Shut, Held, HeldIsEndpoint
  <2> QED BY <2>1, <2>3, <2>4, <2>5 DEF ToldIsEndpoint
<1> QED BY <1>1, <1>2, <1>3, <1>4, <1>5, <1>6, <1>7, <1>8 DEF Runner

-----------------------------------------------------------------------------

LEMMA SessionInvariant == Spec => []SessionInv
<1>1. Init => SessionInv
  BY InitType, OpenedInit, HeldInit DEF SessionInv
<1>2. SessionInv /\ [Next]_vars => SessionInv'
  BY TypeStep, OpenedStep, HeldStep, ToldStep DEF SessionInv
<1> QED BY <1>1, <1>2, PTL DEF Spec

\* The barrier: open sockets of the two sides that were told to go on are of
\* one generation, whatever fails, is replaced or crosses on its way.
THEOREM RelayOneGeneration == Spec => []OneGeneration
<1>1. SessionInv => OneGeneration
  BY ConstantTypes DEF SessionInv, ToldIsEndpoint, OneGeneration
<1> QED BY <1>1, SessionInvariant, PTL

-----------------------------------------------------------------------------

-----------------------------------------------------------------------------
(* ReleasedIsClosed.                                                       *)

ReleasedInv == SessionInv /\ NoticedIsOver /\ ReleasedIsClosed

\* The runner only closes sockets.
LEMMA RunnerCloses ==
    ASSUME TypeOK, Runner
    PROVE  open' = open \/ \E C : open' = Shut(C)
BY DEF Runner, TakeResult, WindowExpires, WaitEnds, Pair, TellAgent, TellClient, Finish, TakeEarly,
       TakeAttachment, DropDead, Interrupt, Retry, connVars

\* A socket that comes into use is new to the relay.
LEMMA NewlyInUse ==
    ASSUME TypeOK, [Next]_vars, NEW t \in Sides, NEW m \in Conns,
           open'[t][m], peer'[t][m] = "open", peer[t][m] # "none"
    PROVE  open[t][m] /\ InUse(t, m)
<1> USE DEF sideVars, connVars, handlerVars, runVars, pumpVars
<1>1. ASSUME Runner PROVE open[t][m] /\ InUse(t, m)
  <2>1. open' = open \/ \E C : open' = Shut(C)
    BY <1>1, RunnerCloses
  <2>2. peer' = peer
    BY <1>1 DEF Runner, TakeResult, WindowExpires, WaitEnds, Pair, TellAgent, TellClient, Finish,
                TakeEarly, TakeAttachment, DropDead
  <2> QED BY <2>1, <2>2 DEF Shut, InUse
<1>2. ASSUME ~Runner PROVE open[t][m]
  BY <1>2, OnlyDialOpens
<1>3. ASSUME NEW s \in Sides, PumpStep(s) PROVE peer' = peer
  BY <1>3 DEF PumpStep, PumpRead, PumpReadFails, PumpWrite, PumpWriteFails
<1>4. peer \in [Sides -> [Conns -> PeerStates]]
  BY TableTypes
<1>5. ASSUME NEW s \in Sides, CloseSession(s) \/ Refused(s) \/ ReportEnd PROVE peer[t][m] = "open"
  <2>1. \/ peer' = peer
        \/ \E k \in Conns, v \in {"gone", "closed"} : peer' = [peer EXCEPT ![s][k] = v]
    BY <1>5 DEF CloseSession, Refused, ReportEnd, Leave
  <2>2. ASSUME NEW k \in Conns, NEW v \in {"gone", "closed"}, peer' = [peer EXCEPT ![s][k] = v]
        PROVE  peer[t][m] = "open"
    BY <1>4, <2>2
  <2> QED BY <2>1, <2>2
<1>6. ASSUME NEW s \in Sides, NEW n \in Conns, Socket(s, n) PROVE peer[t][m] = "open"
  <2>1. ASSUME Dial(s, n) PROVE peer[t][m] = "open"
    <3>1. ~(t = s /\ m = n)
      BY <2>1, ConstantTypes DEF Dial
    <3>2. peer'[t][m] = peer[t][m] \/ peer'[t][m] = "gone"
      BY <1>4, <2>1, <3>1 DEF Dial
    <3> QED BY <3>2
  <2>2. ASSUME ~Dial(s, n) PROVE peer[t][m] = "open"
    <3>1. \/ peer' = peer
          \/ \E v \in {"gone", "silent"} : peer' = [peer EXCEPT ![s][n] = v]
      BY <1>6, <2>2, SizesAssumption
         DEF Socket, GiveUp, SilentExpires, Send, Lose, Enqueue, Release, Notice, Leave
    <3>2. ASSUME NEW v \in {"gone", "silent"}, peer' = [peer EXCEPT ![s][n] = v]
          PROVE  peer[t][m] = "open"
      BY <1>4, <3>2
    <3> QED BY <3>1, <3>2
  <2> QED BY <2>1, <2>2
<1> QED BY <1>1, <1>2, <1>3, <1>5, <1>6, ConstantTypes DEF Next, vars, InUse

\* A readLoop that has noticed anything, or a handler that has returned,
\* belongs to a socket that its side has opened, so it never comes into use.
LEMMA StaysOutOfUse ==
    ASSUME TypeOK, Opened, [Next]_vars, NEW t \in Sides, NEW m \in Conns,
           noticed[t][m] \/ handler[t][m] # "none", ~open[t][m] \/ ~InUse(t, m)
    PROVE  ~open'[t][m] \/ ~InUse(t, m)'
<1>1. peer[t][m] # "none"
  BY DEF Opened, Unknown
<1> QED BY <1>1, NewlyInUse DEF InUse

LEMMA NoticedStep ==
    ASSUME TypeOK, Opened, NoticedIsOver, [Next]_vars
    PROVE  NoticedIsOver'
<1> SUFFICES ASSUME NEW t \in Sides, NEW m \in Conns, noticed'[t][m]
             PROVE  ~open'[t][m] \/ ~InUse(t, m)'
  BY DEF NoticedIsOver, InUse
<1>1. ASSUME noticed[t][m] PROVE ~open'[t][m] \/ ~InUse(t, m)'
  BY <1>1, StaysOutOfUse DEF NoticedIsOver
<1>2. ASSUME ~noticed[t][m] PROVE Notice(t, m)
  <2> USE DEF sideVars, connVars, handlerVars, runVars
  <2>1. ASSUME Runner PROVE noticed' = noticed
    BY <2>1 DEF Runner, TakeResult, WindowExpires, WaitEnds, Pair, TellAgent, TellClient, Finish,
                TakeEarly, TakeAttachment, DropDead, Interrupt
  <2>2. ASSUME NEW s \in Sides, PumpStep(s) PROVE noticed' = noticed
    BY <2>2 DEF PumpStep, PumpRead, PumpReadFails, PumpWrite, PumpWriteFails
  <2>3. ASSUME NEW s \in Sides, CloseSession(s) \/ Refused(s) \/ ReportEnd PROVE noticed' = noticed
    BY <2>3 DEF CloseSession, Refused, ReportEnd
  <2>4. ASSUME NEW s \in Sides, NEW n \in Conns, Socket(s, n)
        PROVE  noticed' = noticed \/ (Notice(s, n) /\ noticed' = [noticed EXCEPT ![s][n] = TRUE])
    BY <2>4 DEF Socket, GiveUp, SilentExpires, Dial, Send, Lose, Enqueue, Release, Notice
  <2>5. ASSUME NEW s \in Sides, NEW n \in Conns, Notice(s, n), noticed' = [noticed EXCEPT ![s][n] = TRUE]
        PROVE  Notice(t, m)
    <3>1. t = s /\ m = n
      BY <1>2, <2>5, TableTypes
    <3> QED BY <2>5, <3>1
  <2> QED BY <1>2, <2>1, <2>2, <2>3, <2>4, <2>5, ConstantTypes DEF Next, vars
<1>3. ASSUME Notice(t, m) PROVE ~open'[t][m] \/ ~InUse(t, m)'
  BY <1>3 DEF Notice, InUse, sideVars, connVars
<1> QED BY <1>1, <1>2, <1>3

\* What the runner releases it closes, unless its side has left it.
LEMMA RunnerReleases ==
    ASSUME TypeOK, HeldIsEndpoint, NoticedIsOver, Runner, NEW t \in Sides, NEW m \in Conns,
           handler'[t][m] # handler[t][m], ~done'
    PROVE  ~open'[t][m] \/ ~InUse(t, m)
<1> USE DEF sideVars, connVars, handlerVars, runVars
<1>1. ASSUME NEW C, <<t, m>> \notin C, handler' = Done(C) PROVE FALSE
  BY <1>1, TableTypes DEF Done
<1>2. ASSUME NEW C, <<t, m>> \in C, open' = Shut(C) PROVE ~open'[t][m]
  BY <1>2 DEF Shut
<1>3. ASSUME TakeResult \/ \E s \in Sides : TakeEarly(s)
      PROVE  ~open'[t][m] \/ ~InUse(t, m)
  <2>1. \/ open' = Shut(Endpoints) /\ handler' = Done(Held)
        \/ open' = open /\ \E s \in Sides : /\ queue[s] # <<>> /\ noticed[s][Head(queue[s])]
                                            /\ handler' = Done({<<s, Head(queue[s])>>})
        \/ handler' = handler
    BY <1>3 DEF TakeResult, TakeEarly, Interrupt, LetGo
  <2>2. pc = "select"
    BY <1>3 DEF TakeResult, TakeEarly
  <2>3. m # 0
    BY ConstantTypes
  <2>4. <<t, m>> \in Held => <<t, m>> \in Endpoints
    BY <2>2, <2>3 DEF Held, Endpoints, HeldIsEndpoint
  <2>5. ASSUME open' = Shut(Endpoints), handler' = Done(Held) PROVE ~open'[t][m]
    BY <1>1, <1>2, <2>4, <2>5
  <2>6. ASSUME NEW s \in Sides, noticed[s][Head(queue[s])], open' = open,
               handler' = Done({<<s, Head(queue[s])>>})
        PROVE  ~open'[t][m] \/ ~InUse(t, m)
    <3>1. <<t, m>> = <<s, Head(queue[s])>>
      BY <1>1, <2>6
    <3>2. noticed[t][m]
      BY <2>6, <3>1
    <3> QED BY <2>6, <3>2 DEF NoticedIsOver
  <2> QED BY <2>1, <2>5, <2>6
<1>4. ASSUME NEW s \in Sides, TakeAttachment(s) PROVE ~open'[t][m]
  BY <1>1, <1>2, <1>4 DEF TakeAttachment, Superseded
<1>5. ASSUME NEW s \in Sides, DropDead(s) PROVE ~open'[t][m] \/ ~InUse(t, m)
  <2>1. noticed[s][held[s]] /\ handler' = Done({<<s, held[s]>>}) /\ open' = open
    BY <1>5 DEF DropDead
  <2>2. <<t, m>> = <<s, held[s]>>
    BY <1>1, <2>1
  <2>3. noticed[t][m]
    BY <2>1, <2>2
  <2> QED BY <2>1, <2>3 DEF NoticedIsOver
<1>6. ASSUME WindowExpires \/ TellAgent \/ TellClient PROVE ~open'[t][m]
  <2>1. handler' = handler \/ (open' = Shut(Held) /\ handler' = Done(Held))
    BY <1>6 DEF WindowExpires, TellAgent, TellClient, Retry
  <2> QED BY <1>1, <1>2, <2>1
<1>7. ASSUME WaitEnds \/ Pair \/ Finish PROVE FALSE
  BY <1>7 DEF WaitEnds, Pair, Finish
<1> QED BY <1>3, <1>4, <1>5, <1>6, <1>7 DEF Runner

LEMMA ReleasedStep ==
    ASSUME SessionInv, NoticedIsOver, ReleasedIsClosed, [Next]_vars
    PROVE  ReleasedIsClosed'
<1> SUFFICES ASSUME NEW t \in Sides, NEW m \in Conns, handler'[t][m] = "released", ~done'
             PROVE  ~open'[t][m] \/ ~InUse(t, m)'
  BY DEF ReleasedIsClosed, InUse
<1> USE DEF SessionInv, sideVars, connVars, handlerVars, runVars
<1>1. ASSUME Runner PROVE peer' = peer /\ (done' = done \/ done')
  BY <1>1 DEF Runner, TakeResult, WindowExpires, WaitEnds, Pair, TellAgent, TellClient, Finish,
              TakeEarly, TakeAttachment, DropDead
<1>2. ASSUME NEW s \in Sides, PumpStep(s) PROVE handler' = handler /\ done' = done
  BY <1>2 DEF PumpStep, PumpRead, PumpReadFails, PumpWrite, PumpWriteFails
<1>3. ASSUME NEW s \in Sides, CloseSession(s) \/ Refused(s) \/ ReportEnd
      PROVE  handler' = handler /\ (done' = done \/ done')
  BY <1>3 DEF CloseSession, Refused, ReportEnd
<1>4. ASSUME NEW s \in Sides, NEW n \in Conns, Socket(s, n)
      PROVE  /\ done' = done
             /\ handler'[t][m] = handler[t][m] \/ ~open'[t][m]
  <2>1. done' = done
    BY <1>4 DEF Socket, GiveUp, SilentExpires, Dial, Send, Lose, Enqueue, Release, Notice
  <2>2. handler \in [Sides -> [Conns -> HandlerStates]] /\ open \in [Sides -> [Conns -> BOOLEAN]]
    BY TableTypes
  <2>3. \/ handler' = handler
        \/ handler' = [handler EXCEPT ![s][n] = "queuing"]
        \/ handler' = [handler EXCEPT ![s][n] = "attached"]
        \/ handler' = [handler EXCEPT ![s][n] = "released"] /\ open' = [open EXCEPT ![s][n] = FALSE]
        \/ done
    BY <1>4 DEF Socket, GiveUp, SilentExpires, Dial, Send, Lose, Enqueue, Release, Notice
  <2> QED BY <2>1, <2>2, <2>3
<1>5. \/ handler'[t][m] = handler[t][m]
      \/ ~open'[t][m]
      \/ Runner
  BY <1>2, <1>3, <1>4, ConstantTypes DEF Next, vars
<1>6. ~done
  BY <1>1, <1>2, <1>3, <1>4, ConstantTypes DEF Next, vars
<1>7. ASSUME handler'[t][m] = handler[t][m] PROVE ~open'[t][m] \/ ~InUse(t, m)'
  <2>1. ~open[t][m] \/ ~InUse(t, m)
    BY <1>6, <1>7 DEF ReleasedIsClosed
  <2> QED BY <1>7, <2>1, StaysOutOfUse
<1>8. ASSUME Runner, handler'[t][m] # handler[t][m] PROVE ~open'[t][m] \/ ~InUse(t, m)'
  <2>1. ~open'[t][m] \/ ~InUse(t, m)
    BY <1>8, RunnerReleases
  <2> QED BY <1>1, <1>8, <2>1 DEF InUse
<1> QED BY <1>5, <1>7, <1>8

\* No side is left with a socket that works and that nobody at the relay
\* serves any more, as long as the session lasts.
THEOREM RelayReleasedIsClosed == Spec => []ReleasedIsClosed
<1>1. Init => NoticedIsOver /\ ReleasedIsClosed
  BY ConstantTypes DEF Init, NoticedIsOver, ReleasedIsClosed
<1>2. ReleasedInv /\ SessionInv' /\ [Next]_vars => ReleasedInv'
  BY NoticedStep, ReleasedStep DEF ReleasedInv, SessionInv
<1>3. Init /\ SessionInv => ReleasedInv
  BY <1>1 DEF ReleasedInv
<1>4. ReleasedInv => ReleasedIsClosed
  BY DEF ReleasedInv
<1> QED BY <1>2, <1>3, <1>4, SessionInvariant, PTL DEF Spec

-----------------------------------------------------------------------------
(* PumpsNeverBlock.                                                        *)

LEMMA OnePumpInit == Init => OnePump
BY DEF Init, OnePump

\* A pump has been started on the sides in D, which had none.
LEMMA StartedPumps ==
    ASSUME TypeOK, NEW D, NEW s \in Sides
    PROVE  /\ s \notin D => PumpsWith(D)[s] = pump[s]
           /\ s \in D /\ pump[s] = {} => \A p, q \in PumpsWith(D)[s] : p = q
BY DEF PumpsWith

\* Every report is from a side.
LEMMA ReportTypes ==
    ASSUME TypeOK
    PROVE  /\ results \in Seq(Result)
           /\ \A i \in 1..Len(results) : results[i] \in Result /\ results[i].from \in Sides
<1>1. results \in Seq(Result)
  BY DEF TypeOK
<1>2. \A i \in 1..Len(results) : results[i] \in Result
  BY <1>1
<1>3. \A r \in Result : r.from \in Sides
  BY DEF Result
<1> QED BY <1>1, <1>2, <1>3

LEMMA OnePumpResult ==
    ASSUME TypeOK, OnePump, TakeResult
    PROVE  OnePump'
<1> DEFINE r == Head(results)
<1>1. results \in Seq(Result) /\ results # <<>> /\ results' = Tail(results)
  BY DEF TypeOK, TakeResult
<1>2. 1 \in 1..Len(results) /\ r = results[1] /\ r.from \in Sides
  <2>1. 1 \in 1..Len(results) /\ r = results[1]
    BY <1>1
  <2> QED BY <2>1, ReportTypes
<1>3. \A i \in 1..Len(results') :
        i + 1 \in 1..Len(results) /\ i + 1 # 1 /\ results'[i] = results[i + 1]
  BY <1>1
<1>4. pump[r.from] = {}
  BY <1>2 DEF OnePump
<1>5. \A i \in 1..Len(results') :
        /\ results'[i].from \in Sides /\ results'[i].from # r.from
        /\ pump[results'[i].from] = {} /\ running[results'[i].from]
  <2> TAKE i \in 1..Len(results')
  <2>1. results[i + 1].from \in Sides
    BY <1>3, ReportTypes
  <2>2. /\ pump[results[i + 1].from] = {} /\ running[results[i + 1].from]
        /\ results[i + 1].from = results[1].from => i + 1 = 1
    BY <1>2, <1>3 DEF OnePump
  <2> QED BY <1>2, <1>3, <2>1, <2>2
<1>6. \A i, j \in 1..Len(results') : results'[i].from = results'[j].from => i = j
  <2> TAKE i, j \in 1..Len(results')
  <2>1. i + 1 = j + 1 => i = j
    OBVIOUS
  <2> QED BY <1>3, <2>1 DEF OnePump
<1>7. \/ pump' = pump /\ running' = [running EXCEPT ![r.from] = FALSE]
      \/ pump' = PumpsWith({r.from}) /\ running' = running
  BY DEF TakeResult, runVars
<1> HIDE DEF r
<1>8. running \in [Sides -> BOOLEAN] /\ pump \in [Sides -> SUBSET Pump]
  BY PumpTableTypes
<1>9. CASE pump' = pump /\ running' = [running EXCEPT ![r.from] = FALSE]
  <2>1. \A s \in Sides : running'[s] = IF s = r.from THEN FALSE ELSE running[s]
    BY <1>8, <1>9
  <2>2. \A i \in 1..Len(results') : running'[results'[i].from]
    BY <1>5, <2>1
  <2>3. \A s \in Sides : ~running'[s] => pump'[s] = {}
    BY <1>4, <1>9, <2>1 DEF OnePump
  <2> QED BY <1>5, <1>6, <1>9, <2>2, <2>3 DEF OnePump
<1>10. CASE pump' = PumpsWith({r.from}) /\ running' = running
  <2>1. \A s \in Sides : s # r.from => pump'[s] = pump[s]
    BY <1>10, StartedPumps
  <2>2. \A s \in Sides : \A p, q \in pump'[s] : p = q
    BY <1>4, <1>10, StartedPumps DEF OnePump
  <2>3. running[r.from]
    BY <1>2 DEF OnePump
  <2>4. \A s \in Sides : ~running'[s] => pump'[s] = {}
    BY <1>10, <2>1, <2>3 DEF OnePump
  <2>5. \A i \in 1..Len(results') : pump'[results'[i].from] = {} /\ running'[results'[i].from]
    BY <1>5, <1>10, <2>1
  <2> QED BY <1>6, <2>2, <2>4, <2>5 DEF OnePump
<1> QED BY <1>7, <1>9, <1>10

\* The pumps start again on the sides that are not marked as running, which
\* have no report to be taken.
LEMMA OnePumpTold ==
    ASSUME TypeOK, OnePump,
           pump' = PumpsWith(Startable), running' = [s \in Sides |-> TRUE], results' = results
    PROVE  OnePump'
<1>1. \A s \in Sides : s \in Startable <=> ~running[s]
  BY DEF Startable
<1>2. \A s \in Sides : \A p, q \in pump'[s] : p = q
  BY <1>1, StartedPumps DEF OnePump
<1>3. \A i \in 1..Len(results) : results[i].from \in Sides
  BY ReportTypes
<1>4. \A i \in 1..Len(results) : pump'[results[i].from] = {} /\ running'[results[i].from]
  BY <1>1, <1>3, StartedPumps DEF OnePump
<1> QED BY <1>2, <1>4 DEF OnePump

LEMMA OnePumpGoesOn ==
    ASSUME TypeOK, OnePump, NEW s \in Sides, PumpStep(s)
    PROVE  OnePump'
<1>1. PICK p \in pump[s] :
        PumpRead(s, p) \/ PumpReadFails(s, p) \/ PumpWrite(s, p) \/ PumpWriteFails(s, p)
  BY DEF PumpStep
<1>2. pump \in [Sides -> SUBSET Pump] /\ results \in Seq(Result)
  BY DEF TypeOK
<1>3. /\ pump[s] = {p} /\ running[s]
      /\ \A i \in 1..Len(results) : results[i].from # s
  <2>1. p \in pump[s]
    BY <1>1
  <2>2. pump[s] # {} /\ \A q \in pump[s] : q = p
    BY <2>1 DEF OnePump
  <2>3. running[s] /\ \A i \in 1..Len(results) : results[i].from # s
    BY <2>2 DEF OnePump
  <2> QED BY <2>1, <2>2, <2>3
<1>4. ASSUME NEW to, Advance(s, p, to) PROVE OnePump'
  <2>1. \A t \in Sides : pump'[t] = IF t = s THEN {[p EXCEPT !.pc = to]} ELSE pump[t]
    BY <1>2, <1>3, <1>4 DEF Advance
  <2>2. \A i \in 1..Len(results) : results[i].from \in Sides
    BY ReportTypes
  <2> QED BY <1>3, <1>4, <2>1, <2>2 DEF OnePump, Advance
<1>5. ASSUME NEW t \in Sides, NEW g \in Nat, NEW close \in BOOLEAN, Report(s, p, t, g, close)
      PROVE  OnePump'
  <2> DEFINE r == [from |-> s, failed |-> t, gen |-> g, close |-> close]
  <2>1. \A u \in Sides : pump'[u] = IF u = s THEN {} ELSE pump[u]
    BY <1>2, <1>3, <1>5 DEF Report
  <2>2. r \in Result /\ r.from = s
    BY DEF Result
  <2>3. results' = Append(results, r) /\ running' = running
    BY <1>5 DEF Report
  <2> HIDE DEF r
  <2>4. \A i \in 1..Len(results') :
          \/ i \in 1..Len(results) /\ results'[i] = results[i]
          \/ i = Len(results) + 1 /\ results'[i] = r
    BY <1>2, <2>2, <2>3
  <2>5. \A i \in 1..Len(results) : results[i].from \in Sides
    BY ReportTypes
  <2>6. \A i \in 1..Len(results') : pump'[results'[i].from] = {} /\ running'[results'[i].from]
    <3> TAKE i \in 1..Len(results')
    <3>1. CASE i \in 1..Len(results) /\ results'[i] = results[i]
      <4>1. pump[results[i].from] = {} /\ running[results[i].from]
        BY <3>1 DEF OnePump
      <4> QED BY <2>1, <2>3, <2>5, <3>1, <4>1
    <3>2. CASE results'[i] = r
      BY <1>3, <2>1, <2>2, <2>3, <3>2
    <3> QED BY <2>4, <3>1, <3>2
  <2>7. \A i, j \in 1..Len(results') : results'[i].from = results'[j].from => i = j
    BY <1>3, <2>2, <2>4 DEF OnePump
  <2>8. \A u \in Sides : ~running'[u] => pump'[u] = {}
    BY <2>1, <2>3 DEF OnePump
  <2>9. \A u \in Sides : \A x, y \in pump'[u] : x = y
    BY <2>1 DEF OnePump
  <2> QED BY <2>6, <2>7, <2>8, <2>9 DEF OnePump
<1>6. CASE PumpRead(s, p) \/ PumpWrite(s, p)
  BY <1>4, <1>6 DEF PumpRead, PumpWrite
<1>7. CASE PumpReadFails(s, p)
  <2>1. p.gen \in Nat
    BY <1>1, <1>2 DEF Pump
  <2> QED BY <1>5, <1>7, <2>1 DEF PumpReadFails
<1>8. CASE PumpWriteFails(s, p)
  <2>1. Other[s] \in Sides /\ endpoint[Other[s]].gen \in Nat
    BY ConstantTypes DEF TypeOK, Endpoint
  <2> QED BY <1>5, <1>8, <2>1 DEF PumpWriteFails
<1> QED BY <1>1, <1>6, <1>7, <1>8

LEMMA OnePumpStep ==
    ASSUME TypeOK, OnePump, [Next]_vars
    PROVE  OnePump'
<1> USE DEF sideVars, connVars, handlerVars, runVars, pumpVars
<1>1. ASSUME UNCHANGED pumpVars PROVE OnePump'
  BY <1>1 DEF OnePump
<1>2. ASSUME Runner PROVE OnePump'
  <2>1. \/ TakeResult
        \/ UNCHANGED pumpVars
        \/ pump' = PumpsWith(Startable) /\ running' = [s \in Sides |-> TRUE] /\ results' = results
    BY <1>2 DEF Runner, WindowExpires, WaitEnds, Pair, TellAgent, TellClient, Retry, Finish,
                TakeEarly, TakeAttachment, DropDead
  <2> QED BY <1>1, <2>1, OnePumpResult, OnePumpTold
<1>3. ASSUME NEW s \in Sides, CloseSession(s) \/ Refused(s) \/ ReportEnd PROVE OnePump'
  BY <1>1, <1>3 DEF CloseSession, Refused, ReportEnd
<1>4. ASSUME NEW s \in Sides, NEW n \in Conns, Socket(s, n) PROVE OnePump'
  BY <1>1, <1>4 DEF Socket, GiveUp, SilentExpires, Dial, Send, Lose, Enqueue, Release, Notice
<1>5. CASE UNCHANGED vars
  BY <1>1, <1>5 DEF vars
<1> QED BY <1>2, <1>3, <1>4, <1>5, OnePumpGoesOn, ConstantTypes DEF Next

\* Reports of different sides, and none of a side that has a pump.
LEMMA OnePumpFits ==
    ASSUME TypeOK, OnePump
    PROVE  PumpsNeverBlock
<1>1. \A s \in Sides : Cardinality(pump[s]) = IF pump[s] = {} THEN 0 ELSE 1
  <2> TAKE s \in Sides
  <2>1. CASE pump[s] = {}
    BY <2>1, FS_EmptySet
  <2>2. CASE pump[s] # {}
    <3>1. PICK p \in pump[s] : TRUE
      BY <2>2
    <3>2. pump[s] = {p}
      BY <3>1 DEF OnePump
    <3>3. Cardinality({p}) = 1
      BY FS_Singleton
    <3> QED BY <2>2, <3>2, <3>3
  <2> QED BY <2>1, <2>2
<1> DEFINE k == Len(results)
<1>2. k \in Nat
  BY ReportTypes
<1>3. \A i \in 1..k : results[i].from \in {Agent, Client} /\ pump[results[i].from] = {}
  BY ReportTypes DEF OnePump, Sides
<1>4. \A i, j \in 1..k : i # j => results[i].from # results[j].from
  BY DEF OnePump
<1>5. PumpsNeverBlock <=> k + Cardinality(pump[Agent]) + Cardinality(pump[Client]) <= 2
  BY DEF PumpsNeverBlock
<1> HIDE DEF k
<1>6. k <= 2
  <2>1. SUFFICES ASSUME k > 2 PROVE FALSE
    BY <1>2
  <2>2. 1 \in 1..k /\ 2 \in 1..k /\ 3 \in 1..k
    BY <1>2, <2>1
  <2>3. /\ results[1].from # results[2].from /\ results[1].from # results[3].from
        /\ results[2].from # results[3].from
    BY <1>4, <2>2
  <2>4. {results[1].from, results[2].from, results[3].from} \subseteq {Agent, Client}
    BY <1>3, <2>2
  <2> QED BY <2>3, <2>4
<1>7. ASSUME k = 2 PROVE pump[Agent] = {} /\ pump[Client] = {}
  <2>1. 1 \in 1..k /\ 2 \in 1..k
    BY <1>7
  <2>2. results[1].from # results[2].from
    BY <1>4, <2>1
  <2>3. /\ results[1].from \in {Agent, Client} /\ pump[results[1].from] = {}
        /\ results[2].from \in {Agent, Client} /\ pump[results[2].from] = {}
    BY <1>3, <2>1
  <2> QED BY <2>2, <2>3
<1>8. ASSUME k = 1 PROVE pump[Agent] = {} \/ pump[Client] = {}
  <2>1. 1 \in 1..k
    BY <1>8
  <2>2. results[1].from \in {Agent, Client} /\ pump[results[1].from] = {}
    BY <1>3, <2>1
  <2> QED BY <2>2
<1>9. k = 0 \/ k = 1 \/ k = 2
  BY <1>2, <1>6
<1>10. /\ Cardinality(pump[Agent]) = IF pump[Agent] = {} THEN 0 ELSE 1
       /\ Cardinality(pump[Client]) = IF pump[Client] = {} THEN 0 ELSE 1
  BY <1>1, ConstantTypes
<1> QED BY <1>5, <1>7, <1>8, <1>9, <1>10

\* There is a place in pumpDone for the report of each pump that runs: a pump
\* that outlives run can still report and stop.
THEOREM RelayPumpsNeverBlock == Spec => []PumpsNeverBlock
<1>1. TypeOK /\ OnePump /\ [Next]_vars => OnePump'
  BY OnePumpStep
<1>2. TypeOK /\ OnePump => PumpsNeverBlock
  BY OnePumpFits
<1> QED BY <1>1, <1>2, OnePumpInit, RelayTypeCorrect, PTL DEF Spec

-----------------------------------------------------------------------------
(* OldBeforeNew.                                                           *)

LEMMA OtherTwice ==
    \A s \in Sides : Other[s] \in Sides /\ Other[Other[s]] = s
BY ConstantTypes DEF Other, Sides

LEMMA OrderInit == Init => OrderInv
<1> SUFFICES ASSUME Init PROVE OrderInv
  OBVIOUS
<1>1. /\ queue = [s \in Sides |-> <<>>] /\ held = [s \in Sides |-> 0]
      /\ got = [s \in Sides |-> [n \in Conns |-> <<>>]]
  BY DEF Init
<1>2. \A s \in Sides : Len(queue[s]) = 0 /\ held[s] = 0
  BY <1>1
<1>3. \A s \in Sides, n \in Conns : Len(got[s][n]) = 0
  BY <1>1
<1>4. QueuedOnce
  BY <1>2 DEF QueuedOnce
<1>5. ToldIsTaken
  <2>1. SUFFICES ASSUME NEW s \in Sides, NEW n \in Conns, told[s][n] # 0
                 PROVE  handler[s][n] # "queuing"
    BY <1>2, ConstantTypes DEF ToldIsTaken
  <2>2. bridged
    BY <2>1 DEF Init
  <2>3. handler[s][n] = "none"
    BY <2>2 DEF Init
  <2> QED BY <2>3
<1>6. Bridged
  BY ConstantTypes DEF Init, Bridged, Telling
<1>7. PumpIsTold
  <2>1. SUFFICES ASSUME NEW s \in Sides, NEW p \in pump[s]
                 PROVE  p.src \in Conns /\ p.gen > 0 /\ told[s][p.src] = p.gen
    BY DEF PumpIsTold
  <2>2. bridged /\ p = [pc |-> "read", src |-> 1, gen |-> 1]
    BY <2>1 DEF Init
  <2>3. told[s][1] = 1
    BY <2>2, ConstantTypes DEF Init
  <2> QED BY <2>2, <2>3, ConstantTypes
<1>8. GotIsOld /\ OldBeforeNew
  BY <1>3 DEF GotIsOld, OldBeforeNew
<1> QED BY <1>4, <1>5, <1>6, <1>7, <1>8 DEF OrderInv

\* What the runner does to queues, handlers, attachments and sockets.
LEMMA RunnerTakes ==
    ASSUME TypeOK, Runner
    PROVE  /\ queue' = queue \/ \E s \in Sides :
                queue[s] # <<>> /\ queue' = [queue EXCEPT ![s] = Tail(@)]
           /\ \A s \in Sides, n \in Conns : handler'[s][n] \in {handler[s][n], "released"}
           /\ \A s \in Sides : \/ held'[s] = held[s] \/ held'[s] = 0
                               \/ /\ queue[s] # <<>> /\ held'[s] = Head(queue[s])
                                  /\ queue'[s] = Tail(queue[s])
           /\ \A s \in Sides, n \in Conns : open'[s][n] => open[s][n]
<1> USE DEF sideVars, connVars, handlerVars, runVars
<1>1. queue' = queue \/ \E s \in Sides : queue[s] # <<>> /\ queue' = [queue EXCEPT ![s] = Tail(@)]
  BY DEF Runner, TakeResult, WindowExpires, WaitEnds, Pair, TellAgent, TellClient, Finish, TakeEarly,
         TakeAttachment, DropDead, Interrupt, Retry
<1>2. handler' = handler \/ \E C : handler' = Done(C)
  BY DEF Runner, TakeResult, WindowExpires, WaitEnds, Pair, TellAgent, TellClient,
         Finish, TakeEarly, TakeAttachment, DropDead, Interrupt, Retry, LetGo
<1>3. \A s \in Sides, n \in Conns : handler'[s][n] \in {handler[s][n], "released"}
  BY <1>2 DEF Done
<1>4. \/ held' = held \/ held' = Nobody
      \/ \E s \in Sides : held' = [held EXCEPT ![s] = 0]
      \/ \E s \in Sides :
           /\ queue[s] # <<>> /\ queue' = [queue EXCEPT ![s] = Tail(@)]
           /\ \/ held' = [held EXCEPT ![s] = Head(queue[s])]
              \/ held' = [Nobody EXCEPT ![s] = Head(queue[s])]
  BY DEF Runner, TakeResult, WindowExpires, WaitEnds, Pair, TellAgent, TellClient, Finish, TakeEarly,
         TakeAttachment, DropDead, Interrupt, Retry
<1>5. held \in [Sides -> 0..MaxConn] /\ queue \in [Sides -> Seq(Conns)]
  BY DEF TypeOK
<1>6. \A s \in Sides : \/ held'[s] = held[s] \/ held'[s] = 0
                       \/ /\ queue[s] # <<>> /\ held'[s] = Head(queue[s])
                          /\ queue'[s] = Tail(queue[s])
  BY <1>4, <1>5 DEF Nobody
<1>7. open' = open \/ \E C : open' = Shut(C)
  BY DEF Runner, TakeResult, WindowExpires, WaitEnds, Pair, TellAgent, TellClient, Finish, TakeEarly,
         TakeAttachment, DropDead, Interrupt, Retry, Superseded
<1>8. \A s \in Sides, n \in Conns : open'[s][n] => open[s][n]
  BY <1>7 DEF Shut
<1> QED BY <1>1, <1>3, <1>6, <1>8

\* What is left in a queue was in it; with one socket taken from its front.
LEMMA RestOfQueue ==
    ASSUME TypeOK, NEW s \in Sides, queue[s] # <<>>
    PROVE  /\ 1 \in 1..Len(queue[s]) /\ Head(queue[s]) = queue[s][1]
           /\ \A i \in 1..Len(Tail(queue[s])) :
                i + 1 \in 1..Len(queue[s]) /\ i + 1 # 1 /\ Tail(queue[s])[i] = queue[s][i + 1]
<1>1. queue[s] \in Seq(Conns)
  BY TableTypes
<1> QED BY <1>1

LEMMA QueuedRunner ==
    ASSUME TypeOK, QueuedOnce, Runner
    PROVE  QueuedOnce'
<1> SUFFICES ASSUME NEW s \in Sides
             PROVE  /\ \A i, j \in 1..Len(queue'[s]) : queue'[s][i] = queue'[s][j] => i = j
                    /\ \A i \in 1..Len(queue'[s]) :
                         handler'[s][queue'[s][i]] # "queuing" /\ queue'[s][i] # held'[s]
                    /\ held'[s] # 0 => handler'[s][held'[s]] # "queuing"
  BY DEF QueuedOnce
<1>1. queue \in [Sides -> Seq(Conns)] /\ queue[s] \in Seq(Conns) /\ held[s] \in 0..MaxConn
  BY DEF TypeOK
<1>2. \A i \in 1..Len(queue[s]) : queue[s][i] \in Conns
  BY <1>1
<1>3. \A n \in Conns : handler[s][n] # "queuing" => handler'[s][n] # "queuing"
  BY RunnerTakes
<1>4. held[s] # 0 => held[s] \in Conns
  BY <1>1 DEF Conns
<1>5. held[s] # 0 => handler'[s][held[s]] # "queuing"
  BY <1>3, <1>4 DEF QueuedOnce
<1>6. \A i \in 1..Len(queue[s]) :
        /\ handler'[s][queue[s][i]] # "queuing"
        /\ queue[s][i] # held[s] /\ queue[s][i] # 0
  <2> TAKE i \in 1..Len(queue[s])
  <2>1. queue[s][i] \in Conns /\ handler[s][queue[s][i]] # "queuing" /\ queue[s][i] # held[s]
    BY <1>2 DEF QueuedOnce
  <2> QED BY <1>3, <2>1, ConstantTypes
<1>7. CASE queue'[s] = queue[s]
  <2>1. held'[s] = held[s] \/ held'[s] = 0 \/ (queue[s] # <<>> /\ queue[s] = Tail(queue[s]))
    BY <1>7, RunnerTakes
  <2>2. queue[s] # <<>> => queue[s] # Tail(queue[s])
    <3>1. queue[s] # <<>> => Len(Tail(queue[s])) # Len(queue[s])
      BY <1>1
    <3> QED BY <3>1
  <2>3. held'[s] = held[s] \/ held'[s] = 0
    BY <2>1, <2>2
  <2> QED BY <1>5, <1>6, <1>7, <2>3 DEF QueuedOnce
<1>8. CASE queue[s] # <<>> /\ queue'[s] = Tail(queue[s])
  <2>1. \A i \in 1..Len(queue'[s]) :
          i + 1 \in 1..Len(queue[s]) /\ i + 1 # 1 /\ queue'[s][i] = queue[s][i + 1]
    BY <1>8, RestOfQueue
  <2>2. \A i, j \in 1..Len(queue'[s]) : queue'[s][i] = queue'[s][j] => i = j
    <3> TAKE i, j \in 1..Len(queue'[s])
    <3>1. i + 1 = j + 1 => i = j
      OBVIOUS
    <3> QED BY <2>1, <3>1 DEF QueuedOnce
  <2>3. held'[s] \in {held[s], 0, queue[s][1]} /\ 1 \in 1..Len(queue[s])
    BY <1>8, RestOfQueue, RunnerTakes
  <2>4. \A i \in 1..Len(queue'[s]) :
          handler'[s][queue'[s][i]] # "queuing" /\ queue'[s][i] # held'[s]
    <3> TAKE i \in 1..Len(queue'[s])
    <3>1. queue[s][i + 1] # queue[s][1]
      BY <2>1, <2>3 DEF QueuedOnce
    <3>2. /\ handler'[s][queue[s][i + 1]] # "queuing"
          /\ queue[s][i + 1] # held[s] /\ queue[s][i + 1] # 0
      BY <1>6, <2>1
    <3> QED BY <2>1, <2>3, <3>1, <3>2
  <2>5. held'[s] # 0 => handler'[s][held'[s]] # "queuing"
    BY <1>5, <1>6, <2>3
  <2> QED BY <2>2, <2>4, <2>5
<1>9. queue'[s] = queue[s] \/ (queue[s] # <<>> /\ queue'[s] = Tail(queue[s]))
  BY <1>1, RunnerTakes
<1> QED BY <1>7, <1>8, <1>9

\* Only a socket that the relay has never heard of begins to wait for its
\* place in the queue, and it gets it once.
LEMMA QueueGrows ==
    ASSUME TypeOK, Opened, [Next]_vars, ~Runner, NEW s \in Sides
    PROVE  /\ \A n \in Conns : handler'[s][n] = "queuing" =>
                handler[s][n] = "queuing" \/ Unknown(s, n)
           /\ \/ queue'[s] = queue[s]
              \/ \E n \in Conns : /\ handler[s][n] = "queuing" /\ handler'[s][n] # "queuing"
                                  /\ queue'[s] = Append(queue[s], n)
<1> USE DEF sideVars, connVars, handlerVars, runVars, pumpVars
<1>0. handler \in [Sides -> [Conns -> HandlerStates]] /\ queue \in [Sides -> Seq(Conns)]
  BY TableTypes
<1>1. ASSUME NEW t \in Sides, PumpStep(t) \/ CloseSession(t) \/ Refused(t) \/ ReportEnd
      PROVE  UNCHANGED <<handler, queue>>
  BY <1>1 DEF PumpStep, PumpRead, PumpReadFails, PumpWrite, PumpWriteFails, CloseSession, Refused,
              ReportEnd
<1>2. ASSUME NEW t \in Sides, NEW m \in Conns,
             GiveUp(t, m) \/ SilentExpires(t, m) \/ Send(t, m) \/ Lose(t, m) \/ Notice(t, m)
      PROVE  UNCHANGED <<handler, queue>>
  BY <1>2 DEF GiveUp, SilentExpires, Send, Lose, Notice
<1>3. ASSUME NEW t \in Sides, NEW m \in Conns, Dial(t, m)
      PROVE  /\ UNCHANGED queue /\ handler' = [handler EXCEPT ![t][m] = "queuing"]
             /\ Unknown(t, m)
  <2>1. (m < m) = (peer[t][m] # "none")
    BY <1>3 DEF Dial
  <2>2. peer[t][m] = "none"
    BY <2>1, ConstantTypes
  <2> QED BY <1>3, <2>2 DEF Dial, Opened
<1>4. ASSUME NEW t \in Sides, NEW m \in Conns, Enqueue(t, m) \/ Release(t, m)
      PROVE  /\ \/ handler' = [handler EXCEPT ![t][m] = "attached"]
                \/ handler' = [handler EXCEPT ![t][m] = "released"]
             /\ \/ UNCHANGED queue
                \/ /\ handler[t][m] = "queuing"
                   /\ queue' = [queue EXCEPT ![t] = Append(@, m)]
  BY <1>4 DEF Enqueue, Release
<1>5. CASE UNCHANGED <<handler, queue>>
  BY <1>5
<1>6. ASSUME NEW t \in Sides, NEW m \in Conns, Dial(t, m)
      PROVE  /\ \A n \in Conns : handler'[s][n] = "queuing" =>
                  handler[s][n] = "queuing" \/ Unknown(s, n)
             /\ queue'[s] = queue[s]
  <2>1. \A n \in Conns : handler'[s][n] = IF s = t /\ n = m THEN "queuing" ELSE handler[s][n]
    BY <1>0, <1>3, <1>6
  <2>2. Unknown(t, m) /\ queue' = queue
    BY <1>3, <1>6
  <2> QED BY <2>1, <2>2
<1>7. ASSUME NEW t \in Sides, NEW m \in Conns, Enqueue(t, m) \/ Release(t, m)
      PROVE  /\ \A n \in Conns : handler'[s][n] = "queuing" => handler[s][n] = "queuing"
             /\ \/ queue'[s] = queue[s]
                \/ /\ handler[s][m] = "queuing" /\ handler'[s][m] # "queuing"
                   /\ queue'[s] = Append(queue[s], m)
  BY <1>0, <1>4, <1>7
<1>8. CASE UNCHANGED vars
  BY <1>5, <1>8 DEF vars
<1> QED BY <1>1, <1>2, <1>5, <1>6, <1>7, <1>8, ConstantTypes DEF Next, Socket

LEMMA QueuedOthers ==
    ASSUME TypeOK, Opened, QueuedOnce, [Next]_vars, ~Runner
    PROVE  QueuedOnce'
<1> SUFFICES ASSUME NEW s \in Sides
             PROVE  /\ \A i, j \in 1..Len(queue'[s]) : queue'[s][i] = queue'[s][j] => i = j
                    /\ \A i \in 1..Len(queue'[s]) :
                         handler'[s][queue'[s][i]] # "queuing" /\ queue'[s][i] # held'[s]
                    /\ held'[s] # 0 => handler'[s][held'[s]] # "queuing"
  BY DEF QueuedOnce
<1>1. queue[s] \in Seq(Conns) /\ held[s] \in 0..MaxConn /\ held' = held
  BY OnlyRunner DEF TypeOK
<1>2. \A i \in 1..Len(queue[s]) : queue[s][i] \in Conns
  BY <1>1
<1>3. held[s] # 0 => held[s] \in Conns
  BY <1>1 DEF Conns
<1>4. \A i \in 1..Len(queue[s]) :
        handler'[s][queue[s][i]] # "queuing" /\ queue[s][i] # held[s]
  BY <1>2, QueueGrows DEF QueuedOnce, Unknown
<1>5. held[s] # 0 => handler'[s][held[s]] # "queuing"
  BY <1>3, QueueGrows DEF QueuedOnce, Unknown
<1>6. CASE queue'[s] = queue[s]
  BY <1>1, <1>4, <1>5, <1>6 DEF QueuedOnce
<1>7. ASSUME NEW n \in Conns, handler[s][n] = "queuing", handler'[s][n] # "queuing",
             queue'[s] = Append(queue[s], n)
      PROVE  /\ \A i, j \in 1..Len(queue'[s]) : queue'[s][i] = queue'[s][j] => i = j
             /\ \A i \in 1..Len(queue'[s]) :
                  handler'[s][queue'[s][i]] # "queuing" /\ queue'[s][i] # held'[s]
  <2>1. \A i \in 1..Len(queue'[s]) :
          \/ i \in 1..Len(queue[s]) /\ queue'[s][i] = queue[s][i]
          \/ i = Len(queue[s]) + 1 /\ queue'[s][i] = n
    BY <1>1, <1>7
  <2>2. \A i \in 1..Len(queue[s]) : queue[s][i] # n
    BY <1>7 DEF QueuedOnce
  <2>3. n # 0 /\ n # held[s]
    BY <1>7, ConstantTypes DEF QueuedOnce
  <2>4. \A i, j \in 1..Len(queue'[s]) : queue'[s][i] = queue'[s][j] => i = j
    <3> TAKE i, j \in 1..Len(queue'[s])
    <3>1. i \in 1..Len(queue[s]) /\ j \in 1..Len(queue[s]) /\ queue[s][i] = queue[s][j] => i = j
      BY DEF QueuedOnce
    <3> QED BY <2>1, <2>2, <3>1
  <2>5. \A i \in 1..Len(queue'[s]) :
          handler'[s][queue'[s][i]] # "queuing" /\ queue'[s][i] # held'[s]
    <3> TAKE i \in 1..Len(queue'[s])
    <3> QED BY <1>1, <1>4, <1>7, <2>1, <2>3
  <2> QED BY <2>4, <2>5
<1> QED BY <1>1, <1>5, <1>6, <1>7, QueueGrows

\* Tell is the only thing that tells, and it tells the attachment held.
LEMMA Telling1 ==
    ASSUME Runner
    PROVE  \/ told' = told
           \/ /\ TellAgent /\ Tell(Agent) /\ pc = "tellAgent" /\ pc' = "tellClient"
              /\ UNCHANGED <<held, endpoint, queue, handler>>
           \/ /\ TellClient /\ Tell(Client) /\ pc = "tellClient" /\ pc' \in {"select", "wait"}
              /\ held' = held \/ held' = Nobody
              /\ pc' = "wait" => held' = Nobody
              /\ UNCHANGED <<endpoint, queue>>
BY DEF Runner, TakeResult, WindowExpires, WaitEnds, Pair, TellAgent, TellClient, Finish, TakeEarly,
       TakeAttachment, DropDead, Interrupt, Retry, connVars, runVars, handlerVars

\* A socket is told to go on at most once, with the endpoints' generation.
LEMMA ToldOnce ==
    ASSUME TypeOK, ToldIsTaken, [Next]_vars, NEW s \in Sides, NEW n \in Conns
    PROVE  \/ told'[s][n] = told[s][n]
           \/ /\ told[s][n] = 0 /\ told'[s][n] = endpoint[s].gen /\ endpoint' = endpoint
              /\ held[s] = n
              /\ \/ s = Agent /\ TellAgent
                 \/ s = Client /\ TellClient
<1>1. ASSUME ~Runner PROVE told'[s][n] = told[s][n]
  BY <1>1, OnlyRunner
<1>2. told \in [Sides -> [Conns -> Nat]]
  BY TableTypes
<1>3. ASSUME NEW t \in Sides, Tell(t)
      PROVE  told'[s][n] = IF s = t /\ n = held[t] THEN endpoint[t].gen ELSE told[s][n]
  BY <1>2, <1>3 DEF Tell
<1>4. ASSUME TellAgent, Tell(Agent), pc = "tellAgent", endpoint' = endpoint
      PROVE  \/ told'[s][n] = told[s][n]
             \/ /\ told[s][n] = 0 /\ told'[s][n] = endpoint[s].gen
                /\ s = Agent /\ held[s] = n
  BY <1>3, <1>4, ConstantTypes DEF ToldIsTaken
<1>5. ASSUME TellClient, Tell(Client), pc = "tellClient", endpoint' = endpoint
      PROVE  \/ told'[s][n] = told[s][n]
             \/ /\ told[s][n] = 0 /\ told'[s][n] = endpoint[s].gen
                /\ s = Client /\ held[s] = n
  BY <1>3, <1>5, ConstantTypes DEF ToldIsTaken
<1> QED BY <1>1, <1>4, <1>5, Telling1

LEMMA TakenOthers ==
    ASSUME TypeOK, Opened, ToldIsTaken, [Next]_vars, ~Runner
    PROVE  ToldIsTaken'
<1> SUFFICES ASSUME NEW s \in Sides, NEW n \in Conns, told'[s][n] # 0
             PROVE  /\ handler'[s][n] # "queuing"
                    /\ \A i \in 1..Len(queue'[s]) : queue'[s][i] # n
                    /\ held'[s] = n => \/ pc' \in {"select", "returned", "over"}
                                       \/ pc' = "tellClient" /\ s = Agent
  BY DEF ToldIsTaken
<1>1. UNCHANGED <<told, held, pc>>
  BY OnlyRunner
<1>2. /\ told[s][n] # 0 /\ handler[s][n] # "queuing"
      /\ \A i \in 1..Len(queue[s]) : queue[s][i] # n
      /\ held[s] = n => \/ pc \in {"select", "returned", "over"}
                        \/ pc = "tellClient" /\ s = Agent
  BY <1>1 DEF ToldIsTaken
<1>3. handler'[s][n] # "queuing"
  BY <1>2, QueueGrows DEF Unknown
<1>4. queue[s] \in Seq(Conns)
  BY TableTypes
<1>5. ASSUME NEW m \in Conns, handler[s][m] = "queuing", queue'[s] = Append(queue[s], m),
             NEW i \in 1..Len(queue'[s])
      PROVE  queue'[s][i] # n
  <2>1. queue'[s][i] = m \/ (i \in 1..Len(queue[s]) /\ queue'[s][i] = queue[s][i])
    BY <1>4, <1>5
  <2> QED BY <1>2, <1>5, <2>1
<1>6. \A i \in 1..Len(queue'[s]) : queue'[s][i] # n
  BY <1>2, <1>5, QueueGrows
<1> QED BY <1>1, <1>2, <1>3, <1>6

LEMMA TakenRunner ==
    ASSUME TypeOK, QueuedOnce, ToldIsTaken, Runner
    PROVE  ToldIsTaken'
<1> SUFFICES ASSUME NEW s \in Sides, NEW n \in Conns, told'[s][n] # 0
             PROVE  /\ handler'[s][n] # "queuing"
                    /\ \A i \in 1..Len(queue'[s]) : queue'[s][i] # n
                    /\ held'[s] = n => \/ pc' \in {"select", "returned", "over"}
                                       \/ pc' = "tellClient" /\ s = Agent
  BY DEF ToldIsTaken
<1> USE DEF sideVars, connVars, handlerVars, runVars
<1>0. [Next]_vars /\ queue \in [Sides -> Seq(Conns)] /\ n # 0
  BY TableTypes, ConstantTypes DEF Next
<1>1. handler[s][n] # "queuing" /\ \A i \in 1..Len(queue[s]) : queue[s][i] # n
  <2>1. CASE told[s][n] # 0
    BY <2>1 DEF ToldIsTaken
  <2>2. CASE told[s][n] = 0
    <3>1. held[s] = n
      BY <1>0, <2>2, ToldOnce
    <3> QED BY <1>0, <3>1 DEF QueuedOnce
  <2>3. told[s][n] # 0 \/ told[s][n] = 0
    OBVIOUS
  <2> QED BY <2>1, <2>2
<1>2. handler'[s][n] # "queuing"
  BY <1>1, RunnerTakes
<1>3. \A i \in 1..Len(queue'[s]) : queue'[s][i] # n
  <2>1. queue'[s] = queue[s] \/ (queue[s] # <<>> /\ queue'[s] = Tail(queue[s]))
    BY <1>0, RunnerTakes
  <2>2. CASE queue[s] # <<>> /\ queue'[s] = Tail(queue[s])
    <3> TAKE i \in 1..Len(queue'[s])
    <3>1. i + 1 \in 1..Len(queue[s]) /\ queue'[s][i] = queue[s][i + 1]
      BY <2>2, RestOfQueue
    <3> QED BY <1>1, <3>1
  <2> QED BY <1>1, <2>1, <2>2
<1>4. ASSUME held'[s] = n
      PROVE  \/ pc' \in {"select", "returned", "over"}
             \/ pc' = "tellClient" /\ s = Agent
  <2>1. queue[s] # <<>> => Head(queue[s]) # n
    BY <1>1, RestOfQueue
  <2>2. held[s] = n
    BY <1>0, <1>4, <2>1, RunnerTakes
  <2>3. CASE told[s][n] = 0
    <3>1. (s = Agent /\ TellAgent) \/ (s = Client /\ TellClient)
      BY <1>0, <2>3, ToldOnce
    <3>2. told' # told
      BY <2>3
    <3> QED BY <1>0, <1>4, <3>1, <3>2, Telling1, ConstantTypes DEF Nobody, TellAgent, TellClient
  <2>4. CASE told[s][n] # 0
    <3>1. pc \in {"select", "returned", "over"} \/ (pc = "tellClient" /\ s = Agent)
      BY <2>2, <2>4 DEF ToldIsTaken
    <3>2. CASE pc = "tellClient"
      <4>1. TellClient
        BY <3>2 DEF Runner, TakeResult, WindowExpires, WaitEnds, Waiting, Pair, BothHeld, TellAgent,
                    Finish, TakeEarly, TakeAttachment, DropDead
      <4>2. pc' = "select" \/ held' = Nobody
        BY <4>1 DEF TellClient, Retry
      <4> QED BY <1>0, <1>4, <4>2 DEF Nobody
    <3>3. CASE pc \in {"select", "returned", "over"}
      <4>1. TakeResult \/ Finish \/ \E t \in Sides : TakeEarly(t)
        BY <3>3 DEF Runner, WindowExpires, WaitEnds, Waiting, Pair, BothHeld, TellAgent, TellClient,
                    TakeAttachment, DropDead
      <4>2. ASSUME NEW t \in Sides, TakeEarly(t)
            PROVE  pc' = pc \/ held'[s] = 0 \/ (queue[s] # <<>> /\ held'[s] = Head(queue[s]))
        BY <4>2 DEF TakeEarly, Interrupt, Nobody
      <4>3. ASSUME TakeResult \/ Finish
            PROVE  pc' = pc \/ pc' \in {"returned", "over"} \/ held' = Nobody
        BY <4>3 DEF TakeResult, Interrupt, Finish
      <4> QED BY <1>0, <1>4, <2>1, <3>3, <4>1, <4>2, <4>3 DEF Nobody
    <3> QED BY <3>1, <3>2, <3>3
  <2> QED BY <2>3, <2>4
<1> QED BY <1>2, <1>3, <1>4

LEMMA GenTypes ==
    ASSUME TypeOK
    PROVE  /\ \A s \in Sides : endpoint[s].gen \in Nat /\ endpoint[s].conn \in 0..MaxConn
           /\ \A s \in Sides, n \in Conns : told[s][n] \in Nat
           /\ \A s \in Sides : \A p \in pump[s] : p.gen \in Nat
           /\ got \in [Sides -> [Conns -> Seq(Nat)]]
<1>1. \A s \in Sides : endpoint[s].gen \in Nat /\ endpoint[s].conn \in 0..MaxConn
  BY DEF TypeOK, Endpoint
<1>2. \A s \in Sides, n \in Conns : told[s][n] \in Nat
  BY TableTypes
<1>3. \A s \in Sides : \A p \in pump[s] : p.gen \in Nat
  BY PumpTableTypes DEF Pump
<1>4. got \in [Sides -> [Conns -> Seq(Nat)]]
  BY DEF TypeOK
<1> QED BY <1>1, <1>2, <1>3, <1>4

\* Generations only grow.
LEMMA GenGrows ==
    ASSUME TypeOK, [Next]_vars, NEW s \in Sides
    PROVE  endpoint'[s].gen >= endpoint[s].gen
<1>1. endpoint' = endpoint \/ Pair
  BY OnlyRunner DEF Runner, TakeResult, WindowExpires, WaitEnds, TellAgent, TellClient, Finish,
         TakeEarly, TakeAttachment, DropDead, Interrupt, runVars
<1>2. ASSUME Pair PROVE endpoint'[s].gen = endpoint[s].gen + 1
  BY <1>2 DEF Pair
<1> QED BY <1>1, <1>2, GenTypes

LEMMA BridgedStep ==
    ASSUME SessionInv, SessionInv', ToldIsTaken, Bridged, [Next]_vars
    PROVE  Bridged'
<1> USE DEF SessionInv, Telling, sideVars, connVars, handlerVars, runVars
<1>1. \A s \in Sides, n \in Conns : told'[s][n] <= endpoint'[s].gen
  <2> TAKE s \in Sides, n \in Conns
  <2>1. told[s][n] <= endpoint[s].gen /\ endpoint'[s].gen >= endpoint[s].gen
    BY GenGrows DEF Bridged
  <2>2. told[s][n] \in Nat /\ endpoint[s].gen \in Nat /\ endpoint'[s].gen \in Nat
    BY GenTypes DEF TypeOK, Endpoint
  <2>3. told'[s][n] = told[s][n] \/ (told'[s][n] = endpoint[s].gen /\ endpoint' = endpoint)
    BY ToldOnce
  <2> QED BY <2>1, <2>2, <2>3
<1>2. ASSUME ~Runner PROVE Bridged'
  <2>1. UNCHANGED <<told, pc, held, endpoint>>
    BY <1>2, OnlyRunner
  <2>2. pc = "tellClient" => held[Agent] \in Conns
    <3>1. held[Agent] \in 0..MaxConn
      BY ConstantTypes DEF TypeOK
    <3>2. pc = "tellClient" => held[Agent] # 0
      BY ConstantTypes DEF HeldIsEndpoint
    <3> QED BY <3>1, <3>2 DEF Conns
  <2>3. pc = "tellClient" /\ open'[Agent][held[Agent]] => open[Agent][held[Agent]]
    BY <1>2, <2>2, OnlyDialOpens, ConstantTypes DEF Opened, Unknown
  <2> QED BY <1>1, <2>1, <2>3 DEF Bridged
<1>3. ASSUME Runner PROVE Bridged'
  <2>1. pc' = "select" =>
          TellClient \/ (pc = "select" /\ UNCHANGED <<told, endpoint>>)
    BY <1>3 DEF Runner, TakeResult, WindowExpires, WaitEnds, Waiting, Pair, TellAgent, Retry, Finish,
                TakeEarly, TakeAttachment, DropDead, Interrupt
  <2>2. ASSUME TellClient, pc' = "select", NEW s \in Sides
        PROVE  /\ endpoint'[s].conn \in Conns /\ endpoint'[s].gen > 0
               /\ told'[s][endpoint'[s].conn] = endpoint'[s].gen
    <3>1. /\ Tell(Client) /\ open[Agent][held[Agent]] /\ endpoint' = endpoint
          /\ pc = "tellClient"
      BY <2>2 DEF TellClient, Retry
    <3>2. endpoint[s].gen > 0 /\ held[s] = endpoint[s].conn /\ held[s] # 0
      BY <3>1 DEF Bridged, HeldIsEndpoint
    <3>3. endpoint[s].conn \in Conns
      BY <3>2, GenTypes, ConstantTypes DEF Conns
    <3>4. told' = [told EXCEPT ![Client][held[Client]] = endpoint[Client].gen]
      BY <3>1 DEF Tell
    <3>5. CASE s = Client
      BY <3>1, <3>2, <3>3, <3>4, <3>5, TableTypes
    <3>6. CASE s = Agent
      <4>1. told'[s][held[s]] = told[s][held[s]]
        BY <3>2, <3>3, <3>4, <3>6, TableTypes, ConstantTypes
      <4>2. told[s][held[s]] # 0
        BY <3>1, <3>6 DEF Bridged
      <4>3. told[s][held[s]] = endpoint[s].gen
        BY <3>1, <3>2, <3>3, <3>6, <4>2 DEF ToldIsEndpoint
      <4> QED BY <3>1, <3>2, <3>3, <4>1, <4>3
    <3> QED BY <3>5, <3>6 DEF Sides
  <2>3. pc' = "select" => \A s \in Sides :
          /\ endpoint'[s].conn \in Conns /\ endpoint'[s].gen > 0
          /\ told'[s][endpoint'[s].conn] = endpoint'[s].gen
    BY <2>1, <2>2 DEF Bridged
  <2>4. pc' \in {"tellAgent", "tellClient"} => Pair \/ TellAgent
    BY <1>3 DEF Runner, TakeResult, WindowExpires, WaitEnds, Waiting, TellClient, Retry, Finish,
                TakeEarly, TakeAttachment, DropDead, Interrupt
  <2>5. ASSUME Pair, NEW s \in Sides PROVE endpoint'[s].gen > 0
    <3>1. endpoint'[s].gen = endpoint[s].gen + 1
      BY <2>5 DEF Pair
    <3> QED BY <3>1, GenTypes
  <2>6. TellAgent => endpoint' = endpoint /\ pc = "tellAgent"
    BY DEF TellAgent, Retry
  <2>7. pc' \in {"tellAgent", "tellClient"} => \A s \in Sides : endpoint'[s].gen > 0
    BY <2>4, <2>5, <2>6 DEF Bridged
  <2>8. pc' = "tellClient" /\ open'[Agent][held'[Agent]] => told'[Agent][held'[Agent]] # 0
    <3> SUFFICES ASSUME pc' = "tellClient", open'[Agent][held'[Agent]]
                 PROVE  told'[Agent][held'[Agent]] # 0
      OBVIOUS
    <3>1. TellAgent
      BY <2>4 DEF Pair
    <3>2. held' = held
      BY <3>1 DEF TellAgent, Retry
    <3>3. held[Agent] # 0 /\ endpoint[Agent].gen > 0
      BY <2>6, <3>1, ConstantTypes DEF HeldIsEndpoint, Bridged
    <3>4. held[Agent] \in Conns
      <4>1. held[Agent] \in 0..MaxConn
        BY ConstantTypes DEF TypeOK
      <4> QED BY <3>3, <4>1 DEF Conns
    <3>5. Tell(Agent) \/ open' = Shut({<<Agent, held[Agent]>>})
      BY <3>1 DEF TellAgent, Retry
    <3>6. Tell(Agent)
      <4>1. ~Shut({<<Agent, held[Agent]>>})[Agent][held[Agent]]
        BY <3>4, ConstantTypes DEF Shut
      <4>2. open'[Agent][held[Agent]]
        BY <3>2
      <4> QED BY <3>5, <4>1, <4>2
    <3>7. told'[Agent][held[Agent]] = endpoint[Agent].gen
      BY <3>4, <3>6, TableTypes, ConstantTypes DEF Tell
    <3> QED BY <3>2, <3>3, <3>7, GenTypes, ConstantTypes
  <2> QED BY <1>1, <2>3, <2>7, <2>8 DEF Bridged
<1> QED BY <1>2, <1>3

\* A pump goes on reading from its socket, or has been started for the bridge.
LEMMA PumpsChange ==
    ASSUME TypeOK, [Next]_vars, NEW s \in Sides, NEW q \in pump'[s]
    PROVE  \/ \E p \in pump[s] : q.src = p.src /\ q.gen = p.gen
           \/ /\ pc' = "select" /\ UNCHANGED endpoint
              /\ q.src = endpoint[s].conn /\ q.gen = endpoint[s].gen
<1> USE DEF sideVars, connVars, handlerVars, runVars, pumpVars
<1>0. pump \in [Sides -> SUBSET Pump]
  BY PumpTableTypes
<1>1. CASE pump' = pump
  BY <1>1
<1>2. ASSUME NEW D, pump' = PumpsWith(D), pc' = "select", UNCHANGED endpoint
      PROVE  \/ q \in pump[s]
             \/ q.src = endpoint[s].conn /\ q.gen = endpoint[s].gen
  BY <1>2 DEF PumpsWith
<1>3. ASSUME Runner
      PROVE  \/ pump' = pump
             \/ \E D : pump' = PumpsWith(D) /\ pc' = "select" /\ UNCHANGED endpoint
  <2>1. TakeResult \/ TellClient \/ pump' = pump
    BY <1>3 DEF Runner, WindowExpires, WaitEnds, Pair, TellAgent, Retry, Finish,
                TakeEarly, TakeAttachment, DropDead
  <2>2. ASSUME TakeResult
        PROVE  \/ pump' = pump
               \/ \E t : pump' = PumpsWith({t}) /\ pc' = "select" /\ UNCHANGED endpoint
    BY <2>2 DEF TakeResult
  <2>3. ASSUME TellClient
        PROVE  \/ pump' = pump
               \/ pump' = PumpsWith(Startable) /\ pc' = "select" /\ UNCHANGED endpoint
    BY <2>3 DEF TellClient, Retry
  <2> QED BY <2>1, <2>2, <2>3
<1>4. ASSUME NEW t \in Sides, PumpStep(t)
      PROVE  \E p \in pump[s] : q.src = p.src /\ q.gen = p.gen
  <2>1. PICK p \in pump[t] :
          \/ pump' = [pump EXCEPT ![t] = @ \ {p}]
          \/ \E to \in {"read", "write"} :
               pump' = [pump EXCEPT ![t] = (@ \ {p}) \cup {[p EXCEPT !.pc = to]}]
    BY <1>4 DEF PumpStep, PumpRead, PumpReadFails, PumpWrite, PumpWriteFails, Advance, Report
  <2>2. p \in Pump
    BY <1>0, <2>1
  <2>3. \A to \in {"read", "write"} : [p EXCEPT !.pc = to].src = p.src /\ [p EXCEPT !.pc = to].gen = p.gen
    BY <2>2 DEF Pump
  <2>4. CASE pump' = [pump EXCEPT ![t] = @ \ {p}]
    BY <1>0, <2>4
  <2>5. ASSUME NEW to \in {"read", "write"},
               pump' = [pump EXCEPT ![t] = (@ \ {p}) \cup {[p EXCEPT !.pc = to]}]
        PROVE  \E x \in pump[s] : q.src = x.src /\ q.gen = x.gen
    <3>1. q \in pump[s] \/ (s = t /\ q = [p EXCEPT !.pc = to])
      BY <1>0, <2>5
    <3> QED BY <2>1, <2>3, <3>1
  <2> QED BY <2>1, <2>4, <2>5
<1>5. ASSUME NEW t \in Sides, CloseSession(t) \/ Refused(t) \/ ReportEnd PROVE pump' = pump
  BY <1>5 DEF CloseSession, Refused, ReportEnd
<1>6. ASSUME NEW t \in Sides, NEW n \in Conns, Socket(t, n) PROVE pump' = pump
  BY <1>6 DEF Socket, GiveUp, SilentExpires, Dial, Send, Lose, Enqueue, Release, Notice
<1> QED BY <1>1, <1>2, <1>3, <1>4, <1>5, <1>6, ConstantTypes DEF Next, vars

LEMMA PumpToldStep ==
    ASSUME TypeOK, ToldIsTaken, Bridged', PumpIsTold, [Next]_vars
    PROVE  PumpIsTold'
<1> SUFFICES ASSUME NEW s \in Sides, NEW q \in pump'[s]
             PROVE  q.src \in Conns /\ q.gen > 0 /\ told'[s][q.src] = q.gen
  BY DEF PumpIsTold
<1>1. ASSUME NEW p \in pump[s], q.src = p.src, q.gen = p.gen
      PROVE  q.src \in Conns /\ q.gen > 0 /\ told'[s][q.src] = q.gen
  <2>1. p.src \in Conns /\ p.gen > 0 /\ told[s][p.src] = p.gen /\ p.gen \in Nat
    BY GenTypes DEF PumpIsTold
  <2>2. told'[s][p.src] = told[s][p.src]
    BY <2>1, ToldOnce
  <2> QED BY <1>1, <2>1, <2>2
<1>2. ASSUME pc' = "select", UNCHANGED endpoint, q.src = endpoint[s].conn, q.gen = endpoint[s].gen
      PROVE  q.src \in Conns /\ q.gen > 0 /\ told'[s][q.src] = q.gen
  BY <1>2 DEF Bridged
<1> QED BY <1>1, <1>2, PumpsChange

\* Only a pump of the other side writes, to the endpoint and while it is open.
LEMMA GotChange ==
    ASSUME TypeOK, [Next]_vars, NEW s \in Sides, NEW n \in Conns
    PROVE  \/ got'[s][n] = got[s][n]
           \/ \E p \in pump[Other[s]] :
                /\ got'[s][n] = Append(got[s][n], p.src)
                /\ n = endpoint[s].conn /\ open[s][n] /\ UNCHANGED <<told, pc, endpoint>>
<1> USE DEF sideVars, connVars, handlerVars, runVars, pumpVars
<1>1. ASSUME Runner PROVE got' = got
  BY <1>1 DEF Runner, TakeResult, WindowExpires, WaitEnds, Pair, TellAgent, TellClient, Finish, TakeEarly,
              TakeAttachment, DropDead, Interrupt, Retry
<1>2. ASSUME NEW t \in Sides, CloseSession(t) \/ Refused(t) \/ ReportEnd PROVE got' = got
  BY <1>2 DEF CloseSession, Refused, ReportEnd
<1>3. ASSUME NEW t \in Sides, NEW m \in Conns, Socket(t, m) PROVE got' = got
  BY <1>3 DEF Socket, GiveUp, SilentExpires, Dial, Send, Lose, Enqueue, Release, Notice
<1>4. ASSUME NEW t \in Sides, NEW p \in pump[t],
             PumpRead(t, p) \/ PumpReadFails(t, p) \/ PumpWriteFails(t, p)
      PROVE  got' = got
  BY <1>4 DEF PumpRead, PumpReadFails, PumpWriteFails
<1>5. ASSUME NEW t \in Sides, NEW p \in pump[t], PumpWrite(t, p)
      PROVE  \/ got'[s][n] = got[s][n]
             \/ /\ p \in pump[Other[s]]
                /\ got'[s][n] = Append(got[s][n], p.src)
                /\ n = endpoint[s].conn /\ open[s][n] /\ UNCHANGED <<told, pc, endpoint>>
  <2> DEFINE u == Other[t]
             m == endpoint[u].conn
  <2>1. /\ got' = [got EXCEPT ![u][m] = Append(got[u][m], p.src)]
        /\ open[u][m] /\ UNCHANGED <<told, pc, endpoint>>
    BY <1>5 DEF PumpWrite
  <2>2. u \in Sides /\ Other[u] = t
    BY OtherTwice
  <2>3. got \in [Sides -> [Conns -> Seq(Nat)]]
    BY GenTypes
  <2>4. m = endpoint[u].conn
    OBVIOUS
  <2> HIDE DEF u, m
  <2>5. CASE s = u /\ n = m
    BY <2>1, <2>2, <2>3, <2>4, <2>5
  <2>6. CASE ~(s = u /\ n = m)
    BY <2>1, <2>2, <2>3, <2>6
  <2> QED BY <2>5, <2>6
<1>6. ASSUME NEW t \in Sides, PumpStep(t)
      PROVE  \/ got' = got
             \/ \E p \in pump[t] : PumpWrite(t, p)
  BY <1>4, <1>6 DEF PumpStep
<1> QED BY <1>1, <1>2, <1>3, <1>5, <1>6, ConstantTypes DEF Next, vars

LEMMA GotOldStep ==
    ASSUME SessionInv, SessionInv', OnePump, ToldIsTaken, Bridged, Bridged', PumpIsTold, GotIsOld,
           [Next]_vars
    PROVE  GotIsOld'
<1> USE DEF SessionInv
<1> SUFFICES ASSUME NEW s \in Sides, NEW n \in Conns, NEW i \in 1..Len(got'[s][n])
             PROVE  /\ got'[s][n][i] \in Conns /\ told'[Other[s]][got'[s][n][i]] # 0
                    /\ \A p \in pump'[Other[s]] : told'[Other[s]][got'[s][n][i]] <= p.gen
  BY DEF GotIsOld
<1> DEFINE t == Other[s]
           m == got'[s][n][i]
<1>1. t \in Sides
  BY OtherTwice
<1>2. \/ i \in 1..Len(got[s][n]) /\ m = got[s][n][i]
      \/ \E p \in pump[t] : m = p.src
  <2>1. got[s][n] \in Seq(Nat)
    BY GenTypes
  <2>2. ASSUME NEW p \in pump[t], got'[s][n] = Append(got[s][n], p.src)
        PROVE  (i \in 1..Len(got[s][n]) /\ m = got[s][n][i]) \/ m = p.src
    BY <2>1, <2>2
  <2> QED BY <2>2, GotChange
<1>3. \A p \in pump[t] : p.src \in Conns /\ told[t][p.src] = p.gen /\ p.gen > 0 /\ p.gen \in Nat
  BY <1>1, GenTypes DEF PumpIsTold
<1>4. /\ m \in Conns /\ told[t][m] # 0
      /\ \A p \in pump[t] : told[t][m] <= p.gen
  <2>1. CASE i \in 1..Len(got[s][n]) /\ m = got[s][n][i]
    BY <2>1 DEF GotIsOld
  <2>2. ASSUME NEW p \in pump[t], m = p.src
        PROVE  m \in Conns /\ told[t][m] # 0 /\ \A q \in pump[t] : told[t][m] <= q.gen
    <3>1. \A q \in pump[t] : q = p
      BY <1>1, <2>2 DEF OnePump
    <3>2. p.src \in Conns /\ told[t][p.src] = p.gen /\ p.gen > 0 /\ p.gen \in Nat
      BY <1>3, <2>2
    <3> QED BY <2>2, <3>1, <3>2
  <2> QED BY <1>2, <2>1, <2>2
<1>5. told'[t][m] = told[t][m]
  BY <1>1, <1>4, ToldOnce
<1> HIDE DEF t, m
<1>6. ASSUME NEW q \in pump'[t] PROVE told'[t][m] <= q.gen
  <2>1. ASSUME NEW p \in pump[t], q.gen = p.gen PROVE told'[t][m] <= q.gen
    BY <1>4, <1>5, <2>1
  <2>2. ASSUME UNCHANGED endpoint, q.gen = endpoint[t].gen PROVE told'[t][m] <= q.gen
    BY <1>1, <1>4, <1>5, <2>2 DEF Bridged
  <2> QED BY <1>1, <2>1, <2>2, PumpsChange
<1> QED BY <1>4, <1>5, <1>6 DEF t, m

LEMMA OldStep ==
    ASSUME SessionInv, SessionInv', ToldIsTaken, Bridged, PumpIsTold, GotIsOld, OldBeforeNew,
           [Next]_vars
    PROVE  OldBeforeNew'
<1> USE DEF SessionInv
<1> SUFFICES ASSUME NEW s \in Sides, NEW n \in Conns
             PROVE  /\ \A i \in 2..Len(got'[s][n]) :
                         told'[Other[s]][got'[s][n][i - 1]] <= told'[Other[s]][got'[s][n][i]]
                    /\ \A i \in 1..Len(got'[s][n]) : told'[s][n] # 0 =>
                         told'[Other[s]][got'[s][n][i]] <= told'[s][n]
  BY DEF OldBeforeNew
<1> DEFINE t == Other[s]
           g == got[s][n]
<1>1. t \in Sides /\ Other[t] = s /\ g \in Seq(Nat)
  BY OtherTwice, GenTypes
<1>2. endpoint[Agent].gen = endpoint[Client].gen
  BY DEF ToldIsEndpoint
<1>3. endpoint[s].gen = endpoint[t].gen /\ endpoint[s].gen \in Nat
  BY <1>1, <1>2, GenTypes DEF Sides
<1>4. \A i \in 1..Len(g) :
        /\ g[i] \in Conns /\ told[t][g[i]] # 0
        /\ \A p \in pump[t] : told[t][g[i]] <= p.gen
  BY DEF GotIsOld
<1>5. \A m \in Conns : told[t][m] \in Nat /\ told[t][m] <= endpoint[t].gen
  BY <1>1, GenTypes DEF Bridged
<1>6. \A i \in 1..Len(g) : told'[t][g[i]] = told[t][g[i]]
  BY <1>1, <1>4, ToldOnce
<1>7. /\ \A i \in 2..Len(g) : told[t][g[i - 1]] <= told[t][g[i]]
      /\ \A i \in 1..Len(g) : told[s][n] # 0 => told[t][g[i]] <= told[s][n]
  BY DEF OldBeforeNew
<1>8. told'[s][n] = told[s][n] \/ told'[s][n] = endpoint[s].gen
  BY ToldOnce
<1> HIDE DEF t, g
<1>9. \A i \in 2..Len(g) : told'[t][g[i - 1]] <= told'[t][g[i]]
  <2> TAKE i \in 2..Len(g)
  <2>1. i \in 1..Len(g) /\ i - 1 \in 1..Len(g)
    BY <1>1
  <2> QED BY <1>6, <1>7, <2>1
<1>10. \A i \in 1..Len(g) : told'[s][n] # 0 => told'[t][g[i]] <= told'[s][n]
  <2> TAKE i \in 1..Len(g)
  <2>1. CASE told'[s][n] = told[s][n]
    BY <1>6, <1>7, <2>1
  <2>2. CASE told'[s][n] = endpoint[s].gen
    BY <1>3, <1>4, <1>5, <1>6, <2>2
  <2> QED BY <1>8, <2>1, <2>2
<1>11. CASE got'[s][n] = g
  BY <1>9, <1>10, <1>11 DEF t
<1>12. ASSUME NEW p \in pump[t], got'[s][n] = Append(g, p.src), n = endpoint[s].conn, open[s][n],
              UNCHANGED <<told, pc, endpoint>>
       PROVE  /\ \A i \in 2..Len(got'[s][n]) :
                   told'[t][got'[s][n][i - 1]] <= told'[t][got'[s][n][i]]
              /\ \A i \in 1..Len(got'[s][n]) : told'[s][n] # 0 =>
                   told'[t][got'[s][n][i]] <= told'[s][n]
  <2>1. p.src \in Conns /\ p.src \in Nat /\ told[t][p.src] = p.gen
    BY <1>1, ConstantTypes DEF PumpIsTold
  <2>2. told[s][n] # 0 => told[s][n] = endpoint[s].gen
    BY <1>12 DEF ToldIsEndpoint
  <2>3. told[s][n] # 0 => told[t][p.src] <= told[s][n]
    BY <1>3, <1>5, <2>1, <2>2
  <2>4. \A i \in 1..Len(got'[s][n]) :
          \/ i \in 1..Len(g) /\ got'[s][n][i] = g[i]
          \/ i = Len(g) + 1 /\ got'[s][n][i] = p.src
    BY <1>1, <1>12, <2>1
  <2>5. Len(got'[s][n]) = Len(g) + 1 /\ Len(g) \in Nat
    BY <1>1, <1>12, <2>1
  <2>6. \A i \in 2..Len(got'[s][n]) :
          told'[t][got'[s][n][i - 1]] <= told'[t][got'[s][n][i]]
    <3> TAKE i \in 2..Len(got'[s][n])
    <3>1. i \in 1..Len(got'[s][n]) /\ i - 1 \in 1..Len(g)
      BY <2>5
    <3>2. i - 1 \in 1..Len(got'[s][n]) /\ i - 1 # Len(g) + 1
      BY <2>5, <3>1
    <3>3. got'[s][n][i - 1] = g[i - 1]
      BY <2>4, <3>2
    <3>4. CASE i \in 1..Len(g) /\ got'[s][n][i] = g[i]
      <4>1. i \in 2..Len(g)
        BY <2>5, <3>4
      <4> QED BY <1>9, <3>3, <3>4, <4>1
    <3>5. CASE got'[s][n][i] = p.src
      BY <1>4, <1>12, <2>1, <3>1, <3>3, <3>5
    <3> QED BY <2>4, <3>1, <3>4, <3>5
  <2>7. \A i \in 1..Len(got'[s][n]) : told'[s][n] # 0 =>
          told'[t][got'[s][n][i]] <= told'[s][n]
    <3> TAKE i \in 1..Len(got'[s][n])
    <3> QED BY <1>10, <1>12, <2>3, <2>4
  <2> QED BY <2>6, <2>7
<1> QED BY <1>11, <1>12, GotChange DEF t, g

\* Messages that a pump carries over from a socket that has been replaced
\* arrive before those of the new one, and never on a socket that is told of a
\* generation older than theirs.
THEOREM RelayOldBeforeNew == Spec => []OldBeforeNew
<1> DEFINE Inv == SessionInv /\ OnePump /\ OrderInv
<1>1. Init => OnePump /\ OrderInv
  BY OnePumpInit, OrderInit
<1>2. SessionInv /\ SessionInv' /\ OnePump /\ OrderInv /\ [Next]_vars => OnePump' /\ OrderInv'
  <2> SUFFICES ASSUME SessionInv, SessionInv', OnePump, OrderInv, [Next]_vars
               PROVE  OnePump' /\ OrderInv'
    OBVIOUS
  <2>1. TypeOK /\ Opened
    BY DEF SessionInv
  <2>2. /\ QueuedOnce /\ ToldIsTaken /\ Bridged /\ PumpIsTold /\ GotIsOld /\ OldBeforeNew
    BY DEF OrderInv
  <2>3. OnePump'
    BY <2>1, OnePumpStep
  <2>4. QueuedOnce' /\ ToldIsTaken'
    BY <2>1, <2>2, QueuedRunner, QueuedOthers, TakenRunner, TakenOthers
  <2>5. Bridged'
    BY <2>2, BridgedStep
  <2>6. PumpIsTold'
    BY <2>1, <2>2, <2>5, PumpToldStep
  <2>7. GotIsOld' /\ OldBeforeNew'
    BY <2>2, <2>5, GotOldStep, OldStep
  <2> QED BY <2>3, <2>4, <2>5, <2>6, <2>7 DEF OrderInv
<1>3. OrderInv => OldBeforeNew
  BY DEF OrderInv
<1> QED BY <1>1, <1>2, <1>3, SessionInvariant, PTL DEF Spec

=============================================================================
