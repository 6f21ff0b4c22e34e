----------------------------- MODULE RelaySession -----------------------------
(***************************************************************************)
(* relay/go/main.go, ResumeSession: the relay's end of a resumable         *)
(* session.  run pumps messages between an agent socket and a client       *)
(* socket; when either fails, or a side attaches a replacement, it aborts  *)
(* both, waits for one attachment of each side, tells both to resume, and  *)
(* pumps again.                                                            *)
(*                                                                         *)
(* The goroutines are run (the runner, with its program counter pc), two   *)
(* pumps, a ServeResume handler for each attachment and a readLoop for     *)
(* each attachment.  The two sides of the session are the environment.     *)
(* Sockets of a side are numbered in the order in which it opens them.     *)
(***************************************************************************)
EXTENDS Naturals, Sequences, FiniteSets

CONSTANTS Agent, Client,    \* the two sides
          MaxConn,          \* bound: sockets a side ever opens
          MaxFail,          \* bound: sockets that fail
          AgentSends, ClientSends,  \* bound: messages each side ever sends
          QueueCap,         \* capacity of the attachment queues
          WindowEnds,       \* bound: whether the resume window may end
          Closers,          \* bound: the sides that may close the session
          Starts,           \* bound: TRUE for Run, FALSE for RunRecovered
          Failures          \* bound: how a side may leave a socket that fails

ASSUME SidesAssumption == Agent # Client /\ Closers \subseteq {Agent, Client}
ASSUME SizesAssumption ==
    /\ MaxConn \in Nat \ {0} /\ QueueCap \in Nat \ {0}
    /\ Starts \subseteq BOOLEAN /\ Failures \subseteq {"gone", "silent"}
    /\ MaxFail \in Nat /\ AgentSends \in Nat /\ ClientSends \in Nat /\ WindowEnds \in BOOLEAN

Sides == {Agent, Client}
Conns == 1..MaxConn
Other == [s \in Sides |-> IF s = Agent THEN Client ELSE Agent]
Sends == [s \in Sides |-> IF s = Agent THEN AgentSends ELSE ClientSends]

VARIABLES
    \* the two sides
    peer,       \* peer[s][n]: what side s has done with its socket n
    ended,      \* ended[s]: side s has closed the session, or given it up
    sent, fails,
    \* sockets, as the relay has them
    open,       \* open[s][n]: the relay has not closed the socket
    inbox,      \* inbox[s][n]: messages from s that no pump has read
    got,        \* got[s][n]: history, the source sockets of the messages written to it
    told,       \* told[s][n]: generation of the start or resume message sent on it
    \* handlers and readLoops
    handler,    \* handler[s][n]: the ServeResume call of an attachment
    noticed,    \* noticed[s][n]: readLoop has seen the end of the attachment
    queue,      \* queue[s]: s.agent, s.client
    \* the runner
    pc, bridged,
    held,       \* held[s]: agentAttachment, clientAttachment (0: nil)
    endpoint,   \* endpoint[s]: agentEndpoint, clientEndpoint
    pump,       \* pump[s]: the pumps that read from side s
    running, results,
    done

sideVars == <<peer, ended, sent, fails>>
connVars == <<open, inbox, got, told>>
handlerVars == <<handler, noticed, queue>>
runVars == <<pc, bridged, held, endpoint>>
pumpVars == <<pump, running, results>>
vars == <<peer, ended, sent, fails, open, inbox, got, told, handler, noticed, queue,
          pc, bridged, held, endpoint, pump, running, results, done>>

-----------------------------------------------------------------------------

\* A socket of a side: not opened, in use, left without a close (an HTTP
\* stream), gone, closed with the reason "session closed".
PeerStates == {"none", "open", "silent", "gone", "closed"}
\* ServeResume: none (the first sockets), before its send on the queue, queued
\* or held by the runner, returned.
HandlerStates == {"none", "queuing", "attached", "released"}
RunnerStates == {"select", "wait", "tellAgent", "tellClient", "returned", "over"}

Endpoint == [conn : 0..MaxConn, gen : Nat]
Pump == [pc : {"read", "write"}, src : 0..MaxConn, gen : Nat]
\* pumpResult; close: isSessionClose of its error.
Result == [from : Sides, failed : Sides, gen : Nat, close : BOOLEAN]

TypeOK ==
    /\ peer \in [Sides -> [Conns -> PeerStates]]
    /\ ended \in [Sides -> BOOLEAN]
    /\ sent \in [Sides -> Nat] /\ fails \in 0..MaxFail
    /\ open \in [Sides -> [Conns -> BOOLEAN]]
    /\ inbox \in [Sides -> [Conns -> Nat]]
    /\ got \in [Sides -> [Conns -> Seq(Nat)]]
    /\ told \in [Sides -> [Conns -> Nat]]
    /\ handler \in [Sides -> [Conns -> HandlerStates]]
    /\ noticed \in [Sides -> [Conns -> BOOLEAN]]
    /\ queue \in [Sides -> Seq(Conns)] /\ \A s \in Sides : Len(queue[s]) <= QueueCap
    /\ pc \in RunnerStates /\ bridged \in BOOLEAN
    /\ held \in [Sides -> 0..MaxConn]
    /\ endpoint \in [Sides -> Endpoint]
    /\ pump \in [Sides -> SUBSET Pump] /\ running \in [Sides -> BOOLEAN]
    /\ results \in Seq(Result)
    /\ done \in BOOLEAN

\* Run starts with the first sockets of both sides, already told to start;
\* RunRecovered with the first attachment of one side.
Init ==
    /\ bridged \in Starts
    /\ \E first \in {{Agent, Client}, {Agent}, {Client}} :
         /\ bridged = (first = Sides)
         /\ peer = [s \in Sides |-> [n \in Conns |->
                      IF s \in first /\ n = 1 THEN "open" ELSE "none"]]
         /\ open = [s \in Sides |-> [n \in Conns |-> s \in first /\ n = 1]]
         /\ handler = [s \in Sides |-> [n \in Conns |->
                      IF s \in first /\ n = 1 /\ ~bridged THEN "queuing" ELSE "none"]]
    /\ told = [s \in Sides |-> [n \in Conns |-> IF bridged /\ n = 1 THEN 1 ELSE 0]]
    /\ endpoint = [s \in Sides |-> IF bridged THEN [conn |-> 1, gen |-> 1]
                                              ELSE [conn |-> 0, gen |-> 0]]
    /\ pc = IF bridged THEN "select" ELSE "wait"
    /\ running = [s \in Sides |-> bridged]
    /\ pump = [s \in Sides |->
                 IF bridged THEN {[pc |-> "read", src |-> 1, gen |-> 1]} ELSE {}]
    /\ ended = [s \in Sides |-> FALSE]
    /\ sent = [s \in Sides |-> 0] /\ fails = 0
    /\ inbox = [s \in Sides |-> [n \in Conns |-> 0]]
    /\ got = [s \in Sides |-> [n \in Conns |-> <<>>]]
    /\ noticed = [s \in Sides |-> [n \in Conns |-> FALSE]]
    /\ queue = [s \in Sides |-> <<>>]
    /\ held = [s \in Sides |-> 0]
    /\ results = <<>>
    /\ done = FALSE

-----------------------------------------------------------------------------
(* The sides: connectionLoop, dropTransport and Close of resumable.go.  A  *)
(* side uses one socket at a time and opens the next after it has left it. *)

InUse(s, n) == peer[s][n] = "open"

\* The side has a socket that works, as far as it can tell.
Connected(s) == \E n \in Conns : InUse(s, n) /\ open[s][n]

Leave(s, n, how) == peer' = [peer EXCEPT ![s][n] = how]

\* A transport fails, or an attachment is given up after peerWait.
GiveUp(s, n) ==
    /\ InUse(s, n) /\ open[s][n] /\ fails < MaxFail
    /\ fails' = fails + 1
    /\ \E how \in Failures : Leave(s, n, how)
    /\ UNCHANGED <<ended, sent, connVars, handlerVars, runVars, pumpVars, done>>

\* An HTTP stream that nobody polls any more.
SilentExpires(s, n) ==
    /\ peer[s][n] = "silent" /\ open[s][n]
    /\ Leave(s, n, "gone")
    /\ UNCHANGED <<ended, sent, fails, connVars, handlerVars, runVars, pumpVars, done>>

\* A socket that the relay has closed is left; then dialResume, and ServeResume
\* up to Attach, while the hub has the session.
Dial(s, n) ==
    /\ ~ended[s] /\ ~done /\ ~Connected(s)
    /\ \A m \in Conns : (m < n) = (peer[s][m] # "none")
    /\ peer' = [peer EXCEPT ![s] = [m \in Conns |->
                  IF m = n THEN "open" ELSE IF InUse(s, m) THEN "gone" ELSE @[m]]]
    /\ open' = [open EXCEPT ![s][n] = TRUE]
    /\ handler' = [handler EXCEPT ![s][n] = "queuing"]
    /\ UNCHANGED <<ended, sent, fails, inbox, got, told, noticed, queue, runVars, pumpVars, done>>

\* The session is finished: "unknown resumable session" is terminal.
Refused(s) ==
    /\ done /\ ~ended[s] /\ ~Connected(s)
    /\ ended' = [ended EXCEPT ![s] = TRUE]
    /\ UNCHANGED <<peer, sent, fails, connVars, handlerVars, runVars, pumpVars, done>>

\* Close: an attached transport is closed as "session closed", a waiting one
\* (AwaitWebSocketResume is cancelled) without that reason.
CloseSession(s) ==
    /\ s \in Closers /\ ~ended[s]
    /\ ended' = [ended EXCEPT ![s] = TRUE]
    /\ \/ /\ ~Connected(s)
          /\ UNCHANGED peer
       \/ \E n \in Conns :
            /\ InUse(s, n) /\ open[s][n]
            /\ \/ Leave(s, n, "gone")
               \/ told[s][n] # 0 /\ Leave(s, n, "closed")
    /\ UNCHANGED <<sent, fails, connVars, handlerVars, runVars, pumpVars, done>>

Send(s, n) ==
    /\ InUse(s, n) /\ open[s][n] /\ told[s][n] # 0 /\ sent[s] < Sends[s]
    /\ sent' = [sent EXCEPT ![s] = @ + 1]
    /\ inbox' = [inbox EXCEPT ![s][n] = @ + 1]
    /\ UNCHANGED <<peer, ended, fails, open, got, told, handlerVars, runVars, pumpVars, done>>

\* What the network, or the relay's socket buffer, has not passed on.
Lose(s, n) ==
    /\ inbox[s][n] > 0
    /\ ~open[s][n] \/ peer[s][n] \in {"silent", "gone"}
    /\ inbox' = [inbox EXCEPT ![s][n] = @ - 1]
    /\ UNCHANGED <<sideVars, open, got, told, handlerVars, runVars, pumpVars, done>>

\* The Work agent's session-closed control message: ServeAgentControl calls Finish.
ReportEnd ==
    /\ ended[Agent] /\ ~done
    /\ done' = TRUE
    /\ UNCHANGED <<sideVars, connVars, handlerVars, runVars, pumpVars>>

-----------------------------------------------------------------------------
(* Attachments: Attach, and readAheadConn.                                 *)

\* Mutant of Room: one place too many.
RoomForOneMore(s) == Len(queue[s]) <= QueueCap

Room(s) == Len(queue[s]) < QueueCap

\* The send on the queue.  Once the session is done both cases of the select
\* are ready; a handler whose own connection ends gives up, too.
Enqueue(s, n) ==
    /\ handler[s][n] = "queuing"
    /\ \/ /\ Room(s)
          /\ queue' = [queue EXCEPT ![s] = Append(@, n)]
          /\ handler' = [handler EXCEPT ![s][n] = "attached"]
          /\ UNCHANGED open
       \/ /\ done \/ ~InUse(s, n)
          /\ handler' = [handler EXCEPT ![s][n] = "released"]
          /\ open' = [open EXCEPT ![s][n] = FALSE]
          /\ UNCHANGED queue
    /\ UNCHANGED <<sideVars, inbox, got, told, noticed, runVars, pumpVars, done>>

\* Attach returns true because the session is done.
Release(s, n) ==
    /\ handler[s][n] = "attached" /\ done
    /\ handler' = [handler EXCEPT ![s][n] = "released"]
    /\ UNCHANGED <<sideVars, connVars, noticed, queue, runVars, pumpVars, done>>

\* readLoop's Read fails.
Notice(s, n) ==
    /\ handler[s][n] \in {"queuing", "attached"} /\ ~noticed[s][n]
    /\ ~open[s][n] \/ peer[s][n] \in {"gone", "closed"}
    /\ noticed' = [noticed EXCEPT ![s][n] = TRUE]
    /\ UNCHANGED <<sideVars, connVars, handler, queue, runVars, pumpVars, done>>

-----------------------------------------------------------------------------
(* The runner.                                                             *)

\* The relay closes the sockets in C, a set of <<side, socket>>.
Shut(C) == [s \in Sides |-> [n \in Conns |-> open[s][n] /\ <<s, n>> \notin C]]

\* closeOnce(attachment.Done) for the attachments in C.
Done(C) == [s \in Sides |-> [n \in Conns |->
              IF <<s, n>> \in C THEN "released" ELSE handler[s][n]]]

\* Mutant of Endpoints: only the agent's side is aborted.
AgentEndpoint == {<<Agent, endpoint[Agent].conn>>}

Endpoints == {<<s, endpoint[s].conn>> : s \in Sides}
Held == {<<s, held[s]>> : s \in Sides}
Nobody == [s \in Sides |-> 0]

\* startPump(s): nothing if the pump that reads from s is still running.
PumpsWith(started) ==
    [s \in Sides |-> IF s \notin started THEN pump[s] ELSE
       pump[s] \cup {[pc |-> "read", src |-> endpoint[s].conn, gen |-> endpoint[s].gen]}]

\* Mutant of Startable: startPump does not look at running.
AnySide == Sides

\* The sides without a running pump.
Startable == {s \in Sides : ~running[s]}

\* Both endpoints are aborted, their handlers released; what has attached
\* already is kept.
Interrupt(early) ==
    /\ open' = Shut(Endpoints)
    /\ handler' = Done(Held)
    /\ held' = early
    /\ pc' = "wait"
    /\ UNCHANGED <<inbox, got, told, noticed, bridged, endpoint>>

\* Mutant of Stale: the report of an obsolete pump is taken seriously.
NeverStale(r) == FALSE

\* The report concerns a socket that has been replaced.
Stale(r) == endpoint[r.failed].gen # r.gen

\* case result := <-pumpDone.
TakeResult ==
    /\ pc = "select" /\ results # <<>>
    /\ LET r == Head(results)
           stopped == [running EXCEPT ![r.from] = FALSE]
       IN /\ results' = Tail(results)
          /\ \/ /\ r.close
                /\ open' = Shut(Endpoints)
                /\ handler' = Done(Held)
                /\ pc' = "returned"
                /\ running' = stopped
                /\ UNCHANGED <<inbox, got, told, noticed, bridged, held, endpoint, pump>>
             \/ /\ ~r.close /\ Stale(r)
                /\ pump' = PumpsWith({r.from})
                /\ UNCHANGED <<connVars, handler, noticed, runVars, running>>
             \/ /\ ~r.close /\ ~Stale(r)
                /\ Interrupt(Nobody)
                /\ running' = stopped
                /\ UNCHANGED pump
    /\ UNCHANGED <<sideVars, queue, done>>

\* Mutant of LetGo: the attachment is dropped, its handler is not.
LetGoOfNobody(s, n) == {}

\* closeOnce(earlyAgent.Done), closeOnce(earlyClient.Done).
LetGo(s, n) == {<<s, n>>}

\* case earlyAgent = <-s.agent, case earlyClient = <-s.client.
TakeEarly(s) ==
    /\ pc = "select" /\ queue[s] # <<>>
    /\ queue' = [queue EXCEPT ![s] = Tail(@)]
    /\ LET n == Head(queue[s]) IN
         \/ /\ noticed[s][n]
            /\ handler' = Done(LetGo(s, n))
            /\ UNCHANGED <<connVars, noticed, runVars>>
         \/ /\ ~noticed[s][n]
            /\ Interrupt([Nobody EXCEPT ![s] = n])
    /\ UNCHANGED <<sideVars, pumpVars, done>>

Waiting == pc = "wait" /\ \E s \in Sides : held[s] = 0
BothHeld == pc = "wait" /\ \A s \in Sides : held[s] # 0

\* Mutant of Superseded: the attachment is replaced, not closed.
NothingSuperseded(s) == {}

Superseded(s) == {<<s, held[s]>>}

\* waitForAttachments and latestAttachment: a newer attachment replaces one
\* that is held.
TakeAttachment(s) ==
    /\ pc = "wait" /\ queue[s] # <<>>
    /\ Waiting \/ bridged
    /\ queue' = [queue EXCEPT ![s] = Tail(@)]
    /\ open' = Shut(Superseded(s))
    /\ handler' = Done({<<s, held[s]>>})
    /\ held' = [held EXCEPT ![s] = Head(queue[s])]
    /\ UNCHANGED <<sideVars, inbox, got, told, noticed, pc, bridged, endpoint, pumpVars, done>>

\* case <-agentDead, case <-clientDead; before a pair of run is told to
\* resume, isDead and keepLive.
DropDead(s) ==
    /\ pc = "wait" /\ held[s] # 0 /\ noticed[s][held[s]]
    /\ Waiting \/ (bridged /\ \A t \in Sides : queue[t] = <<>>)
    /\ handler' = Done({<<s, held[s]>>})
    /\ held' = [held EXCEPT ![s] = 0]
    /\ UNCHANGED <<sideVars, connVars, noticed, queue, pc, bridged, endpoint, pumpVars, done>>

\* Mutant of WindowMayEnd: the timer runs only until a side has attached.
WindowMayEndEmpty == WindowEnds /\ held = Nobody

WindowMayEnd == WindowEnds

\* case <-timer.C.
WindowExpires ==
    /\ WindowMayEnd /\ Waiting
    /\ open' = Shut(Held)
    /\ handler' = Done(Held)
    /\ held' = Nobody
    /\ pc' = "returned"
    /\ UNCHANGED <<sideVars, inbox, got, told, noticed, queue, bridged, endpoint, pumpVars, done>>

\* case <-s.done.
WaitEnds ==
    /\ done /\ Waiting
    /\ held' = Nobody
    /\ pc' = "returned"
    /\ UNCHANGED <<sideVars, connVars, handlerVars, bridged, endpoint, pumpVars, done>>

\* Replace for both endpoints (run), or the pair that run will start with.
Pair ==
    /\ BothHeld
    /\ bridged => \A s \in Sides : queue[s] = <<>> /\ ~noticed[s][held[s]]
    /\ endpoint' = [s \in Sides |-> [conn |-> held[s], gen |-> endpoint[s].gen + 1]]
    /\ pc' = "tellAgent"
    /\ UNCHANGED <<sideVars, connVars, handlerVars, bridged, held, pumpVars, done>>

Tell(s) == told' = [told EXCEPT ![s][held[s]] = endpoint[s].gen]

\* A write to a socket that the side has left may fail or vanish.
CanFail(s) == ~InUse(s, held[s])

\* "retry coordinated resume", "retry resume".
Retry ==
    /\ open' = Shut(Held)
    /\ handler' = Done(Held)
    /\ held' = Nobody
    /\ pc' = "wait"
    /\ UNCHANGED <<bridged, pump, running>>

TellAgent ==
    /\ pc = "tellAgent"
    /\ \/ /\ Tell(Agent)
          /\ pc' = "tellClient"
          /\ UNCHANGED <<open, handler, bridged, held, pump, running>>
       \/ /\ CanFail(Agent) /\ ~bridged
          /\ Retry
          /\ UNCHANGED told
       \/ /\ CanFail(Agent) /\ bridged
          /\ open' = Shut({<<Agent, held[Agent]>>})
          /\ pc' = "tellClient"
          /\ UNCHANGED <<told, handler, bridged, held, pump, running>>
    /\ UNCHANGED <<sideVars, inbox, got, noticed, queue, endpoint, results, done>>

\* Both told: the pumps start, and run's loop goes back to its select.
TellClient ==
    /\ pc = "tellClient"
    /\ \/ /\ Tell(Client)
          /\ open[Agent][held[Agent]]
          /\ pump' = PumpsWith(Startable)
          /\ running' = [s \in Sides |-> TRUE]
          /\ bridged' = TRUE
          /\ pc' = "select"
          /\ UNCHANGED <<open, handler, held>>
       \/ /\ Tell(Client)
          /\ ~open[Agent][held[Agent]]
          /\ Retry
       \/ /\ CanFail(Client)
          /\ Retry
          /\ UNCHANGED told
    /\ UNCHANGED <<sideVars, inbox, got, noticed, queue, endpoint, results, done>>

\* run's deferred calls: both endpoints aborted, Finish.
Finish ==
    /\ pc = "returned"
    /\ pc' = "over"
    /\ open' = Shut(Endpoints)
    /\ done' = TRUE
    /\ UNCHANGED <<sideVars, inbox, got, told, handlerVars, bridged, held, endpoint, pumpVars>>

-----------------------------------------------------------------------------
(* pumpResumable: s is the side that it reads from.                        *)

Report(s, p, failed, gen, close) ==
    /\ results' = Append(results, [from |-> s, failed |-> failed, gen |-> gen, close |-> close])
    /\ pump' = [pump EXCEPT ![s] = @ \ {p}]
    /\ UNCHANGED running

Advance(s, p, to) ==
    /\ pump' = [pump EXCEPT ![s] = (@ \ {p}) \cup {[p EXCEPT !.pc = to]}]
    /\ UNCHANGED <<running, results>>

\* An attachment's messages can be read after it has been closed here: they
\* are in readAheadConn's buffer.
PumpRead(s, p) ==
    /\ p.pc = "read"
    /\ inbox[s][p.src] > 0 /\ (open[s][p.src] \/ handler[s][p.src] # "none")
    /\ inbox' = [inbox EXCEPT ![s][p.src] = @ - 1]
    /\ Advance(s, p, "write")
    /\ UNCHANGED <<sideVars, open, got, told, handlerVars, runVars, done>>

\* The close frame is what the read of an open socket ends with; a socket
\* aborted here may end with it or without it.
PumpReadFails(s, p) ==
    /\ p.pc = "read"
    /\ \/ inbox[s][p.src] = 0 /\ peer[s][p.src] \in {"gone", "closed"}
       \/ ~open[s][p.src] /\ (inbox[s][p.src] = 0 \/ handler[s][p.src] = "none")
    /\ \E close \in BOOLEAN :
         /\ close => peer[s][p.src] = "closed"
         /\ ~close => peer[s][p.src] # "closed" \/ ~open[s][p.src]
         /\ Report(s, p, s, p.gen, close)
    /\ UNCHANGED <<sideVars, connVars, handlerVars, runVars, done>>

\* The destination is looked up after the message has been read.
PumpWrite(s, p) ==
    LET t == Other[s] n == endpoint[t].conn IN
    /\ p.pc = "write"
    /\ open[t][n]
    /\ got' = [got EXCEPT ![t][n] = Append(@, p.src)]
    /\ Advance(s, p, "read")
    /\ UNCHANGED <<sideVars, open, inbox, told, handlerVars, runVars, done>>

PumpWriteFails(s, p) ==
    LET t == Other[s] n == endpoint[t].conn IN
    /\ p.pc = "write"
    /\ ~open[t][n] \/ peer[t][n] \in {"gone", "closed"}
    /\ \E close \in BOOLEAN :
         /\ close => peer[t][n] = "closed"
         /\ Report(s, p, t, endpoint[t].gen, close)
    /\ UNCHANGED <<sideVars, connVars, handlerVars, runVars, done>>

-----------------------------------------------------------------------------

Runner ==
    \/ TakeResult \/ WindowExpires \/ WaitEnds \/ Pair \/ TellAgent \/ TellClient \/ Finish
    \/ \E s \in Sides : TakeEarly(s) \/ TakeAttachment(s) \/ DropDead(s)

PumpStep(s) == \E p \in pump[s] :
    PumpRead(s, p) \/ PumpReadFails(s, p) \/ PumpWrite(s, p) \/ PumpWriteFails(s, p)

Socket(s, n) ==
    \/ GiveUp(s, n) \/ SilentExpires(s, n) \/ Dial(s, n)
    \/ Send(s, n) \/ Lose(s, n) \/ Enqueue(s, n) \/ Release(s, n) \/ Notice(s, n)

Next ==
    \/ Runner \/ ReportEnd
    \/ \E s \in Sides :
         \/ PumpStep(s) \/ CloseSession(s) \/ Refused(s)
         \/ \E n \in Conns : Socket(s, n)

Spec == Init /\ [][Next]_vars

\* A pump that writes to a silent socket may hang until the socket is
\* aborted or expires.
PumpGoesOn(s) == \E p \in pump[s] :
    \/ PumpRead(s, p) \/ PumpReadFails(s, p) \/ PumpWriteFails(s, p)
    \/ PumpWrite(s, p) /\ peer[Other[s]][endpoint[Other[s]].conn] # "silent"

Fairness ==
    /\ WF_vars(Runner)
    /\ \A s \in Sides :
         /\ WF_vars(PumpGoesOn(s)) /\ WF_vars(Refused(s))
         /\ \A n \in Conns :
              /\ WF_vars(SilentExpires(s, n)) /\ WF_vars(Dial(s, n))
              /\ WF_vars(Enqueue(s, n)) /\ WF_vars(Release(s, n)) /\ WF_vars(Notice(s, n))

FairSpec == Spec /\ Fairness

-----------------------------------------------------------------------------
(* Properties.                                                             *)

\* Two sockets that have been told to start or resume and that the relay has
\* not closed belong to one generation: nobody goes on with a socket whose
\* other half has been replaced (the barrier that run's comment describes).
OneGeneration ==
    \A m, n \in Conns :
      open[Agent][m] /\ open[Client][n] /\ told[Agent][m] # 0 /\ told[Client][n] # 0
        => told[Agent][m] = told[Client][n]

\* On every socket the relay writes what it read from older sockets of the
\* other side before what it read from newer ones, and nothing from a
\* generation that the socket does not belong to yet: a pump that outlives its
\* socket may carry messages over, but never behind or against the replay.
OldBeforeNew ==
    \A s \in Sides : \A n \in Conns :
      LET from(i) == told[Other[s]][got[s][n][i]] IN
      /\ \A i \in 2..Len(got[s][n]) : from(i - 1) <= from(i)
      /\ \A i \in 1..Len(got[s][n]) : told[s][n] # 0 => from(i) <= told[s][n]

\* pumpDone has room for every pump that runs, also after run has returned:
\* no pump blocks for ever on its report.
PumpsNeverBlock ==
    Len(results) + Cardinality(pump[Agent]) + Cardinality(pump[Client]) <= 2

\* While the session lasts, an attachment that the relay lets go of has been
\* closed, by the relay or by its side: no side keeps waiting on a socket
\* that nobody at the relay will look at again.
ReleasedIsClosed ==
    \A s \in Sides : \A n \in Conns :
      handler[s][n] = "released" /\ ~done => ~open[s][n] \/ ~InUse(s, n)

\* The same when the session is finished, as CHANGELOG.md:228 has it ("a
\* finished session is rejected immediately").  The code does not do it: Finish
\* releases the handlers of queued and held attachments without closing them.
FinishedIsClosed ==
    \A s \in Sides : \A n \in Conns :
      handler[s][n] = "released" => ~open[s][n] \/ ~InUse(s, n)

\* The bridge is up: both sides use the sockets that the relay pumps between.
Working ==
    /\ pc = "select"
    /\ \A s \in Sides :
         LET n == endpoint[s].conn IN
         /\ open[s][n] /\ InUse(s, n)
         /\ \E p \in pump[s] : p.src = n

\* When sockets stop failing, the bridge comes up and stays up, within two new
\* sockets of each side for each failure: late reports of old pumps and
\* attachments that cross on their way cause no endless round of resumes.
Recovers == <>[]Working

\* The handler of an attachment that its side has left returns.
AbandonedIsReleased ==
    \A s \in Sides : \A n \in Conns :
      handler[s][n] = "attached" /\ ~InUse(s, n) ~> handler[s][n] = "released"

\* A session that a side has ended is finished at the relay, at the latest
\* when the resume window has passed: sessions do not pile up.
EndsWithASide == \A s \in Sides : ended[s] ~> done

=============================================================================
