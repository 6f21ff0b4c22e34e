------------------------------ MODULE WorkAgent ------------------------------
(***************************************************************************)
(* windows/workservice/main.go with the relay of AgentControl: an agent's  *)
(* control loop, which dials again when its connection is gone, and the    *)
(* goroutine that serves an offer: the local service is dialed, the offer  *)
(* accepted, the data socket connected and, once the relay is ready,       *)
(* bytes are piped until an end closes.  All sessions of an agent share a  *)
(* limit of places, whatever control their offers came down.               *)
(***************************************************************************)
EXTENDS AgentControl

VARIABLES link,      \* link[a]: the control an agent reads
          session,   \* session[s]: where serveOfferedSession stands
          via        \* via[s]: the control its offer came down

agentVars == <<link, session, via>>
vars == <<relayVars, agentVars>>

SessionStates == {"none", "dialing", "connecting", "waiting", "running", "ended"}

Init ==
    /\ RelayInit
    /\ link = [a \in Agent |-> None]
    /\ session = [s \in Client |-> "none"] /\ via = [s \in Client |-> None]

Busy(a) == {s \in Client : via[s] # None /\ AgentOf(via[s]) = a /\ session[s] \notin {"none", "ended"}}
HasSlot(a) == Cardinality(Busy(a)) < plan.limit[a]

-----------------------------------------------------------------------------
(* The control loop.                                                       *)

Unused(a) == {c \in Control : plan.dials[c] = a /\ control[c] = "idle"}
DialControl(a) ==
    /\ link[a] = None
    /\ \E c \in Unused(a) :
         /\ \A d \in Unused(a) : c <= d
         /\ link' = [link EXCEPT ![a] = c] /\ control' = [control EXCEPT ![c] = "arrived"]
    /\ UNCHANGED <<plan, roomVars, controls, previous, closed, active, clientVars, dataVars, netVars,
                   gone, boardVars, session, via>>

\* The connection has ended, or the heartbeat has missed its answers.
LoseLink(a) ==
    /\ link[a] # None /\ Dead(link[a]) /\ (toAgent[link[a]] = <<>> \/ link[a] \in closed)
    /\ link' = [link EXCEPT ![a] = None]
    /\ UNCHANGED <<relayVars, session, via>>

\* An offer that has run out, or finds no place free, is declined.
ReadOffer(a) ==
    /\ link[a] # None /\ toAgent[link[a]] # <<>>
    /\ LET c == link[a]
           m == Head(toAgent[c]) IN
         /\ toAgent' = [toAgent EXCEPT ![c] = Tail(@)]
         /\ IF m[1] = "ready" THEN UNCHANGED <<toRelay, session, via>>
            ELSE IF m[2] \in expired THEN ToRelay(c, <<"disabled", m[2]>>) /\ UNCHANGED <<session, via>>
            ELSE IF ~HasSlot(a) THEN ToRelay(c, <<"busy", m[2]>>) /\ UNCHANGED <<session, via>>
            ELSE /\ session' = [session EXCEPT ![m[2]] = "dialing"]
                 /\ via' = [via EXCEPT ![m[2]] = c] /\ UNCHANGED toRelay
    /\ UNCHANGED <<plan, roomVars, controlVars, active, clientVars, dataVars, cut, cuts, gone, boardVars,
                   link>>

-----------------------------------------------------------------------------
(* serveOfferedSession.                                                    *)

Ended(s) == session' = [session EXCEPT ![s] = "ended"]

\* The answer goes up the control the offer came down.
DialLocal(s) ==
    /\ session[s] = "dialing"
    /\ \/ session' = [session EXCEPT ![s] = "connecting"] /\ ToRelay(via[s], <<"accept", s>>)
       \/ Dead(via[s]) /\ Ended(s) /\ UNCHANGED toRelay
       \/ s \in plan.failing /\ Ended(s) /\ ToRelay(via[s], <<"disabled", s>>)
    /\ UNCHANGED <<plan, roomVars, controlVars, active, clientVars, dataVars, toAgent, cut, cuts, gone,
                   boardVars, link, via>>

DialData(s) ==
    /\ session[s] = "connecting"
    /\ \/ /\ session' = [session EXCEPT ![s] = "waiting"] /\ data' = [data EXCEPT ![s] = "arrived"]
          /\ dataAgent' = [dataAgent EXCEPT ![s] = AgentOf(via[s])]
       \/ s \in plan.failing /\ Ended(s) /\ UNCHANGED dataVars
    /\ UNCHANGED <<plan, roomVars, controlVars, active, clientVars, netVars, gone, boardVars, link, via>>

AwaitReady(s) ==
    /\ session[s] = "waiting" /\ data[s] \in {"told", "over"}
    /\ session' = [session EXCEPT ![s] = IF data[s] = "told" THEN "running" ELSE "ended"]
    /\ UNCHANGED <<relayVars, link, via>>

\* An offer has a time limit, for the relay and for the agent's session.
Underway(s) == \/ client[s] \in {"pending", "offered", "accepted"}
               \/ session[s] \in {"dialing", "connecting", "waiting"}
Expire(s) ==
    /\ s \in plan.late /\ Underway(s) /\ s \notin expired
    /\ expired' = expired \cup {s}
    /\ UNCHANGED <<plan, roomVars, controlVars, active, client, told, owner, pending, response, dataVars,
                   netVars, gone, boardVars, agentVars>>

\* The session's context ends with the offer.
SessionDeadline(s) ==
    /\ s \in expired /\ session[s] \in {"connecting", "waiting"}
    /\ Ended(s)
    /\ UNCHANGED <<relayVars, link, via>>

\* The pipe has ended; the relay is told, on the control the offer came down.
CloseSession(s) ==
    /\ session[s] = "running"
    /\ Ended(s) /\ ToRelay(via[s], <<"session-closed", s>>)
    /\ UNCHANGED <<plan, roomVars, controlVars, active, clientVars, dataVars, toAgent, cut, cuts, gone,
                   boardVars, link, via>>

AgentStep(a) == DialControl(a) \/ LoseLink(a) \/ ReadOffer(a)
SessionStep(s) == DialLocal(s) \/ DialData(s) \/ AwaitReady(s) \/ SessionDeadline(s) \/ Expire(s)

Next == \/ RelayNext /\ UNCHANGED agentVars
        \/ \E a \in Agent : AgentStep(a)
        \/ \E s \in Client : SessionStep(s) \/ CloseSession(s)

Spec == Init /\ [][Next]_vars
\* Goroutines run, connections are read, time limits pass, dials end.
Settling == \/ RelayStep /\ UNCHANGED agentVars
            \/ \E a \in Agent : AgentStep(a)
            \/ \E s \in Client : SessionStep(s)
FairSpec == Spec /\ WF_vars(Settling)

-----------------------------------------------------------------------------
(* Properties.                                                             *)

TypeOK ==
    /\ credential \in Proof \cup {None}
    /\ controlCount \in Nat /\ pendingCount \in Nat /\ pairCount \in Nat
    /\ controls \in [Agent -> Control \cup {None}] /\ control \in [Control -> ControlStates]
    /\ previous \in [Control -> Control \cup {None}] /\ closed \subseteq Control
    /\ \A c \in Control : active[c] \in 0..plan.limit[AgentOf(c)]
    /\ client \in [Client -> ClientStates] /\ told \in [Client -> Results \cup {"nothing", "ready"}]
    /\ owner \in [Client -> Control \cup {None}] /\ pending \subseteq Client
    /\ response \in [Client -> Results \cup {"none"}] /\ expired \subseteq Client
    /\ data \in [Client -> DataStates] /\ dataAgent \in [Client -> Agent \cup {None}]
    /\ cut \subseteq Control /\ gone \subseteq Client
    /\ link \in [Agent -> Control \cup {None}] /\ session \in [Client -> SessionStates]

\* The places taken on a control are those of the clients that hold one there:
\* none is lost or given back twice, however controls replace each other.
Holding(c) == {s \in Client : owner[s] = c /\ client[s] # "done"}
PlacesAreHeld == \A c \in Control : active[c] = Cardinality(Holding(c))

\* A session runs between a client and the agent its offer went to, and the
\* two presented the same proof, whatever became of the room meanwhile.
PairAgrees ==
    \A s \in Client : client[s] = "running" =>
        /\ dataAgent[s] = AgentOf(owner[s]) /\ via[s] = owner[s]
        /\ plan.proof[s] = plan.agentProof[dataAgent[s]]
        /\ plan.service[s] \in plan.services[dataAgent[s]]
        /\ session[s] # "none" /\ told[s] = "ready"

\* Every client that arrives gets its session or is let go, and every offer an
\* agent takes up becomes a session or gives its place back: no answer, data
\* socket or connection that is lost leaves one of them waiting.
AttemptsSettle ==
    \A s \in Client : /\ client[s] = "arrived" ~> client[s] \in {"running", "done"}
                      /\ session[s] = "dialing" ~> session[s] \in {"running", "ended"}

\* What a dashboard shows in the end is how things are, whichever change came
\* while a snapshot was being written: the counters are right, no session that
\* runs is missing, and a rejection is missing only if it was one that nothing
\* announces, the refusal of a client that never had an offer.  A session that
\* is over may go on being shown: it is taken off after the last announcement.
RefusedAtOnce(s) == owner[s] = None \/ (told[s] = "busy" /\ response[s] = "none")
UpToDate ==
    /\ shown.counters = Counters /\ ActiveSessions \subseteq shown.sessions
    /\ shown.rejected \subseteq Rejected
    /\ \A s \in Rejected \ shown.rejected : RefusedAtOnce(s)
DashboardCatchesUp == <>[](plan.watched => UpToDate)
=============================================================================
