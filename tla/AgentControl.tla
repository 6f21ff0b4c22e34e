----------------------------- MODULE AgentControl -----------------------------
(***************************************************************************)
(* relay/go/main.go, protocol 2: how a Home client is put through to a     *)
(* Work agent.  An agent keeps a control connection to its room; a client  *)
(* that asks for a service gets a place on such a connection, an offer     *)
(* with a time limit is sent down it, and the agent accepts the offer and  *)
(* connects a data socket for it.  This module is the relay: the handlers  *)
(* of the three kinds of connection, the tables of the hub, the counters   *)
(* of the room, and the dashboards that show them.  One room; a session    *)
(* has the name of its client.  WorkAgent adds the agents.                 *)
(*                                                                         *)
(* An offer's time limit may pass at any moment.  Pings, the messages'     *)
(* formats and the log are left out.                                       *)
(***************************************************************************)
EXTENDS Naturals, Sequences, FiniteSets

CONSTANTS Agent, Client, Service, Proof,
          NoProof,         \* the proof of a room without a password
          None,
          MaxControls,     \* bound: control connections that are dialed
          PendingLimit,    \* offers the relay keeps at a time (4096)
          Plans            \* who takes part in a behaviour, and what fails

Control == 1..MaxControls
PlanType == [dials : [Control -> Agent],           \* who dials a control
             agentProof : [Agent -> Proof], services : [Agent -> SUBSET Service],
             limit : [Agent -> Nat \ {0}],
             clients : SUBSET Client, proof : [Client -> Proof], service : [Client -> Service],
             cuts : Nat,                           \* connections that break
             late : SUBSET Client,                 \* whose offers run out of time
             failing : SUBSET Client,              \* whose sessions may fail to start
             watched : BOOLEAN]                    \* a dashboard is connected
ASSUME NamesAssumption == None \notin Agent \cup Control /\ NoProof \in Proof
ASSUME BoundsAssumption == MaxControls \in Nat \ {0} /\ PendingLimit \in Nat \ {0}
ASSUME ClientsAssumption == IsFiniteSet(Client)
ASSUME PlansAssumption == Plans \subseteq PlanType

VARIABLES
    plan,
    \* the room
    credential,    \* roomProof, or None until credentialSet
    controlCount, pendingCount, pairCount,
    \* the hub, and the handler of each control connection
    controls,      \* h.controls: the current control of an agent
    control,       \* control[c]: where ServeAgentControl stands
    previous,      \* previous[c]: the control it replaces
    closed,        \* controls with closed set, their connections closed
    active,        \* active[c]: places taken on c
    \* the handler of each client
    client,        \* client[s]: where ServeV2Client stands
    told,          \* told[s]: what the client has been told
    owner,         \* owner[s]: the control a place is held on
    pending,       \* h.pending
    response,      \* response[s]: pending.Response, with room for one
    expired,       \* offers whose time limit has passed
    \* the handler of each data socket
    data, dataAgent,
    \* the network
    toAgent, toRelay, cut, cuts, gone,
    \* the dashboard
    notices, sending, shown

roomVars == <<credential, controlCount, pendingCount, pairCount>>
controlVars == <<controls, control, previous, closed>>
clientVars == <<client, told, owner, pending, response, expired>>
dataVars == <<data, dataAgent>>
netVars == <<toAgent, toRelay, cut, cuts>>
boardVars == <<notices, sending, shown>>
relayVars == <<plan, roomVars, controlVars, active, clientVars, dataVars, netVars, gone, boardVars>>

ControlStates == {"idle", "arrived", "authorized", "registered", "connected", "serving",
                  "leaving", "unregistered", "done"}
ClientStates == {"idle", "arrived", "authorized", "reserved", "pending", "offered", "accepted",
                 "matched", "running", "ending", "leaving", "done"}
DataStates == {"none", "arrived", "checked", "handed", "told", "over"}
Results == {"accept", "busy", "disabled", "no-agent", "auth-failed", "timeout"}

\* RoomSnapshot: a rejection counts from the moment the client is refused, and
\* a session until the handler that ran it has returned.
Counters == <<controlCount, pendingCount, pairCount>>
ActiveSessions == {s \in Client : client[s] \in {"running", "ending"}}
Rejected == {s \in Client : told[s] \in {"busy", "no-agent"}}
Snapshot == [counters |-> Counters, sessions |-> ActiveSessions, rejected |-> Rejected]
EmptySnapshot == [counters |-> <<0, 0, 0>>, sessions |-> {}, rejected |-> {}]

RelayInit ==
    /\ plan \in Plans
    /\ credential = None /\ controlCount = 0 /\ pendingCount = 0 /\ pairCount = 0
    /\ controls = [a \in Agent |-> None]
    /\ control = [c \in Control |-> "idle"] /\ previous = [c \in Control |-> None]
    /\ closed = {} /\ active = [c \in Control |-> 0]
    /\ client = [s \in Client |-> "idle"] /\ told = [s \in Client |-> "nothing"]
    /\ owner = [s \in Client |-> None] /\ pending = {}
    /\ response = [s \in Client |-> "none"] /\ expired = {}
    /\ data = [s \in Client |-> "none"] /\ dataAgent = [s \in Client |-> None]
    /\ toAgent = [c \in Control |-> <<>>] /\ toRelay = [c \in Control |-> <<>>]
    /\ cut = {} /\ cuts = 0 /\ gone = {}
    /\ notices = plan.watched /\ sending = None /\ shown = EmptySnapshot

Dead(c) == c \in cut \cup closed
\* A write to a connection that is cut may succeed, and is lost.
ToAgent(c, m) == toAgent' = IF Dead(c) THEN toAgent ELSE [toAgent EXCEPT ![c] = Append(@, m)]
ToRelay(c, m) == toRelay' = IF Dead(c) THEN toRelay ELSE [toRelay EXCEPT ![c] = Append(@, m)]

\* NotifyDashboards starts senders that take turns: one that waits stands for all.
NotifyUnlessSending == notices' = (plan.watched /\ sending = None)
NotifyDashboards == notices' = plan.watched

-----------------------------------------------------------------------------
(* ServeAgentControl.                                                      *)

AgentOf(c) == plan.dials[c]
AgentProof(c) == plan.agentProof[AgentOf(c)]

\* A room that nobody uses takes the proof of the next agent.
RoomIdle == controlCount = 0 /\ pairCount = 0
Authorize(c) ==
    /\ control[c] = "arrived"
    /\ IF credential = None \/ RoomIdle
         THEN credential' = AgentProof(c) /\ control' = [control EXCEPT ![c] = "authorized"]
         ELSE /\ UNCHANGED credential
              /\ control' = [control EXCEPT ![c] = IF credential = AgentProof(c) THEN "authorized" ELSE "done"]
    /\ closed' = IF control'[c] = "done" THEN closed \cup {c} ELSE closed
    /\ UNCHANGED <<plan, controlCount, pendingCount, pairCount, controls, previous, active,
                   clientVars, dataVars, netVars, gone, boardVars>>

Register(c) ==
    /\ control[c] = "authorized"
    /\ previous' = [previous EXCEPT ![c] = controls[AgentOf(c)]]
    /\ controls' = [controls EXCEPT ![AgentOf(c)] = c]
    /\ control' = [control EXCEPT ![c] = "registered"]
    /\ UNCHANGED <<plan, roomVars, closed, active, clientVars, dataVars, netVars, gone, boardVars>>

ControlConnected(c) ==
    /\ control[c] = "registered"
    /\ controlCount' = controlCount + 1
    /\ control' = [control EXCEPT ![c] = "connected"]
    /\ UNCHANGED <<plan, credential, pendingCount, pairCount, controls, previous, closed, active,
                   clientVars, dataVars, netVars, gone, boardVars>>

\* The control that is replaced is closed, and the agent is greeted.
Greet(c) ==
    /\ control[c] = "connected"
    /\ closed' = closed \cup ({previous[c]} \ {None})
    /\ \/ /\ c \notin closed /\ control' = [control EXCEPT ![c] = "serving"]
          /\ ToAgent(c, <<"ready">>) /\ NotifyDashboards
       \/ /\ Dead(c) /\ control' = [control EXCEPT ![c] = "leaving"] /\ UNCHANGED <<toAgent, notices>>
    /\ UNCHANGED <<plan, roomVars, controls, previous, active, clientVars, dataVars, toRelay, cut, cuts,
                   gone, sending, shown>>

\* An answer counts if the offer is pending on this control and has none yet.
Answers(c, s) == s \in pending /\ owner[s] = c /\ response[s] = "none"
ReadControl(c) ==
    /\ control[c] = "serving" /\ c \notin closed /\ toRelay[c] # <<>>
    /\ LET m == Head(toRelay[c]) IN
         /\ response' = IF m[1] \in Results /\ Answers(c, m[2])
                          THEN [response EXCEPT ![m[2]] = m[1]] ELSE response
         /\ IF m[1] = "session-closed" /\ client[m[2]] = "running"
              THEN /\ client' = [client EXCEPT ![m[2]] = "ending"] /\ data' = [data EXCEPT ![m[2]] = "over"]
                   /\ pairCount' = pairCount - 1 /\ NotifyDashboards
              ELSE UNCHANGED <<client, data, pairCount, notices>>
    /\ toRelay' = [toRelay EXCEPT ![c] = Tail(@)]
    /\ UNCHANGED <<plan, credential, controlCount, pendingCount, controlVars, active, told, owner,
                   pending, expired, dataAgent, toAgent, cut, cuts, gone, sending, shown>>

LoseControl(c) ==
    /\ control[c] = "serving" /\ Dead(c) /\ (c \in closed \/ toRelay[c] = <<>>)
    /\ control' = [control EXCEPT ![c] = "leaving"]
    /\ UNCHANGED <<plan, roomVars, controls, previous, closed, active, clientVars, dataVars, netVars,
                   gone, boardVars>>

\* The deferred part: the table keeps a newer control, and the offers that are
\* pending on this one are answered.
Unregister(c) ==
    /\ control[c] = "leaving"
    /\ controls' = [controls EXCEPT ![AgentOf(c)] = IF @ = c THEN None ELSE @]
    /\ response' = [s \in Client |-> IF Answers(c, s) THEN "no-agent" ELSE response[s]]
    /\ control' = [control EXCEPT ![c] = "unregistered"]
    /\ UNCHANGED <<plan, roomVars, previous, closed, active, client, told, owner, pending, expired,
                   dataVars, netVars, gone, boardVars>>

ControlDisconnected(c) ==
    /\ control[c] = "unregistered"
    /\ closed' = closed \cup {c} /\ controlCount' = controlCount - 1
    /\ control' = [control EXCEPT ![c] = "done"] /\ NotifyDashboards
    /\ UNCHANGED <<plan, credential, pendingCount, pairCount, controls, previous, active, clientVars,
                   dataVars, netVars, gone, sending, shown>>

ControlStep(c) == \/ Authorize(c) \/ Register(c) \/ ControlConnected(c) \/ Greet(c)
                  \/ ReadControl(c) \/ LoseControl(c) \/ Unregister(c) \/ ControlDisconnected(c)

-----------------------------------------------------------------------------
(* ServeV2Client and serveOnDemandClient.                                  *)

Reject(s, r) == /\ client' = [client EXCEPT ![s] = "leaving"] /\ told' = [told EXCEPT ![s] = r]

AuthorizeClient(s) ==
    /\ client[s] = "arrived"
    /\ IF plan.proof[s] = (IF credential = None THEN NoProof ELSE credential)
         THEN client' = [client EXCEPT ![s] = "authorized"] /\ UNCHANGED told
         ELSE Reject(s, "auth-failed")
    /\ UNCHANGED <<plan, roomVars, controlVars, active, owner, pending, response, expired, dataVars,
                   netVars, gone, boardVars>>

Serving(s) == {c \in Control : /\ controls[AgentOf(c)] = c /\ c \notin closed
                               /\ plan.service[s] \in plan.services[AgentOf(c)]}
HasPlaceOrOne(c) == active[c] <= plan.limit[AgentOf(c)]
HasPlace(c) == active[c] < plan.limit[AgentOf(c)]
\* selectControl: of the controls with a place free, one with the fewest taken.
Free(s) == {c \in Serving(s) : HasPlace(c)}
SelectControl(s) ==
    /\ client[s] = "authorized"
    /\ \/ \E c \in Free(s) :
            /\ \A d \in Free(s) : active[c] <= active[d]
            /\ active' = [active EXCEPT ![c] = @ + 1] /\ owner' = [owner EXCEPT ![s] = c]
            /\ client' = [client EXCEPT ![s] = "reserved"] /\ UNCHANGED told
       \/ /\ Free(s) = {} /\ Reject(s, IF Serving(s) = {} THEN "no-agent" ELSE "busy")
          /\ UNCHANGED <<active, owner>>
    /\ UNCHANGED <<plan, roomVars, controlVars, pending, response, expired, dataVars, netVars, gone,
                   boardVars>>

OpenPending(s) ==
    /\ client[s] = "reserved"
    /\ IF Cardinality(pending) >= PendingLimit
         THEN Reject(s, "busy") /\ UNCHANGED <<pending, pendingCount>>
         ELSE /\ client' = [client EXCEPT ![s] = "pending"] /\ pending' = pending \cup {s}
              /\ pendingCount' = pendingCount + 1 /\ UNCHANGED told
    /\ UNCHANGED <<plan, credential, controlCount, pairCount, controlVars, active, owner, response,
                   expired, dataVars, netVars, gone, boardVars>>

SendOffer(s) ==
    /\ client[s] = "pending"
    /\ \/ /\ owner[s] \notin closed
          /\ ToAgent(owner[s], <<"offer", s>>)
          /\ client' = [client EXCEPT ![s] = "offered"] /\ NotifyDashboards /\ UNCHANGED told
       \/ Dead(owner[s]) /\ Reject(s, "no-agent") /\ UNCHANGED <<toAgent, notices>>
    /\ UNCHANGED <<plan, roomVars, controlVars, active, owner, pending, response, expired, dataVars,
                   toRelay, cut, cuts, gone, sending, shown>>

TakeResponse(s) ==
    /\ client[s] = "offered" /\ response[s] # "none"
    /\ IF response[s] = "accept"
         THEN client' = [client EXCEPT ![s] = "accepted"] /\ UNCHANGED told
         ELSE Reject(s, response[s])
    /\ UNCHANGED <<plan, roomVars, controlVars, active, owner, pending, response, expired, dataVars,
                   netVars, gone, boardVars>>

\* An agent that has not answered loses its control; one whose data socket is
\* late does not.
OfferTimeoutUnanswered(s) ==
    /\ s \in expired /\ client[s] = "offered"
    /\ closed' = closed \cup {owner[s]} /\ Reject(s, "timeout")
    /\ UNCHANGED <<plan, roomVars, controls, control, previous, active, owner, pending, response,
                   expired, dataVars, netVars, gone, boardVars>>
OfferTimeout(s) ==
    /\ s \in expired
    /\ client[s] \in {"offered", "accepted"}
    /\ closed' = IF client[s] = "offered" THEN closed \cup {owner[s]} ELSE closed
    /\ Reject(s, "timeout")
    /\ UNCHANGED <<plan, roomVars, controls, control, previous, active, owner, pending, response,
                   expired, dataVars, netVars, gone, boardVars>>

\* ctx.Done: only the connection of an HTTP stream tells the handler of its end.
ClientLeaves(s) ==
    /\ client[s] \in {"offered", "accepted"} /\ s \in gone
    /\ client' = [client EXCEPT ![s] = "leaving"]
    /\ UNCHANGED <<plan, roomVars, controlVars, active, told, owner, pending, response, expired,
                   dataVars, netVars, gone, boardVars>>

\* The data socket comes out of pending.Agent, and the offer is settled.
TakeData(s) ==
    /\ client[s] = "accepted" /\ data[s] = "handed"
    /\ client' = [client EXCEPT ![s] = "matched"]
    /\ pending' = pending \ {s} /\ pendingCount' = pendingCount - 1 /\ NotifyDashboards
    /\ UNCHANGED <<plan, credential, controlCount, pairCount, controlVars, active, told, owner, response,
                   expired, dataVars, netVars, gone, sending, shown>>

\* Both sides are told; if one cannot be, the agent's socket is closed.
StartSession(s) ==
    /\ client[s] = "matched"
    /\ \/ /\ s \notin gone
          /\ client' = [client EXCEPT ![s] = "running"] /\ told' = [told EXCEPT ![s] = "ready"]
          /\ data' = [data EXCEPT ![s] = "told"]
          /\ pairCount' = pairCount + 1 /\ NotifyDashboards
       \/ /\ s \in plan.failing \cup gone
          /\ client' = [client EXCEPT ![s] = "leaving"]
          /\ told' = [told EXCEPT ![s] = IF s \in gone THEN @ ELSE "ready"]
          /\ data' = [data EXCEPT ![s] = "over"]
          /\ UNCHANGED <<pairCount, notices>>
    /\ UNCHANGED <<plan, credential, controlCount, pendingCount, controlVars, active, owner, pending,
                   response, expired, dataAgent, netVars, gone, sending, shown>>

\* The dashboards are told before the session is taken off those by service.
EndSession(s) ==
    /\ client[s] = "running"
    /\ client' = [client EXCEPT ![s] = "ending"] /\ data' = [data EXCEPT ![s] = "over"]
    /\ pairCount' = pairCount - 1 /\ NotifyDashboards
    /\ UNCHANGED <<plan, credential, controlCount, pendingCount, controlVars, active, told, owner,
                   pending, response, expired, dataAgent, netVars, gone, sending, shown>>

\* The deferred part: cleanupPending and Release.  The place is given back on
\* the control it was taken on.
ReleasedOnCurrent(s) ==
    IF controls[AgentOf(owner[s])] = None THEN active
    ELSE [active EXCEPT ![controls[AgentOf(owner[s])]] = IF @ > 0 THEN @ - 1 ELSE @]
Released(s) == [active EXCEPT ![owner[s]] = IF @ > 0 THEN @ - 1 ELSE @]
Leave(s) ==
    /\ client[s] \in {"ending", "leaving"}
    /\ client' = [client EXCEPT ![s] = "done"]
    /\ IF s \in pending
         THEN pending' = pending \ {s} /\ pendingCount' = pendingCount - 1 /\ NotifyDashboards
         ELSE UNCHANGED <<pending, pendingCount, notices>>
    /\ active' = IF owner[s] = None THEN active ELSE Released(s)
    /\ UNCHANGED <<plan, credential, controlCount, pairCount, controlVars, told, owner, response, expired,
                   dataVars, netVars, gone, sending, shown>>

ClientStep(s) == \/ AuthorizeClient(s) \/ SelectControl(s) \/ OpenPending(s) \/ SendOffer(s)
                 \/ TakeResponse(s) \/ OfferTimeout(s) \/ TakeData(s) \/ StartSession(s)
                 \/ Leave(s)

-----------------------------------------------------------------------------
(* ServeAgentSession.                                                      *)

\* The offer a data socket names must be pending, for its agent, and the two
\* ends must have the same proof.
KnownSession(s) == /\ s \in pending /\ AgentOf(owner[s]) = dataAgent[s] /\ s \notin expired
AnyProof(s) == TRUE
SameProof(s) == plan.proof[s] = plan.agentProof[dataAgent[s]]
DataChecked(s) == KnownSession(s) /\ SameProof(s)
CheckData(s) ==
    /\ data[s] = "arrived"
    /\ data' = [data EXCEPT ![s] = IF DataChecked(s) THEN "checked" ELSE "over"]
    /\ UNCHANGED <<plan, roomVars, controlVars, active, clientVars, dataAgent, netVars, gone, boardVars>>

\* By now the offer may be gone: then nobody takes the socket out again.
HandOver(s) ==
    /\ data[s] = "checked"
    /\ data' = [data EXCEPT ![s] = "handed"]
    /\ UNCHANGED <<plan, roomVars, controlVars, active, clientVars, dataAgent, netVars, gone, boardVars>>

DataStep(s) == CheckData(s) \/ HandOver(s)

-----------------------------------------------------------------------------
(* The dashboard: sendDashboard holds SendMu from the snapshot to the end  *)
(* of the write.  A refusal before there is an offer tells no dashboard.   *)

TakeSnapshot ==
    /\ notices /\ sending = None
    /\ notices' = FALSE /\ sending' = Snapshot
    /\ UNCHANGED <<plan, roomVars, controlVars, active, clientVars, dataVars, netVars, gone, shown>>

WriteSnapshot ==
    /\ sending # None /\ shown' = sending /\ sending' = None
    /\ UNCHANGED <<plan, roomVars, controlVars, active, clientVars, dataVars, netVars, gone, notices>>

-----------------------------------------------------------------------------
(* The network and the clients.                                            *)

Arrive(s) ==
    /\ s \in plan.clients /\ client[s] = "idle"
    /\ client' = [client EXCEPT ![s] = "arrived"]
    /\ UNCHANGED <<plan, roomVars, controlVars, active, told, owner, pending, response, expired, dataVars,
                   netVars, gone, boardVars>>

\* A control connection breaks; what is under way on it may be lost.
Cut(c) ==
    /\ cuts < plan.cuts /\ control[c] \notin {"idle", "done"} /\ c \notin cut
    /\ cut' = cut \cup {c} /\ cuts' = cuts + 1
    /\ \/ UNCHANGED <<toAgent, toRelay>>
       \/ toAgent' = [toAgent EXCEPT ![c] = <<>>] /\ toRelay' = [toRelay EXCEPT ![c] = <<>>]
    /\ UNCHANGED <<plan, roomVars, controlVars, active, clientVars, dataVars, gone, boardVars>>

GiveUp(s) ==
    /\ cuts < plan.cuts /\ s \notin gone /\ client[s] \in {"offered", "accepted", "matched"}
    /\ gone' = gone \cup {s} /\ cuts' = cuts + 1
    /\ UNCHANGED <<plan, roomVars, controlVars, active, clientVars, dataVars, toAgent, toRelay, cut,
                   boardVars>>

RelayStep == \/ \E c \in Control : ControlStep(c)
             \/ \E s \in Client : ClientStep(s) \/ DataStep(s)
             \/ TakeSnapshot \/ WriteSnapshot
RelayNext == \/ RelayStep
             \/ \E s \in Client : Arrive(s) \/ GiveUp(s) \/ ClientLeaves(s) \/ EndSession(s)
             \/ \E c \in Control : Cut(c)
=============================================================================
