---------------------------- MODULE WorkAgentProofs ----------------------------
(***************************************************************************)
(* Theorems about WorkAgent, for every number of agents, controls and      *)
(* clients, every plan and every limit.                                    *)
(***************************************************************************)
EXTENDS WorkAgent, FiniteSetTheorems, TLAPS

Offers == {<<"ready">>} \cup {<<"offer", s>> : s \in Client}
Reports == (Results \cup {"session-closed"}) \X Client

\* Everything but the counters has its type; a client that was offered holds a
\* control, and a session came down one.
Shape ==
    /\ plan \in PlanType
    /\ credential \in Proof \cup {None}
    /\ controls \in [Agent -> Control \cup {None}] /\ control \in [Control -> ControlStates]
    /\ previous \in [Control -> Control \cup {None}] /\ closed \subseteq Control
    /\ client \in [Client -> ClientStates] /\ told \in [Client -> Results \cup {"nothing", "ready"}]
    /\ owner \in [Client -> Control \cup {None}] /\ pending \subseteq Client
    /\ response \in [Client -> Results \cup {"none"}] /\ expired \subseteq Client
    /\ data \in [Client -> DataStates] /\ dataAgent \in [Client -> Agent \cup {None}]
    /\ toAgent \in [Control -> Seq(Offers)] /\ toRelay \in [Control -> Seq(Reports)]
    /\ cut \subseteq Control /\ gone \subseteq Client
    /\ link \in [Agent -> Control \cup {None}] /\ session \in [Client -> SessionStates]
    /\ via \in [Client -> Control \cup {None}]
    /\ \A s \in Client : session[s] # "none" => via[s] \in Control

\* A client has a place from SelectControl on, unless it was turned away there.
Early == {"idle", "arrived", "authorized"}
Owned ==
    \A s \in Client : /\ client[s] \in Early => owner[s] = None
                      /\ owner[s] = None => client[s] \in Early \cup {"leaving", "done"}

\* The counters of the room count what they are named for.
OnControl == {c \in Control : control[c] \in {"connected", "serving", "leaving", "unregistered"}}
Running == {s \in Client : client[s] = "running"}
InOffer == {"pending", "offered", "accepted"}
PendingAre ==
    \A s \in Client : /\ client[s] \in InOffer => s \in pending
                      /\ s \in pending => client[s] \in InOffer \cup {"leaving"}
Counted == /\ controlCount = Cardinality(OnControl) /\ pendingCount = Cardinality(pending)
           /\ pairCount = Cardinality(Running)

\* A control's places are those held on it, and no more than its agent has.
Placed ==
    /\ active \in [Control -> Nat]
    /\ \A c \in Control : /\ active[c] = Cardinality(Holding(c))
                          /\ active[c] <= plan.limit[AgentOf(c)]

\* What an offer, a session and a data socket say of each other.
OffersFit ==
    \A c \in Control : \A i \in 1..Len(toAgent[c]) :
      toAgent[c][i][1] # "ready" => owner[toAgent[c][i][2]] = c
SessionsFit ==
    \A s \in Client :
      /\ owner[s] # None => plan.service[s] \in plan.services[AgentOf(owner[s])]
      /\ via[s] # None => via[s] = owner[s]
      /\ data[s] # "none" => via[s] # None /\ dataAgent[s] = AgentOf(via[s]) /\ session[s] # "none"
      /\ data[s] \in {"checked", "handed"} => SameProof(s)
      /\ client[s] \in {"matched", "running"} => data[s] # "none" /\ SameProof(s)
      /\ client[s] = "running" => told[s] = "ready"
Agreed == OffersFit /\ SessionsFit

-----------------------------------------------------------------------------

\* What a plan says has its type.
LEMMA PlanTypes ==
    ASSUME Shape
    PROVE  /\ plan.dials \in [Control -> Agent] /\ plan.agentProof \in [Agent -> Proof]
           /\ plan.services \in [Agent -> SUBSET Service] /\ plan.limit \in [Agent -> Nat \ {0}]
           /\ plan.proof \in [Client -> Proof] /\ plan.service \in [Client -> Service]
BY DEF Shape, PlanType

LEMMA InitShape == Init => Shape /\ Owned
BY PlansAssumption DEF Init, RelayInit, Shape, Owned, Early, ControlStates, ClientStates, DataStates,
                       SessionStates, Results, Offers, Reports

\* Sending keeps what is under way within its type; so does turning a client away.
LEMMA Sending ==
    ASSUME Shape, NEW c, NEW m
    PROVE  /\ m \in Offers /\ ToAgent(c, m) => toAgent' \in [Control -> Seq(Offers)]
           /\ m \in Reports /\ ToRelay(c, m) => toRelay' \in [Control -> Seq(Reports)]
<1>1. ASSUME m \in Offers, ToAgent(c, m) PROVE toAgent' \in [Control -> Seq(Offers)]
  <2>1. \A q \in Seq(Offers) : Append(q, m) \in Seq(Offers)
    BY <1>1
  <2> QED
    BY <1>1, <2>1 DEF Shape, ToAgent
<1>2. ASSUME m \in Reports, ToRelay(c, m) PROVE toRelay' \in [Control -> Seq(Reports)]
  <2>1. \A q \in Seq(Reports) : Append(q, m) \in Seq(Reports)
    BY <1>2
  <2> QED
    BY <1>2, <2>1 DEF Shape, ToRelay
<1> QED
  BY <1>1, <1>2

LEMMA Rejecting ==
    ASSUME Shape, NEW s \in Client, NEW r \in Results, Reject(s, r)
    PROVE  /\ client' \in [Client -> ClientStates]
           /\ told' \in [Client -> Results \cup {"nothing", "ready"}]
BY DEF Shape, Reject, ClientStates

\* The messages that are sent.
LEMMA Messages ==
    /\ <<"ready">> \in Offers
    /\ \A s \in Client : /\ <<"offer", s>> \in Offers
                         /\ \A r \in Results \cup {"session-closed"} : <<r, s>> \in Reports
    /\ \A m \in Offers : m[1] # "ready" => m[2] \in Client
    /\ \A m \in Reports : m[1] \in Results \cup {"session-closed"} /\ m[2] \in Client
BY DEF Offers, Reports

\* No step spoils a type.
LEMMA ShapeStep == Shape /\ Owned /\ [Next]_vars => Shape'
<1> SUFFICES ASSUME Shape, Owned, [Next]_vars PROVE Shape'
  OBVIOUS
<1>0. control \in [Control -> ControlStates] /\ owner \in [Client -> Control \cup {None}] /\ closed \subseteq Control
  BY DEF Shape
<1>1. ASSUME NEW c \in Control, Authorize(c), UNCHANGED agentVars PROVE Shape'
  <2>1. control' \in [Control -> ControlStates]
    BY <1>1, <1>0 DEF Authorize, ControlStates
  <2>2. credential' \in Proof \cup {None} /\ closed' \subseteq Control
    BY <1>1, PlanTypes DEF Shape, Authorize, AgentProof, AgentOf
  <2> QED
    BY <1>1, <2>1, <2>2 DEF Shape, Authorize, vars, relayVars, roomVars, controlVars, clientVars,
      dataVars, netVars, boardVars, agentVars
<1>2. ASSUME NEW c \in Control, Register(c), UNCHANGED agentVars PROVE Shape'
  BY <1>2, PlanTypes DEF Shape, Owned, Early, Results, ControlStates, ClientStates, DataStates,
    SessionStates, Register, AgentOf, vars, relayVars, roomVars, controlVars, clientVars,
    dataVars, netVars, boardVars, agentVars
<1>3. ASSUME NEW c \in Control, ControlConnected(c), UNCHANGED agentVars PROVE Shape'
  BY <1>3, PlanTypes DEF Shape, Owned, Early, Results, ControlStates, ClientStates, DataStates,
    SessionStates, ControlConnected, vars, relayVars, roomVars, controlVars, clientVars,
    dataVars, netVars, boardVars, agentVars
<1>4. ASSUME NEW c \in Control, Greet(c), UNCHANGED agentVars PROVE Shape'
  <2>1. control' \in [Control -> ControlStates]
    BY <1>4, <1>0 DEF Greet, ControlStates
  <2>2. toAgent' \in [Control -> Seq(Offers)]
    BY <1>4, Sending, Messages DEF Shape, Greet
  <2>3. closed' \subseteq Control
    BY <1>4 DEF Shape, Greet
  <2> QED
    BY <1>4, <2>1, <2>2, <2>3 DEF Shape, Greet, vars, relayVars, roomVars, controlVars,
      clientVars, dataVars, netVars, boardVars, agentVars
<1>5. ASSUME NEW c \in Control, ReadControl(c), UNCHANGED agentVars PROVE Shape'
  <2>1. toRelay[c] \in Seq(Reports) /\ toRelay[c] # <<>>
    BY <1>5 DEF Shape, ReadControl
  <2>2. Head(toRelay[c]) \in Reports /\ Tail(toRelay[c]) \in Seq(Reports)
    BY <1>5, <2>1 DEF Shape
  <2>3. response' \in [Client -> Results \cup {"none"}]
    BY <1>5 DEF Shape, ReadControl
  <2>4. toRelay' \in [Control -> Seq(Reports)]
    BY <1>5, <2>2 DEF Shape, ReadControl
  <2>5. client' \in [Client -> ClientStates] /\ data' \in [Client -> DataStates]
    BY <1>5 DEF Shape, ReadControl, ClientStates, DataStates
  <2> QED
    BY <1>5, <2>1, <2>2, <2>3, <2>4, <2>5 DEF Shape, ReadControl, vars, relayVars, roomVars,
      controlVars, clientVars, dataVars, netVars, boardVars, agentVars
<1>6. ASSUME NEW c \in Control, LoseControl(c), UNCHANGED agentVars PROVE Shape'
  <2>1. control' \in [Control -> ControlStates]
    BY <1>6, <1>0 DEF LoseControl, ControlStates
  <2> QED
    BY <1>6, <2>1 DEF Shape, LoseControl, vars, relayVars, roomVars, controlVars, clientVars,
      dataVars, netVars, boardVars, agentVars
<1>7. ASSUME NEW c \in Control, Unregister(c), UNCHANGED agentVars PROVE Shape'
  BY <1>7, PlanTypes DEF Shape, Owned, Early, Results, ControlStates, ClientStates, DataStates,
    SessionStates, Unregister, AgentOf, Answers, vars, relayVars, roomVars, controlVars,
    clientVars, dataVars, netVars, boardVars, agentVars
<1>8. ASSUME NEW c \in Control, ControlDisconnected(c), UNCHANGED agentVars PROVE Shape'
  BY <1>8, PlanTypes DEF Shape, Owned, Early, Results, ControlStates, ClientStates, DataStates,
    SessionStates, ControlDisconnected, NotifyDashboards, vars, relayVars, roomVars, controlVars,
    clientVars, dataVars, netVars, boardVars, agentVars
<1>9. ASSUME NEW c \in Control, Cut(c), UNCHANGED agentVars PROVE Shape'
  <2>1. <<>> \in Seq(Offers) /\ <<>> \in Seq(Reports)
    BY <1>9 DEF Shape
  <2>2. toAgent' \in [Control -> Seq(Offers)]
    BY <1>9, <2>1 DEF Shape, Cut
  <2>3. toRelay' \in [Control -> Seq(Reports)]
    BY <1>9, <2>1 DEF Shape, Cut
  <2>4. cut' \subseteq Control
    BY <1>9 DEF Shape, Cut
  <2> QED
    BY <1>9, <2>1, <2>2, <2>3, <2>4 DEF Shape, Cut, vars, relayVars, roomVars, controlVars,
      clientVars, dataVars, netVars, boardVars, agentVars
<1>10. ASSUME NEW s \in Client, AuthorizeClient(s), UNCHANGED agentVars PROVE Shape'
  <2>1. /\ client' \in [Client -> ClientStates]
        /\ told' \in [Client -> Results \cup {"nothing", "ready"}]
    BY <1>10, Rejecting DEF Shape, AuthorizeClient, Results, ClientStates
  <2> QED
    BY <1>10, <2>1 DEF Shape, AuthorizeClient, vars, relayVars, roomVars, controlVars,
      clientVars, dataVars, netVars, boardVars, agentVars
<1>11. ASSUME NEW s \in Client, SelectControl(s), UNCHANGED agentVars PROVE Shape'
  <2>1. /\ client' \in [Client -> ClientStates]
        /\ told' \in [Client -> Results \cup {"nothing", "ready"}]
    BY <1>11, Rejecting DEF Shape, SelectControl, Results, ClientStates
  <2>2. owner' \in [Client -> Control \cup {None}]
    BY <1>11, <1>0 DEF SelectControl, Free, Serving
  <2> QED
    BY <1>11, <2>1, <2>2 DEF Shape, SelectControl, vars, relayVars, roomVars, controlVars,
      clientVars, dataVars, netVars, boardVars, agentVars
<1>12. ASSUME NEW s \in Client, OpenPending(s), UNCHANGED agentVars PROVE Shape'
  <2>1. /\ client' \in [Client -> ClientStates]
        /\ told' \in [Client -> Results \cup {"nothing", "ready"}]
    BY <1>12, Rejecting DEF Shape, OpenPending, Results, ClientStates
  <2>2. pending' \subseteq Client
    BY <1>12 DEF Shape, OpenPending
  <2> QED
    BY <1>12, <2>1, <2>2 DEF Shape, OpenPending, vars, relayVars, roomVars, controlVars,
      clientVars, dataVars, netVars, boardVars, agentVars
<1>13. ASSUME NEW s \in Client, SendOffer(s), UNCHANGED agentVars PROVE Shape'
  <2>1. /\ client' \in [Client -> ClientStates]
        /\ told' \in [Client -> Results \cup {"nothing", "ready"}]
    BY <1>13, Rejecting DEF Shape, SendOffer, Results, ClientStates
  <2>2. toAgent' \in [Control -> Seq(Offers)]
    BY <1>13, Sending, Messages DEF Shape, SendOffer
  <2> QED
    BY <1>13, <2>1, <2>2 DEF Shape, SendOffer, vars, relayVars, roomVars, controlVars,
      clientVars, dataVars, netVars, boardVars, agentVars
<1>14. ASSUME NEW s \in Client, TakeResponse(s), UNCHANGED agentVars PROVE Shape'
  <2>1. response[s] \in Results
    BY <1>14 DEF Shape, TakeResponse
  <2>2. /\ client' \in [Client -> ClientStates]
        /\ told' \in [Client -> Results \cup {"nothing", "ready"}]
    BY <1>14, <2>1, Rejecting DEF Shape, TakeResponse, ClientStates
  <2> QED
    BY <1>14, <2>1, <2>2 DEF Shape, TakeResponse, vars, relayVars, roomVars, controlVars,
      clientVars, dataVars, netVars, boardVars, agentVars
<1>15. ASSUME NEW s \in Client, OfferTimeout(s), UNCHANGED agentVars PROVE Shape'
  <2>1. owner[s] \in Control
    BY <1>15 DEF Shape, Owned, Early, OfferTimeout
  <2>2. closed' \subseteq Control
    BY <1>15, <1>0, <2>1 DEF OfferTimeout
  <2>3. /\ client' \in [Client -> ClientStates]
        /\ told' \in [Client -> Results \cup {"nothing", "ready"}]
    BY <1>15, Rejecting DEF Shape, OfferTimeout, Results
  <2> QED
    BY <1>15, <2>1, <2>2, <2>3 DEF Shape, OfferTimeout, vars, relayVars, roomVars, controlVars,
      clientVars, dataVars, netVars, boardVars, agentVars
<1>16. ASSUME NEW s \in Client, TakeData(s), UNCHANGED agentVars PROVE Shape'
  BY <1>16, PlanTypes DEF Shape, Owned, Early, Results, ControlStates, ClientStates, DataStates,
    SessionStates, TakeData, NotifyDashboards, vars, relayVars, roomVars, controlVars,
    clientVars, dataVars, netVars, boardVars, agentVars
<1>17. ASSUME NEW s \in Client, StartSession(s), UNCHANGED agentVars PROVE Shape'
  <2>1. /\ client' \in [Client -> ClientStates]
        /\ told' \in [Client -> Results \cup {"nothing", "ready"}]
    BY <1>17 DEF Shape, StartSession, ClientStates
  <2>2. data' \in [Client -> DataStates]
    BY <1>17 DEF Shape, StartSession, DataStates
  <2> QED
    BY <1>17, <2>1, <2>2 DEF Shape, StartSession, vars, relayVars, roomVars, controlVars,
      clientVars, dataVars, netVars, boardVars, agentVars
<1>18. ASSUME NEW s \in Client, Leave(s), UNCHANGED agentVars PROVE Shape'
  BY <1>18, PlanTypes DEF Shape, Owned, Early, Results, ControlStates, ClientStates, DataStates,
    SessionStates, Leave, NotifyDashboards, Released, vars, relayVars, roomVars, controlVars,
    clientVars, dataVars, netVars, boardVars, agentVars
<1>19. ASSUME NEW s \in Client, CheckData(s), UNCHANGED agentVars PROVE Shape'
  BY <1>19, PlanTypes DEF Shape, Owned, Early, Results, ControlStates, ClientStates, DataStates,
    SessionStates, CheckData, vars, relayVars, roomVars, controlVars, clientVars, dataVars,
    netVars, boardVars, agentVars
<1>20. ASSUME NEW s \in Client, HandOver(s), UNCHANGED agentVars PROVE Shape'
  BY <1>20, PlanTypes DEF Shape, Owned, Early, Results, ControlStates, ClientStates, DataStates,
    SessionStates, HandOver, vars, relayVars, roomVars, controlVars, clientVars, dataVars,
    netVars, boardVars, agentVars
<1>21. ASSUME NEW s \in Client, Arrive(s), UNCHANGED agentVars PROVE Shape'
  BY <1>21, PlanTypes DEF Shape, Owned, Early, Results, ControlStates, ClientStates, DataStates,
    SessionStates, Arrive, vars, relayVars, roomVars, controlVars, clientVars, dataVars, netVars,
    boardVars, agentVars
<1>22. ASSUME NEW s \in Client, GiveUp(s), UNCHANGED agentVars PROVE Shape'
  BY <1>22, PlanTypes DEF Shape, Owned, Early, Results, ControlStates, ClientStates, DataStates,
    SessionStates, GiveUp, vars, relayVars, roomVars, controlVars, clientVars, dataVars, netVars,
    boardVars, agentVars
<1>23. ASSUME NEW s \in Client, ClientLeaves(s), UNCHANGED agentVars PROVE Shape'
  BY <1>23, PlanTypes DEF Shape, Owned, Early, Results, ControlStates, ClientStates, DataStates,
    SessionStates, ClientLeaves, vars, relayVars, roomVars, controlVars, clientVars, dataVars,
    netVars, boardVars, agentVars
<1>24. ASSUME NEW s \in Client, EndSession(s), UNCHANGED agentVars PROVE Shape'
  BY <1>24, PlanTypes DEF Shape, Owned, Early, Results, ControlStates, ClientStates, DataStates,
    SessionStates, EndSession, NotifyDashboards, vars, relayVars, roomVars, controlVars,
    clientVars, dataVars, netVars, boardVars, agentVars
<1>25. ASSUME TakeSnapshot, UNCHANGED agentVars PROVE Shape'
  BY <1>25, PlanTypes DEF Shape, Owned, Early, Results, ControlStates, ClientStates, DataStates,
    SessionStates, TakeSnapshot, vars, relayVars, roomVars, controlVars, clientVars, dataVars,
    netVars, boardVars, agentVars
<1>26. ASSUME WriteSnapshot, UNCHANGED agentVars PROVE Shape'
  BY <1>26, PlanTypes DEF Shape, Owned, Early, Results, ControlStates, ClientStates, DataStates,
    SessionStates, WriteSnapshot, vars, relayVars, roomVars, controlVars, clientVars, dataVars,
    netVars, boardVars, agentVars
<1>27. ASSUME NEW a \in Agent, DialControl(a) PROVE Shape'
  <2>1. link' \in [Agent -> Control \cup {None}] /\ control' \in [Control -> ControlStates]
    BY <1>27 DEF Shape, DialControl, Unused, ControlStates
  <2> QED
    BY <1>27, <2>1 DEF Shape, DialControl, vars, relayVars, roomVars, controlVars, clientVars,
      dataVars, netVars, boardVars, agentVars
<1>28. ASSUME NEW a \in Agent, LoseLink(a) PROVE Shape'
  BY <1>28, PlanTypes DEF Shape, Owned, Early, Results, ControlStates, ClientStates, DataStates,
    SessionStates, LoseLink, vars, relayVars, roomVars, controlVars, clientVars, dataVars,
    netVars, boardVars, agentVars
<1>29. ASSUME NEW a \in Agent, ReadOffer(a) PROVE Shape'
  <2>1. link[a] \in Control /\ toAgent[link[a]] \in Seq(Offers) /\ toAgent[link[a]] # <<>>
    BY <1>29 DEF Shape, ReadOffer
  <2>2. /\ Head(toAgent[link[a]]) \in Offers
        /\ Tail(toAgent[link[a]]) \in Seq(Offers)
    BY <1>29, <2>1 DEF Shape
  <2>3. toAgent' \in [Control -> Seq(Offers)]
    BY <1>29, <2>2 DEF Shape, ReadOffer
  <2>4. toRelay' \in [Control -> Seq(Reports)]
    BY <1>29, <2>2, Sending, Messages DEF Shape, ReadOffer, Results
  <2>5. session' \in [Client -> SessionStates]
    BY <1>29 DEF Shape, ReadOffer, SessionStates
  <2>6. /\ via' \in [Client -> Control \cup {None}]
        /\ \A s \in Client : session'[s] # "none" => via'[s] \in Control
    BY <1>29, <2>1 DEF Shape, ReadOffer
  <2> QED
    BY <1>29, <2>1, <2>2, <2>3, <2>4, <2>5, <2>6 DEF Shape, ReadOffer, vars, relayVars, roomVars,
      controlVars, clientVars, dataVars, netVars, boardVars, agentVars
<1>30. ASSUME NEW s \in Client, DialLocal(s) PROVE Shape'
  <2>1. toRelay' \in [Control -> Seq(Reports)]
    BY <1>30, Sending, Messages DEF Shape, DialLocal, Results
  <2>2. session' \in [Client -> SessionStates] /\ \A t \in Client : session'[t] # "none" => via[t] \in Control
    BY <1>30 DEF Shape, DialLocal, Ended, SessionStates
  <2> QED
    BY <1>30, <2>1, <2>2 DEF Shape, DialLocal, vars, relayVars, roomVars, controlVars,
      clientVars, dataVars, netVars, boardVars, agentVars
<1>31. ASSUME NEW s \in Client, DialData(s) PROVE Shape'
  <2>1. via[s] \in Control
    BY <1>31 DEF Shape, DialData
  <2>2. plan.dials[via[s]] \in Agent
    BY <1>31, <2>1, PlanTypes DEF Shape
  <2>3. data' \in [Client -> DataStates]
    BY <1>31 DEF Shape, DialData, DataStates, dataVars
  <2>4. dataAgent' \in [Client -> Agent \cup {None}]
    BY <1>31, <2>2 DEF Shape, DialData, AgentOf, dataVars
  <2>5. session' \in [Client -> SessionStates] /\ \A t \in Client : session'[t] # "none" => via[t] \in Control
    BY <1>31 DEF Shape, DialData, Ended, SessionStates
  <2> QED
    BY <1>31, <2>1, <2>2, <2>3, <2>4, <2>5 DEF Shape, DialData, vars, relayVars, roomVars,
      controlVars, clientVars, dataVars, netVars, boardVars, agentVars
<1>32. ASSUME NEW s \in Client, AwaitReady(s) PROVE Shape'
  BY <1>32, PlanTypes DEF Shape, Owned, Early, Results, ControlStates, ClientStates, DataStates,
    SessionStates, AwaitReady, vars, relayVars, roomVars, controlVars, clientVars, dataVars,
    netVars, boardVars, agentVars
<1>33. ASSUME NEW s \in Client, SessionDeadline(s) PROVE Shape'
  BY <1>33, PlanTypes DEF Shape, Owned, Early, Results, ControlStates, ClientStates, DataStates,
    SessionStates, SessionDeadline, Ended, vars, relayVars, roomVars, controlVars, clientVars,
    dataVars, netVars, boardVars, agentVars
<1>34. ASSUME NEW s \in Client, Expire(s) PROVE Shape'
  BY <1>34, PlanTypes DEF Shape, Owned, Early, Results, ControlStates, ClientStates, DataStates,
    SessionStates, Expire, vars, relayVars, roomVars, controlVars, clientVars, dataVars, netVars,
    boardVars, agentVars
<1>35. ASSUME NEW s \in Client, CloseSession(s) PROVE Shape'
  <2>1. toRelay' \in [Control -> Seq(Reports)]
    BY <1>35, Sending, Messages DEF Shape, CloseSession
  <2>2. session' \in [Client -> SessionStates] /\ \A t \in Client : session'[t] # "none" => via[t] \in Control
    BY <1>35 DEF Shape, CloseSession, Ended, SessionStates
  <2> QED
    BY <1>35, <2>1, <2>2 DEF Shape, CloseSession, vars, relayVars, roomVars, controlVars,
      clientVars, dataVars, netVars, boardVars, agentVars
<1>36. CASE UNCHANGED vars
  BY <1>36, PlanTypes DEF Shape, Owned, Early, Results, ControlStates, ClientStates, DataStates,
    SessionStates, vars, relayVars, roomVars, controlVars, clientVars, dataVars, netVars,
    boardVars, agentVars
<1> QED
  BY <1>1, <1>2, <1>3, <1>4, <1>5, <1>6, <1>7, <1>8, <1>9, <1>10, <1>11, <1>12, <1>13, <1>14,
    <1>15, <1>16, <1>17, <1>18, <1>19, <1>20, <1>21, <1>22, <1>23, <1>24, <1>25, <1>26, <1>27,
    <1>28, <1>29, <1>30, <1>31, <1>32, <1>33, <1>34, <1>35, <1>36 DEF Next, RelayNext, RelayStep,
    ControlStep, ClientStep, DataStep, AgentStep, SessionStep

\* A place once taken stays its client's.
LEMMA OwnedStep == Shape /\ Owned /\ [Next]_vars => Owned'
<1> SUFFICES ASSUME Shape, Owned, [Next]_vars PROVE Owned'
  OBVIOUS
<1>0. client \in [Client -> ClientStates] /\ owner \in [Client -> Control \cup {None}]
  BY DEF Shape
<1>1. ASSUME NEW c \in Control, Authorize(c), UNCHANGED agentVars PROVE Owned'
  BY <1>1, <1>0 DEF Owned, Early, Authorize, AgentProof, AgentOf, vars, relayVars, roomVars,
    controlVars, clientVars, dataVars, netVars, boardVars, agentVars
<1>2. ASSUME NEW c \in Control, Register(c), UNCHANGED agentVars PROVE Owned'
  BY <1>2, <1>0 DEF Owned, Early, Register, AgentOf, vars, relayVars, roomVars, controlVars,
    clientVars, dataVars, netVars, boardVars, agentVars
<1>3. ASSUME NEW c \in Control, ControlConnected(c), UNCHANGED agentVars PROVE Owned'
  BY <1>3, <1>0 DEF Owned, Early, ControlConnected, vars, relayVars, roomVars, controlVars,
    clientVars, dataVars, netVars, boardVars, agentVars
<1>4. ASSUME NEW c \in Control, Greet(c), UNCHANGED agentVars PROVE Owned'
  BY <1>4, <1>0 DEF Owned, Early, Greet, ToAgent, NotifyDashboards, vars, relayVars, roomVars,
    controlVars, clientVars, dataVars, netVars, boardVars, agentVars
<1>5. ASSUME NEW c \in Control, ReadControl(c), UNCHANGED agentVars PROVE Owned'
  BY <1>5, <1>0 DEF Owned, Early, ReadControl, NotifyDashboards, Answers, vars, relayVars,
    roomVars, controlVars, clientVars, dataVars, netVars, boardVars, agentVars
<1>6. ASSUME NEW c \in Control, LoseControl(c), UNCHANGED agentVars PROVE Owned'
  BY <1>6, <1>0 DEF Owned, Early, LoseControl, vars, relayVars, roomVars, controlVars,
    clientVars, dataVars, netVars, boardVars, agentVars
<1>7. ASSUME NEW c \in Control, Unregister(c), UNCHANGED agentVars PROVE Owned'
  BY <1>7, <1>0 DEF Owned, Early, Unregister, AgentOf, Answers, vars, relayVars, roomVars,
    controlVars, clientVars, dataVars, netVars, boardVars, agentVars
<1>8. ASSUME NEW c \in Control, ControlDisconnected(c), UNCHANGED agentVars PROVE Owned'
  BY <1>8, <1>0 DEF Owned, Early, ControlDisconnected, NotifyDashboards, vars, relayVars,
    roomVars, controlVars, clientVars, dataVars, netVars, boardVars, agentVars
<1>9. ASSUME NEW c \in Control, Cut(c), UNCHANGED agentVars PROVE Owned'
  BY <1>9, <1>0 DEF Owned, Early, Cut, vars, relayVars, roomVars, controlVars, clientVars,
    dataVars, netVars, boardVars, agentVars
<1>10. ASSUME NEW s \in Client, AuthorizeClient(s), UNCHANGED agentVars PROVE Owned'
  BY <1>10, <1>0 DEF Owned, Early, AuthorizeClient, Reject, vars, relayVars, roomVars,
    controlVars, clientVars, dataVars, netVars, boardVars, agentVars
<1>11. ASSUME NEW s \in Client, SelectControl(s), UNCHANGED agentVars PROVE Owned'
  <2>1. client \in [Client -> ClientStates] /\ owner \in [Client -> Control \cup {None}]
    BY DEF Shape
  <2>2. owner[s] = None /\ None \notin Control
    BY <1>11, NamesAssumption DEF Owned, Early, SelectControl
  <2> QED
    BY <1>11, <2>1, <2>2 DEF Owned, Early, SelectControl, Free, Serving, Reject
<1>12. ASSUME NEW s \in Client, OpenPending(s), UNCHANGED agentVars PROVE Owned'
  BY <1>12, <1>0 DEF Owned, Early, OpenPending, Reject, vars, relayVars, roomVars, controlVars,
    clientVars, dataVars, netVars, boardVars, agentVars
<1>13. ASSUME NEW s \in Client, SendOffer(s), UNCHANGED agentVars PROVE Owned'
  BY <1>13, <1>0 DEF Owned, Early, SendOffer, ToAgent, NotifyDashboards, Reject, vars, relayVars,
    roomVars, controlVars, clientVars, dataVars, netVars, boardVars, agentVars
<1>14. ASSUME NEW s \in Client, TakeResponse(s), UNCHANGED agentVars PROVE Owned'
  BY <1>14, <1>0 DEF Owned, Early, TakeResponse, Reject, vars, relayVars, roomVars, controlVars,
    clientVars, dataVars, netVars, boardVars, agentVars
<1>15. ASSUME NEW s \in Client, OfferTimeout(s), UNCHANGED agentVars PROVE Owned'
  BY <1>15, <1>0 DEF Owned, Early, OfferTimeout, Reject, vars, relayVars, roomVars, controlVars,
    clientVars, dataVars, netVars, boardVars, agentVars
<1>16. ASSUME NEW s \in Client, TakeData(s), UNCHANGED agentVars PROVE Owned'
  BY <1>16, <1>0 DEF Owned, Early, TakeData, NotifyDashboards, vars, relayVars, roomVars,
    controlVars, clientVars, dataVars, netVars, boardVars, agentVars
<1>17. ASSUME NEW s \in Client, StartSession(s), UNCHANGED agentVars PROVE Owned'
  BY <1>17, <1>0 DEF Owned, Early, StartSession, NotifyDashboards, vars, relayVars, roomVars,
    controlVars, clientVars, dataVars, netVars, boardVars, agentVars
<1>18. ASSUME NEW s \in Client, Leave(s), UNCHANGED agentVars PROVE Owned'
  BY <1>18, <1>0 DEF Owned, Early, Leave, NotifyDashboards, Released, vars, relayVars, roomVars,
    controlVars, clientVars, dataVars, netVars, boardVars, agentVars
<1>19. ASSUME NEW s \in Client, CheckData(s), UNCHANGED agentVars PROVE Owned'
  BY <1>19, <1>0 DEF Owned, Early, CheckData, vars, relayVars, roomVars, controlVars, clientVars,
    dataVars, netVars, boardVars, agentVars
<1>20. ASSUME NEW s \in Client, HandOver(s), UNCHANGED agentVars PROVE Owned'
  BY <1>20, <1>0 DEF Owned, Early, HandOver, vars, relayVars, roomVars, controlVars, clientVars,
    dataVars, netVars, boardVars, agentVars
<1>21. ASSUME NEW s \in Client, Arrive(s), UNCHANGED agentVars PROVE Owned'
  BY <1>21, <1>0 DEF Owned, Early, Arrive, vars, relayVars, roomVars, controlVars, clientVars,
    dataVars, netVars, boardVars, agentVars
<1>22. ASSUME NEW s \in Client, GiveUp(s), UNCHANGED agentVars PROVE Owned'
  BY <1>22, <1>0 DEF Owned, Early, GiveUp, vars, relayVars, roomVars, controlVars, clientVars,
    dataVars, netVars, boardVars, agentVars
<1>23. ASSUME NEW s \in Client, ClientLeaves(s), UNCHANGED agentVars PROVE Owned'
  BY <1>23, <1>0 DEF Owned, Early, ClientLeaves, vars, relayVars, roomVars, controlVars,
    clientVars, dataVars, netVars, boardVars, agentVars
<1>24. ASSUME NEW s \in Client, EndSession(s), UNCHANGED agentVars PROVE Owned'
  BY <1>24, <1>0 DEF Owned, Early, EndSession, NotifyDashboards, vars, relayVars, roomVars,
    controlVars, clientVars, dataVars, netVars, boardVars, agentVars
<1>25. ASSUME TakeSnapshot, UNCHANGED agentVars PROVE Owned'
  BY <1>25, <1>0 DEF Owned, Early, TakeSnapshot, vars, relayVars, roomVars, controlVars,
    clientVars, dataVars, netVars, boardVars, agentVars
<1>26. ASSUME WriteSnapshot, UNCHANGED agentVars PROVE Owned'
  BY <1>26, <1>0 DEF Owned, Early, WriteSnapshot, vars, relayVars, roomVars, controlVars,
    clientVars, dataVars, netVars, boardVars, agentVars
<1>27. ASSUME NEW a \in Agent, DialControl(a) PROVE Owned'
  BY <1>27, <1>0 DEF Owned, Early, DialControl, vars, relayVars, roomVars, controlVars,
    clientVars, dataVars, netVars, boardVars, agentVars
<1>28. ASSUME NEW a \in Agent, LoseLink(a) PROVE Owned'
  BY <1>28, <1>0 DEF Owned, Early, LoseLink, vars, relayVars, roomVars, controlVars, clientVars,
    dataVars, netVars, boardVars, agentVars
<1>29. ASSUME NEW a \in Agent, ReadOffer(a) PROVE Owned'
  BY <1>29, <1>0 DEF Owned, Early, ReadOffer, ToRelay, vars, relayVars, roomVars, controlVars,
    clientVars, dataVars, netVars, boardVars, agentVars
<1>30. ASSUME NEW s \in Client, DialLocal(s) PROVE Owned'
  BY <1>30, <1>0 DEF Owned, Early, DialLocal, ToRelay, Ended, vars, relayVars, roomVars,
    controlVars, clientVars, dataVars, netVars, boardVars, agentVars
<1>31. ASSUME NEW s \in Client, DialData(s) PROVE Owned'
  BY <1>31, <1>0 DEF Owned, Early, DialData, Ended, AgentOf, vars, relayVars, roomVars,
    controlVars, clientVars, dataVars, netVars, boardVars, agentVars
<1>32. ASSUME NEW s \in Client, AwaitReady(s) PROVE Owned'
  BY <1>32, <1>0 DEF Owned, Early, AwaitReady, vars, relayVars, roomVars, controlVars,
    clientVars, dataVars, netVars, boardVars, agentVars
<1>33. ASSUME NEW s \in Client, SessionDeadline(s) PROVE Owned'
  BY <1>33, <1>0 DEF Owned, Early, SessionDeadline, Ended, vars, relayVars, roomVars,
    controlVars, clientVars, dataVars, netVars, boardVars, agentVars
<1>34. ASSUME NEW s \in Client, Expire(s) PROVE Owned'
  BY <1>34, <1>0 DEF Owned, Early, Expire, vars, relayVars, roomVars, controlVars, clientVars,
    dataVars, netVars, boardVars, agentVars
<1>35. ASSUME NEW s \in Client, CloseSession(s) PROVE Owned'
  BY <1>35, <1>0 DEF Owned, Early, CloseSession, ToRelay, Ended, vars, relayVars, roomVars,
    controlVars, clientVars, dataVars, netVars, boardVars, agentVars
<1>36. CASE UNCHANGED vars
  BY <1>36, <1>0 DEF Owned, Early, vars, relayVars, roomVars, controlVars, clientVars, dataVars,
    netVars, boardVars, agentVars
<1> QED
  BY <1>1, <1>2, <1>3, <1>4, <1>5, <1>6, <1>7, <1>8, <1>9, <1>10, <1>11, <1>12, <1>13, <1>14,
    <1>15, <1>16, <1>17, <1>18, <1>19, <1>20, <1>21, <1>22, <1>23, <1>24, <1>25, <1>26, <1>27,
    <1>28, <1>29, <1>30, <1>31, <1>32, <1>33, <1>34, <1>35, <1>36 DEF Next, RelayNext, RelayStep,
    ControlStep, ClientStep, DataStep, AgentStep, SessionStep

\* Who is pending is between its offer and its end.
LEMMA PendingStep == Shape /\ PendingAre /\ [Next]_vars => PendingAre'
<1> SUFFICES ASSUME Shape, PendingAre, [Next]_vars PROVE PendingAre'
  OBVIOUS
<1>0. client \in [Client -> ClientStates] /\ pending \subseteq Client
  BY DEF Shape
<1>1. ASSUME NEW c \in Control, Authorize(c), UNCHANGED agentVars PROVE PendingAre'
  BY <1>1, <1>0 DEF PendingAre, InOffer, Authorize, AgentProof, AgentOf, vars, relayVars,
    roomVars, controlVars, clientVars, dataVars, netVars, boardVars, agentVars
<1>2. ASSUME NEW c \in Control, Register(c), UNCHANGED agentVars PROVE PendingAre'
  BY <1>2, <1>0 DEF PendingAre, InOffer, Register, AgentOf, vars, relayVars, roomVars,
    controlVars, clientVars, dataVars, netVars, boardVars, agentVars
<1>3. ASSUME NEW c \in Control, ControlConnected(c), UNCHANGED agentVars PROVE PendingAre'
  BY <1>3, <1>0 DEF PendingAre, InOffer, ControlConnected, vars, relayVars, roomVars,
    controlVars, clientVars, dataVars, netVars, boardVars, agentVars
<1>4. ASSUME NEW c \in Control, Greet(c), UNCHANGED agentVars PROVE PendingAre'
  BY <1>4, <1>0 DEF PendingAre, InOffer, Greet, ToAgent, NotifyDashboards, vars, relayVars,
    roomVars, controlVars, clientVars, dataVars, netVars, boardVars, agentVars
<1>5. ASSUME NEW c \in Control, ReadControl(c), UNCHANGED agentVars PROVE PendingAre'
  BY <1>5, <1>0 DEF PendingAre, InOffer, ReadControl, NotifyDashboards, Answers, vars, relayVars,
    roomVars, controlVars, clientVars, dataVars, netVars, boardVars, agentVars
<1>6. ASSUME NEW c \in Control, LoseControl(c), UNCHANGED agentVars PROVE PendingAre'
  BY <1>6, <1>0 DEF PendingAre, InOffer, LoseControl, vars, relayVars, roomVars, controlVars,
    clientVars, dataVars, netVars, boardVars, agentVars
<1>7. ASSUME NEW c \in Control, Unregister(c), UNCHANGED agentVars PROVE PendingAre'
  BY <1>7, <1>0 DEF PendingAre, InOffer, Unregister, AgentOf, Answers, vars, relayVars, roomVars,
    controlVars, clientVars, dataVars, netVars, boardVars, agentVars
<1>8. ASSUME NEW c \in Control, ControlDisconnected(c), UNCHANGED agentVars PROVE PendingAre'
  BY <1>8, <1>0 DEF PendingAre, InOffer, ControlDisconnected, NotifyDashboards, vars, relayVars,
    roomVars, controlVars, clientVars, dataVars, netVars, boardVars, agentVars
<1>9. ASSUME NEW c \in Control, Cut(c), UNCHANGED agentVars PROVE PendingAre'
  BY <1>9, <1>0 DEF PendingAre, InOffer, Cut, vars, relayVars, roomVars, controlVars, clientVars,
    dataVars, netVars, boardVars, agentVars
<1>10. ASSUME NEW s \in Client, AuthorizeClient(s), UNCHANGED agentVars PROVE PendingAre'
  BY <1>10, <1>0 DEF PendingAre, InOffer, AuthorizeClient, Reject, vars, relayVars, roomVars,
    controlVars, clientVars, dataVars, netVars, boardVars, agentVars
<1>11. ASSUME NEW s \in Client, SelectControl(s), UNCHANGED agentVars PROVE PendingAre'
  BY <1>11, <1>0 DEF PendingAre, InOffer, SelectControl, Free, Serving, HasPlace, Reject, vars,
    relayVars, roomVars, controlVars, clientVars, dataVars, netVars, boardVars, agentVars
<1>12. ASSUME NEW s \in Client, OpenPending(s), UNCHANGED agentVars PROVE PendingAre'
  <2>1. client \in [Client -> ClientStates]
    BY <1>0
  <2>2. CASE client' = [client EXCEPT ![s] = "pending"] /\ pending' = pending \cup {s}
    BY <2>1, <2>2 DEF PendingAre, InOffer
  <2>3. CASE client' = [client EXCEPT ![s] = "leaving"] /\ pending' = pending
    BY <1>12, <2>1, <2>3 DEF PendingAre, InOffer, OpenPending
  <2> QED
    BY <1>12, <2>2, <2>3 DEF OpenPending, Reject
<1>13. ASSUME NEW s \in Client, SendOffer(s), UNCHANGED agentVars PROVE PendingAre'
  BY <1>13, <1>0 DEF PendingAre, InOffer, SendOffer, ToAgent, NotifyDashboards, Reject, vars,
    relayVars, roomVars, controlVars, clientVars, dataVars, netVars, boardVars, agentVars
<1>14. ASSUME NEW s \in Client, TakeResponse(s), UNCHANGED agentVars PROVE PendingAre'
  BY <1>14, <1>0 DEF PendingAre, InOffer, TakeResponse, Reject, vars, relayVars, roomVars,
    controlVars, clientVars, dataVars, netVars, boardVars, agentVars
<1>15. ASSUME NEW s \in Client, OfferTimeout(s), UNCHANGED agentVars PROVE PendingAre'
  BY <1>15, <1>0 DEF PendingAre, InOffer, OfferTimeout, Reject, vars, relayVars, roomVars,
    controlVars, clientVars, dataVars, netVars, boardVars, agentVars
<1>16. ASSUME NEW s \in Client, TakeData(s), UNCHANGED agentVars PROVE PendingAre'
  BY <1>16, <1>0 DEF PendingAre, InOffer, TakeData, NotifyDashboards, vars, relayVars, roomVars,
    controlVars, clientVars, dataVars, netVars, boardVars, agentVars
<1>17. ASSUME NEW s \in Client, StartSession(s), UNCHANGED agentVars PROVE PendingAre'
  BY <1>17, <1>0 DEF PendingAre, InOffer, StartSession, NotifyDashboards, vars, relayVars,
    roomVars, controlVars, clientVars, dataVars, netVars, boardVars, agentVars
<1>18. ASSUME NEW s \in Client, Leave(s), UNCHANGED agentVars PROVE PendingAre'
  BY <1>18, <1>0 DEF PendingAre, InOffer, Leave, NotifyDashboards, Released, vars, relayVars,
    roomVars, controlVars, clientVars, dataVars, netVars, boardVars, agentVars
<1>19. ASSUME NEW s \in Client, CheckData(s), UNCHANGED agentVars PROVE PendingAre'
  BY <1>19, <1>0 DEF PendingAre, InOffer, CheckData, vars, relayVars, roomVars, controlVars,
    clientVars, dataVars, netVars, boardVars, agentVars
<1>20. ASSUME NEW s \in Client, HandOver(s), UNCHANGED agentVars PROVE PendingAre'
  BY <1>20, <1>0 DEF PendingAre, InOffer, HandOver, vars, relayVars, roomVars, controlVars,
    clientVars, dataVars, netVars, boardVars, agentVars
<1>21. ASSUME NEW s \in Client, Arrive(s), UNCHANGED agentVars PROVE PendingAre'
  BY <1>21, <1>0 DEF PendingAre, InOffer, Arrive, vars, relayVars, roomVars, controlVars,
    clientVars, dataVars, netVars, boardVars, agentVars
<1>22. ASSUME NEW s \in Client, GiveUp(s), UNCHANGED agentVars PROVE PendingAre'
  BY <1>22, <1>0 DEF PendingAre, InOffer, GiveUp, vars, relayVars, roomVars, controlVars,
    clientVars, dataVars, netVars, boardVars, agentVars
<1>23. ASSUME NEW s \in Client, ClientLeaves(s), UNCHANGED agentVars PROVE PendingAre'
  BY <1>23, <1>0 DEF PendingAre, InOffer, ClientLeaves, vars, relayVars, roomVars, controlVars,
    clientVars, dataVars, netVars, boardVars, agentVars
<1>24. ASSUME NEW s \in Client, EndSession(s), UNCHANGED agentVars PROVE PendingAre'
  BY <1>24, <1>0 DEF PendingAre, InOffer, EndSession, NotifyDashboards, vars, relayVars,
    roomVars, controlVars, clientVars, dataVars, netVars, boardVars, agentVars
<1>25. ASSUME TakeSnapshot, UNCHANGED agentVars PROVE PendingAre'
  BY <1>25, <1>0 DEF PendingAre, InOffer, TakeSnapshot, vars, relayVars, roomVars, controlVars,
    clientVars, dataVars, netVars, boardVars, agentVars
<1>26. ASSUME WriteSnapshot, UNCHANGED agentVars PROVE PendingAre'
  BY <1>26, <1>0 DEF PendingAre, InOffer, WriteSnapshot, vars, relayVars, roomVars, controlVars,
    clientVars, dataVars, netVars, boardVars, agentVars
<1>27. ASSUME NEW a \in Agent, DialControl(a) PROVE PendingAre'
  BY <1>27, <1>0 DEF PendingAre, InOffer, DialControl, vars, relayVars, roomVars, controlVars,
    clientVars, dataVars, netVars, boardVars, agentVars
<1>28. ASSUME NEW a \in Agent, LoseLink(a) PROVE PendingAre'
  BY <1>28, <1>0 DEF PendingAre, InOffer, LoseLink, vars, relayVars, roomVars, controlVars,
    clientVars, dataVars, netVars, boardVars, agentVars
<1>29. ASSUME NEW a \in Agent, ReadOffer(a) PROVE PendingAre'
  BY <1>29, <1>0 DEF PendingAre, InOffer, ReadOffer, ToRelay, vars, relayVars, roomVars,
    controlVars, clientVars, dataVars, netVars, boardVars, agentVars
<1>30. ASSUME NEW s \in Client, DialLocal(s) PROVE PendingAre'
  BY <1>30, <1>0 DEF PendingAre, InOffer, DialLocal, ToRelay, Ended, vars, relayVars, roomVars,
    controlVars, clientVars, dataVars, netVars, boardVars, agentVars
<1>31. ASSUME NEW s \in Client, DialData(s) PROVE PendingAre'
  BY <1>31, <1>0 DEF PendingAre, InOffer, DialData, Ended, AgentOf, vars, relayVars, roomVars,
    controlVars, clientVars, dataVars, netVars, boardVars, agentVars
<1>32. ASSUME NEW s \in Client, AwaitReady(s) PROVE PendingAre'
  BY <1>32, <1>0 DEF PendingAre, InOffer, AwaitReady, vars, relayVars, roomVars, controlVars,
    clientVars, dataVars, netVars, boardVars, agentVars
<1>33. ASSUME NEW s \in Client, SessionDeadline(s) PROVE PendingAre'
  BY <1>33, <1>0 DEF PendingAre, InOffer, SessionDeadline, Ended, vars, relayVars, roomVars,
    controlVars, clientVars, dataVars, netVars, boardVars, agentVars
<1>34. ASSUME NEW s \in Client, Expire(s) PROVE PendingAre'
  BY <1>34, <1>0 DEF PendingAre, InOffer, Expire, vars, relayVars, roomVars, controlVars,
    clientVars, dataVars, netVars, boardVars, agentVars
<1>35. ASSUME NEW s \in Client, CloseSession(s) PROVE PendingAre'
  BY <1>35, <1>0 DEF PendingAre, InOffer, CloseSession, ToRelay, Ended, vars, relayVars,
    roomVars, controlVars, clientVars, dataVars, netVars, boardVars, agentVars
<1>36. CASE UNCHANGED vars
  BY <1>36, <1>0 DEF PendingAre, InOffer, vars, relayVars, roomVars, controlVars, clientVars,
    dataVars, netVars, boardVars, agentVars
<1> QED
  BY <1>1, <1>2, <1>3, <1>4, <1>5, <1>6, <1>7, <1>8, <1>9, <1>10, <1>11, <1>12, <1>13, <1>14,
    <1>15, <1>16, <1>17, <1>18, <1>19, <1>20, <1>21, <1>22, <1>23, <1>24, <1>25, <1>26, <1>27,
    <1>28, <1>29, <1>30, <1>31, <1>32, <1>33, <1>34, <1>35, <1>36 DEF Next, RelayNext, RelayStep,
    ControlStep, ClientStep, DataStep, AgentStep, SessionStep

\* What is counted is finite.
LEMMA FiniteParts ==
    ASSUME Shape
    PROVE  /\ IsFiniteSet(OnControl) /\ IsFiniteSet(Running) /\ IsFiniteSet(pending)
           /\ \A c \in Control : IsFiniteSet(Holding(c))
           /\ \A c \in Control : Cardinality(Holding(c)) \in Nat
<1>1. IsFiniteSet(Control)
  BY BoundsAssumption, FS_Interval DEF Control
<1>2. IsFiniteSet(OnControl)
  BY <1>1, FS_Subset DEF OnControl
<1>3. IsFiniteSet(Running) /\ IsFiniteSet(pending) /\ \A c \in Control : IsFiniteSet(Holding(c))
  BY ClientsAssumption, FS_Subset DEF Running, Holding, Shape
<1> QED
  BY <1>2, <1>3, FS_CardinalityType

\* The counters follow what they count.
LEMMA CountedStep == Shape /\ PendingAre /\ Counted /\ [Next]_vars => Counted'
<1> SUFFICES ASSUME Shape, PendingAre, Counted, [Next]_vars PROVE Counted'
  OBVIOUS
<1>1. ASSUME NEW c \in Control, Authorize(c), UNCHANGED agentVars PROVE Counted'
  <2>1. OnControl' = OnControl /\ Running' = Running /\ pending' = pending
    BY <1>1 DEF Shape, OnControl, Running, Authorize, AgentProof, AgentOf, vars, relayVars,
      roomVars, controlVars, clientVars, dataVars, netVars, boardVars, agentVars
  <2> QED
    BY <1>1, <2>1 DEF Counted, Authorize, AgentProof, AgentOf, vars, relayVars, roomVars,
      controlVars, clientVars, dataVars, netVars, boardVars, agentVars
<1>2. ASSUME NEW c \in Control, Register(c), UNCHANGED agentVars PROVE Counted'
  <2>1. OnControl' = OnControl /\ Running' = Running /\ pending' = pending
    BY <1>2 DEF Shape, OnControl, Running, Register, AgentOf, vars, relayVars, roomVars,
      controlVars, clientVars, dataVars, netVars, boardVars, agentVars
  <2> QED
    BY <1>2, <2>1 DEF Counted, Register, AgentOf, vars, relayVars, roomVars, controlVars,
      clientVars, dataVars, netVars, boardVars, agentVars
<1>3. ASSUME NEW c \in Control, ControlConnected(c), UNCHANGED agentVars PROVE Counted'
  <2>1. OnControl' = OnControl \cup {c} /\ c \notin OnControl
    BY <1>3 DEF Shape, OnControl, ControlConnected
  <2>2. Running' = Running /\ pending' = pending
    BY <1>3 DEF Running, ControlConnected, clientVars
  <2>3. Cardinality(OnControl') = Cardinality(OnControl) + 1
    BY <1>3, <2>1, FiniteParts, FS_AddElement
  <2> QED
    BY <1>3, <2>1, <2>2, <2>3 DEF Counted, ControlConnected, vars, relayVars, roomVars,
      controlVars, clientVars, dataVars, netVars, boardVars, agentVars
<1>4. ASSUME NEW c \in Control, Greet(c), UNCHANGED agentVars PROVE Counted'
  <2>1. OnControl' = OnControl /\ Running' = Running /\ pending' = pending
    BY <1>4 DEF Shape, OnControl, Running, Greet, ToAgent, NotifyDashboards, vars, relayVars,
      roomVars, controlVars, clientVars, dataVars, netVars, boardVars, agentVars
  <2> QED
    BY <1>4, <2>1 DEF Counted, Greet, ToAgent, NotifyDashboards, vars, relayVars, roomVars,
      controlVars, clientVars, dataVars, netVars, boardVars, agentVars
<1>5. ASSUME NEW c \in Control, ReadControl(c), UNCHANGED agentVars PROVE Counted'
  <2> DEFINE s == Head(toRelay[c])[2]
  <2>1. OnControl' = OnControl /\ pending' = pending
    BY <1>5 DEF OnControl, ReadControl, controlVars
  <2>2. CASE client' = client /\ pairCount' = pairCount
    BY <1>5, <2>1, <2>2 DEF Counted, Running, ReadControl
  <2>3. CASE client[s] = "running" /\ client' = [client EXCEPT ![s] = "ending"] /\ pairCount' = pairCount - 1
    <3>1. toRelay[c] \in Seq(Reports) /\ toRelay[c] # <<>>
      BY <1>5 DEF Shape, ReadControl
    <3>2. s \in Client
      BY <3>1, Messages
    <3>3. Running' = Running \ {s} /\ s \in Running
      BY <2>3, <3>2 DEF Shape, Running
    <3>4. Cardinality(Running') = Cardinality(Running) - 1
      BY <3>3, FiniteParts, FS_RemoveElement
    <3> QED
      BY <1>5, <2>1, <2>3, <3>4 DEF Counted, ReadControl
  <2> QED
    BY <1>5, <2>2, <2>3 DEF ReadControl
<1>6. ASSUME NEW c \in Control, LoseControl(c), UNCHANGED agentVars PROVE Counted'
  <2>1. OnControl' = OnControl /\ Running' = Running /\ pending' = pending
    BY <1>6 DEF Shape, OnControl, Running, LoseControl, vars, relayVars, roomVars, controlVars,
      clientVars, dataVars, netVars, boardVars, agentVars
  <2> QED
    BY <1>6, <2>1 DEF Counted, LoseControl, vars, relayVars, roomVars, controlVars, clientVars,
      dataVars, netVars, boardVars, agentVars
<1>7. ASSUME NEW c \in Control, Unregister(c), UNCHANGED agentVars PROVE Counted'
  <2>1. OnControl' = OnControl /\ Running' = Running /\ pending' = pending
    BY <1>7 DEF Shape, OnControl, Running, Unregister, AgentOf, Answers, vars, relayVars,
      roomVars, controlVars, clientVars, dataVars, netVars, boardVars, agentVars
  <2> QED
    BY <1>7, <2>1 DEF Counted, Unregister, AgentOf, Answers, vars, relayVars, roomVars,
      controlVars, clientVars, dataVars, netVars, boardVars, agentVars
<1>8. ASSUME NEW c \in Control, ControlDisconnected(c), UNCHANGED agentVars PROVE Counted'
  <2>1. OnControl' = OnControl \ {c} /\ c \in OnControl
    BY <1>8 DEF Shape, OnControl, ControlDisconnected
  <2>2. Running' = Running /\ pending' = pending
    BY <1>8 DEF Running, ControlDisconnected, clientVars
  <2>3. Cardinality(OnControl') = Cardinality(OnControl) - 1
    BY <1>8, <2>1, FiniteParts, FS_RemoveElement
  <2> QED
    BY <1>8, <2>1, <2>2, <2>3 DEF Counted, ControlDisconnected, vars, relayVars, roomVars,
      controlVars, clientVars, dataVars, netVars, boardVars, agentVars
<1>9. ASSUME NEW c \in Control, Cut(c), UNCHANGED agentVars PROVE Counted'
  <2>1. OnControl' = OnControl /\ Running' = Running /\ pending' = pending
    BY <1>9 DEF Shape, OnControl, Running, Cut, vars, relayVars, roomVars, controlVars,
      clientVars, dataVars, netVars, boardVars, agentVars
  <2> QED
    BY <1>9, <2>1 DEF Counted, Cut, vars, relayVars, roomVars, controlVars, clientVars, dataVars,
      netVars, boardVars, agentVars
<1>10. ASSUME NEW s \in Client, AuthorizeClient(s), UNCHANGED agentVars PROVE Counted'
  <2>1. OnControl' = OnControl /\ Running' = Running /\ pending' = pending
    BY <1>10 DEF Shape, OnControl, Running, AuthorizeClient, Reject, vars, relayVars, roomVars,
      controlVars, clientVars, dataVars, netVars, boardVars, agentVars
  <2> QED
    BY <1>10, <2>1 DEF Counted, AuthorizeClient, Reject, vars, relayVars, roomVars, controlVars,
      clientVars, dataVars, netVars, boardVars, agentVars
<1>11. ASSUME NEW s \in Client, SelectControl(s), UNCHANGED agentVars PROVE Counted'
  <2>1. OnControl' = OnControl /\ Running' = Running /\ pending' = pending
    BY <1>11 DEF Shape, OnControl, Running, SelectControl, Free, Serving, HasPlace, Reject, vars,
      relayVars, roomVars, controlVars, clientVars, dataVars, netVars, boardVars, agentVars
  <2> QED
    BY <1>11, <2>1 DEF Counted, SelectControl, Free, Serving, HasPlace, Reject, vars, relayVars,
      roomVars, controlVars, clientVars, dataVars, netVars, boardVars, agentVars
<1>12. ASSUME NEW s \in Client, OpenPending(s), UNCHANGED agentVars PROVE Counted'
  <2>1. OnControl' = OnControl /\ Running' = Running
    BY <1>12 DEF Shape, OnControl, Running, OpenPending, Reject, controlVars
  <2>2. s \notin pending
    BY <1>12 DEF PendingAre, InOffer, OpenPending
  <2>3. Cardinality(pending \cup {s}) = Cardinality(pending) + 1
    BY <2>2, FiniteParts, FS_AddElement
  <2> QED
    BY <1>12, <2>1, <2>3 DEF Counted, OpenPending
<1>13. ASSUME NEW s \in Client, SendOffer(s), UNCHANGED agentVars PROVE Counted'
  <2>1. OnControl' = OnControl /\ Running' = Running /\ pending' = pending
    BY <1>13 DEF Shape, OnControl, Running, SendOffer, ToAgent, NotifyDashboards, Reject, vars,
      relayVars, roomVars, controlVars, clientVars, dataVars, netVars, boardVars, agentVars
  <2> QED
    BY <1>13, <2>1 DEF Counted, SendOffer, ToAgent, NotifyDashboards, Reject, vars, relayVars,
      roomVars, controlVars, clientVars, dataVars, netVars, boardVars, agentVars
<1>14. ASSUME NEW s \in Client, TakeResponse(s), UNCHANGED agentVars PROVE Counted'
  <2>1. OnControl' = OnControl /\ Running' = Running /\ pending' = pending
    BY <1>14 DEF Shape, OnControl, Running, TakeResponse, Reject, vars, relayVars, roomVars,
      controlVars, clientVars, dataVars, netVars, boardVars, agentVars
  <2> QED
    BY <1>14, <2>1 DEF Counted, TakeResponse, Reject, vars, relayVars, roomVars, controlVars,
      clientVars, dataVars, netVars, boardVars, agentVars
<1>15. ASSUME NEW s \in Client, OfferTimeout(s), UNCHANGED agentVars PROVE Counted'
  <2>1. OnControl' = OnControl /\ Running' = Running /\ pending' = pending
    BY <1>15 DEF Shape, OnControl, Running, OfferTimeout, Reject, vars, relayVars, roomVars,
      controlVars, clientVars, dataVars, netVars, boardVars, agentVars
  <2> QED
    BY <1>15, <2>1 DEF Counted, OfferTimeout, Reject, vars, relayVars, roomVars, controlVars,
      clientVars, dataVars, netVars, boardVars, agentVars
<1>16. ASSUME NEW s \in Client, TakeData(s), UNCHANGED agentVars PROVE Counted'
  <2>1. OnControl' = OnControl /\ Running' = Running
    BY <1>16 DEF Shape, OnControl, Running, TakeData, controlVars
  <2>2. s \in pending
    BY <1>16 DEF PendingAre, InOffer, TakeData
  <2>3. Cardinality(pending \ {s}) = Cardinality(pending) - 1
    BY <2>2, FiniteParts, FS_RemoveElement
  <2> QED
    BY <1>16, <2>1, <2>3 DEF Counted, TakeData
<1>17. ASSUME NEW s \in Client, StartSession(s), UNCHANGED agentVars PROVE Counted'
  <2>1. OnControl' = OnControl /\ pending' = pending
    BY <1>17 DEF OnControl, StartSession, controlVars
  <2>2. CASE client' = [client EXCEPT ![s] = "running"] /\ pairCount' = pairCount + 1
    <3>1. Running' = Running \cup {s} /\ s \notin Running
      BY <1>17, <2>2 DEF Shape, Running, StartSession
    <3>2. Cardinality(Running') = Cardinality(Running) + 1
      BY <3>1, FiniteParts, FS_AddElement
    <3> QED
      BY <1>17, <2>1, <2>2, <3>2 DEF Counted, StartSession
  <2>3. CASE client' = [client EXCEPT ![s] = "leaving"] /\ pairCount' = pairCount
    <3>1. Running' = Running
      BY <1>17, <2>3 DEF Shape, Running, StartSession
    <3> QED
      BY <1>17, <2>1, <2>3, <3>1 DEF Counted, StartSession
  <2> QED
    BY <1>17, <2>2, <2>3 DEF StartSession
<1>18. ASSUME NEW s \in Client, Leave(s), UNCHANGED agentVars PROVE Counted'
  <2>1. OnControl' = OnControl /\ Running' = Running
    BY <1>18 DEF Shape, OnControl, Running, Leave, controlVars
  <2>2. s \in pending => Cardinality(pending \ {s}) = Cardinality(pending) - 1
    BY FiniteParts, FS_RemoveElement
  <2> QED
    BY <1>18, <2>1, <2>2 DEF Counted, Leave
<1>19. ASSUME NEW s \in Client, CheckData(s), UNCHANGED agentVars PROVE Counted'
  <2>1. OnControl' = OnControl /\ Running' = Running /\ pending' = pending
    BY <1>19 DEF Shape, OnControl, Running, CheckData, vars, relayVars, roomVars, controlVars,
      clientVars, dataVars, netVars, boardVars, agentVars
  <2> QED
    BY <1>19, <2>1 DEF Counted, CheckData, vars, relayVars, roomVars, controlVars, clientVars,
      dataVars, netVars, boardVars, agentVars
<1>20. ASSUME NEW s \in Client, HandOver(s), UNCHANGED agentVars PROVE Counted'
  <2>1. OnControl' = OnControl /\ Running' = Running /\ pending' = pending
    BY <1>20 DEF Shape, OnControl, Running, HandOver, vars, relayVars, roomVars, controlVars,
      clientVars, dataVars, netVars, boardVars, agentVars
  <2> QED
    BY <1>20, <2>1 DEF Counted, HandOver, vars, relayVars, roomVars, controlVars, clientVars,
      dataVars, netVars, boardVars, agentVars
<1>21. ASSUME NEW s \in Client, Arrive(s), UNCHANGED agentVars PROVE Counted'
  <2>1. OnControl' = OnControl /\ Running' = Running /\ pending' = pending
    BY <1>21 DEF Shape, OnControl, Running, Arrive, vars, relayVars, roomVars, controlVars,
      clientVars, dataVars, netVars, boardVars, agentVars
  <2> QED
    BY <1>21, <2>1 DEF Counted, Arrive, vars, relayVars, roomVars, controlVars, clientVars,
      dataVars, netVars, boardVars, agentVars
<1>22. ASSUME NEW s \in Client, GiveUp(s), UNCHANGED agentVars PROVE Counted'
  <2>1. OnControl' = OnControl /\ Running' = Running /\ pending' = pending
    BY <1>22 DEF Shape, OnControl, Running, GiveUp, vars, relayVars, roomVars, controlVars,
      clientVars, dataVars, netVars, boardVars, agentVars
  <2> QED
    BY <1>22, <2>1 DEF Counted, GiveUp, vars, relayVars, roomVars, controlVars, clientVars,
      dataVars, netVars, boardVars, agentVars
<1>23. ASSUME NEW s \in Client, ClientLeaves(s), UNCHANGED agentVars PROVE Counted'
  <2>1. OnControl' = OnControl /\ Running' = Running /\ pending' = pending
    BY <1>23 DEF Shape, OnControl, Running, ClientLeaves, vars, relayVars, roomVars, controlVars,
      clientVars, dataVars, netVars, boardVars, agentVars
  <2> QED
    BY <1>23, <2>1 DEF Counted, ClientLeaves, vars, relayVars, roomVars, controlVars, clientVars,
      dataVars, netVars, boardVars, agentVars
<1>24. ASSUME NEW s \in Client, EndSession(s), UNCHANGED agentVars PROVE Counted'
  <2>1. OnControl' = OnControl /\ pending' = pending
    BY <1>24 DEF OnControl, EndSession, controlVars
  <2>2. Running' = Running \ {s} /\ s \in Running
    BY <1>24 DEF Shape, Running, EndSession
  <2>3. Cardinality(Running') = Cardinality(Running) - 1
    BY <2>2, FiniteParts, FS_RemoveElement
  <2> QED
    BY <1>24, <2>1, <2>3 DEF Counted, EndSession
<1>25. ASSUME TakeSnapshot, UNCHANGED agentVars PROVE Counted'
  <2>1. OnControl' = OnControl /\ Running' = Running /\ pending' = pending
    BY <1>25 DEF Shape, OnControl, Running, TakeSnapshot, vars, relayVars, roomVars, controlVars,
      clientVars, dataVars, netVars, boardVars, agentVars
  <2> QED
    BY <1>25, <2>1 DEF Counted, TakeSnapshot, vars, relayVars, roomVars, controlVars, clientVars,
      dataVars, netVars, boardVars, agentVars
<1>26. ASSUME WriteSnapshot, UNCHANGED agentVars PROVE Counted'
  <2>1. OnControl' = OnControl /\ Running' = Running /\ pending' = pending
    BY <1>26 DEF Shape, OnControl, Running, WriteSnapshot, vars, relayVars, roomVars,
      controlVars, clientVars, dataVars, netVars, boardVars, agentVars
  <2> QED
    BY <1>26, <2>1 DEF Counted, WriteSnapshot, vars, relayVars, roomVars, controlVars,
      clientVars, dataVars, netVars, boardVars, agentVars
<1>27. ASSUME NEW a \in Agent, DialControl(a) PROVE Counted'
  <2>1. PICK c \in Unused(a) : control' = [control EXCEPT ![c] = "arrived"]
    BY <1>27 DEF DialControl
  <2>2. control[c] = "idle"
    BY <2>1 DEF Unused
  <2>3. OnControl' = OnControl
    BY <2>1, <2>2 DEF Shape, OnControl
  <2>4. Running' = Running /\ pending' = pending
    BY <1>27 DEF Running, DialControl, clientVars
  <2> QED
    BY <1>27, <2>3, <2>4 DEF Counted, DialControl, roomVars
<1>28. ASSUME NEW a \in Agent, LoseLink(a) PROVE Counted'
  <2>1. OnControl' = OnControl /\ Running' = Running /\ pending' = pending
    BY <1>28 DEF Shape, OnControl, Running, LoseLink, vars, relayVars, roomVars, controlVars,
      clientVars, dataVars, netVars, boardVars, agentVars
  <2> QED
    BY <1>28, <2>1 DEF Counted, LoseLink, vars, relayVars, roomVars, controlVars, clientVars,
      dataVars, netVars, boardVars, agentVars
<1>29. ASSUME NEW a \in Agent, ReadOffer(a) PROVE Counted'
  <2>1. OnControl' = OnControl /\ Running' = Running /\ pending' = pending
    BY <1>29 DEF Shape, OnControl, Running, ReadOffer, ToRelay, vars, relayVars, roomVars,
      controlVars, clientVars, dataVars, netVars, boardVars, agentVars
  <2> QED
    BY <1>29, <2>1 DEF Counted, ReadOffer, ToRelay, vars, relayVars, roomVars, controlVars,
      clientVars, dataVars, netVars, boardVars, agentVars
<1>30. ASSUME NEW s \in Client, DialLocal(s) PROVE Counted'
  <2>1. OnControl' = OnControl /\ Running' = Running /\ pending' = pending
    BY <1>30 DEF Shape, OnControl, Running, DialLocal, ToRelay, Ended, vars, relayVars, roomVars,
      controlVars, clientVars, dataVars, netVars, boardVars, agentVars
  <2> QED
    BY <1>30, <2>1 DEF Counted, DialLocal, ToRelay, Ended, vars, relayVars, roomVars,
      controlVars, clientVars, dataVars, netVars, boardVars, agentVars
<1>31. ASSUME NEW s \in Client, DialData(s) PROVE Counted'
  <2>1. OnControl' = OnControl /\ Running' = Running /\ pending' = pending
    BY <1>31 DEF Shape, OnControl, Running, DialData, Ended, AgentOf, vars, relayVars, roomVars,
      controlVars, clientVars, dataVars, netVars, boardVars, agentVars
  <2> QED
    BY <1>31, <2>1 DEF Counted, DialData, Ended, AgentOf, vars, relayVars, roomVars, controlVars,
      clientVars, dataVars, netVars, boardVars, agentVars
<1>32. ASSUME NEW s \in Client, AwaitReady(s) PROVE Counted'
  <2>1. OnControl' = OnControl /\ Running' = Running /\ pending' = pending
    BY <1>32 DEF Shape, OnControl, Running, AwaitReady, vars, relayVars, roomVars, controlVars,
      clientVars, dataVars, netVars, boardVars, agentVars
  <2> QED
    BY <1>32, <2>1 DEF Counted, AwaitReady, vars, relayVars, roomVars, controlVars, clientVars,
      dataVars, netVars, boardVars, agentVars
<1>33. ASSUME NEW s \in Client, SessionDeadline(s) PROVE Counted'
  <2>1. OnControl' = OnControl /\ Running' = Running /\ pending' = pending
    BY <1>33 DEF Shape, OnControl, Running, SessionDeadline, Ended, vars, relayVars, roomVars,
      controlVars, clientVars, dataVars, netVars, boardVars, agentVars
  <2> QED
    BY <1>33, <2>1 DEF Counted, SessionDeadline, Ended, vars, relayVars, roomVars, controlVars,
      clientVars, dataVars, netVars, boardVars, agentVars
<1>34. ASSUME NEW s \in Client, Expire(s) PROVE Counted'
  <2>1. OnControl' = OnControl /\ Running' = Running /\ pending' = pending
    BY <1>34 DEF Shape, OnControl, Running, Expire, vars, relayVars, roomVars, controlVars,
      clientVars, dataVars, netVars, boardVars, agentVars
  <2> QED
    BY <1>34, <2>1 DEF Counted, Expire, vars, relayVars, roomVars, controlVars, clientVars,
      dataVars, netVars, boardVars, agentVars
<1>35. ASSUME NEW s \in Client, CloseSession(s) PROVE Counted'
  <2>1. OnControl' = OnControl /\ Running' = Running /\ pending' = pending
    BY <1>35 DEF Shape, OnControl, Running, CloseSession, ToRelay, Ended, vars, relayVars,
      roomVars, controlVars, clientVars, dataVars, netVars, boardVars, agentVars
  <2> QED
    BY <1>35, <2>1 DEF Counted, CloseSession, ToRelay, Ended, vars, relayVars, roomVars,
      controlVars, clientVars, dataVars, netVars, boardVars, agentVars
<1>36. CASE UNCHANGED vars
  BY <1>36 DEF Counted, OnControl, Running, vars, relayVars, roomVars, controlVars, clientVars,
    dataVars, netVars, boardVars, agentVars
<1> QED
  BY <1>1, <1>2, <1>3, <1>4, <1>5, <1>6, <1>7, <1>8, <1>9, <1>10, <1>11, <1>12, <1>13, <1>14,
    <1>15, <1>16, <1>17, <1>18, <1>19, <1>20, <1>21, <1>22, <1>23, <1>24, <1>25, <1>26, <1>27,
    <1>28, <1>29, <1>30, <1>31, <1>32, <1>33, <1>34, <1>35, <1>36 DEF Next, RelayNext, RelayStep,
    ControlStep, ClientStep, DataStep, AgentStep, SessionStep

\* Places are taken by SelectControl and given back by Leave, on the same control.
LEMMA PlacedStep == Shape /\ Owned /\ Placed /\ [Next]_vars => Placed'
<1> SUFFICES ASSUME Shape, Owned, Placed, [Next]_vars PROVE Placed'
  OBVIOUS
<1>1. ASSUME NEW c \in Control, Authorize(c), UNCHANGED agentVars PROVE Placed'
  <2>1. \A d \in Control : Holding(d)' = Holding(d)
    BY <1>1 DEF Shape, Holding, Authorize, AgentProof, AgentOf, vars, relayVars, roomVars,
      controlVars, clientVars, dataVars, netVars, boardVars, agentVars
  <2>2. active' = active /\ plan' = plan
    BY <1>1 DEF Authorize, vars, relayVars, roomVars, controlVars, clientVars, dataVars, netVars,
      boardVars, agentVars
  <2> QED
    BY <2>1, <2>2 DEF Placed, AgentOf
<1>2. ASSUME NEW c \in Control, Register(c), UNCHANGED agentVars PROVE Placed'
  <2>1. \A d \in Control : Holding(d)' = Holding(d)
    BY <1>2 DEF Shape, Holding, Register, AgentOf, vars, relayVars, roomVars, controlVars,
      clientVars, dataVars, netVars, boardVars, agentVars
  <2>2. active' = active /\ plan' = plan
    BY <1>2 DEF Register, vars, relayVars, roomVars, controlVars, clientVars, dataVars, netVars,
      boardVars, agentVars
  <2> QED
    BY <2>1, <2>2 DEF Placed, AgentOf
<1>3. ASSUME NEW c \in Control, ControlConnected(c), UNCHANGED agentVars PROVE Placed'
  <2>1. \A d \in Control : Holding(d)' = Holding(d)
    BY <1>3 DEF Shape, Holding, ControlConnected, vars, relayVars, roomVars, controlVars,
      clientVars, dataVars, netVars, boardVars, agentVars
  <2>2. active' = active /\ plan' = plan
    BY <1>3 DEF ControlConnected, vars, relayVars, roomVars, controlVars, clientVars, dataVars,
      netVars, boardVars, agentVars
  <2> QED
    BY <2>1, <2>2 DEF Placed, AgentOf
<1>4. ASSUME NEW c \in Control, Greet(c), UNCHANGED agentVars PROVE Placed'
  <2>1. \A d \in Control : Holding(d)' = Holding(d)
    BY <1>4 DEF Shape, Holding, Greet, ToAgent, NotifyDashboards, vars, relayVars, roomVars,
      controlVars, clientVars, dataVars, netVars, boardVars, agentVars
  <2>2. active' = active /\ plan' = plan
    BY <1>4 DEF Greet, vars, relayVars, roomVars, controlVars, clientVars, dataVars, netVars,
      boardVars, agentVars
  <2> QED
    BY <2>1, <2>2 DEF Placed, AgentOf
<1>5. ASSUME NEW c \in Control, ReadControl(c), UNCHANGED agentVars PROVE Placed'
  <2>1. \A d \in Control : Holding(d)' = Holding(d)
    BY <1>5 DEF Shape, Holding, ReadControl, NotifyDashboards, Answers, vars, relayVars,
      roomVars, controlVars, clientVars, dataVars, netVars, boardVars, agentVars
  <2>2. active' = active /\ plan' = plan
    BY <1>5 DEF ReadControl, vars, relayVars, roomVars, controlVars, clientVars, dataVars,
      netVars, boardVars, agentVars
  <2> QED
    BY <2>1, <2>2 DEF Placed, AgentOf
<1>6. ASSUME NEW c \in Control, LoseControl(c), UNCHANGED agentVars PROVE Placed'
  <2>1. \A d \in Control : Holding(d)' = Holding(d)
    BY <1>6 DEF Shape, Holding, LoseControl, vars, relayVars, roomVars, controlVars, clientVars,
      dataVars, netVars, boardVars, agentVars
  <2>2. active' = active /\ plan' = plan
    BY <1>6 DEF LoseControl, vars, relayVars, roomVars, controlVars, clientVars, dataVars,
      netVars, boardVars, agentVars
  <2> QED
    BY <2>1, <2>2 DEF Placed, AgentOf
<1>7. ASSUME NEW c \in Control, Unregister(c), UNCHANGED agentVars PROVE Placed'
  <2>1. \A d \in Control : Holding(d)' = Holding(d)
    BY <1>7 DEF Shape, Holding, Unregister, AgentOf, Answers, vars, relayVars, roomVars,
      controlVars, clientVars, dataVars, netVars, boardVars, agentVars
  <2>2. active' = active /\ plan' = plan
    BY <1>7 DEF Unregister, vars, relayVars, roomVars, controlVars, clientVars, dataVars,
      netVars, boardVars, agentVars
  <2> QED
    BY <2>1, <2>2 DEF Placed, AgentOf
<1>8. ASSUME NEW c \in Control, ControlDisconnected(c), UNCHANGED agentVars PROVE Placed'
  <2>1. \A d \in Control : Holding(d)' = Holding(d)
    BY <1>8 DEF Shape, Holding, ControlDisconnected, NotifyDashboards, vars, relayVars, roomVars,
      controlVars, clientVars, dataVars, netVars, boardVars, agentVars
  <2>2. active' = active /\ plan' = plan
    BY <1>8 DEF ControlDisconnected, vars, relayVars, roomVars, controlVars, clientVars,
      dataVars, netVars, boardVars, agentVars
  <2> QED
    BY <2>1, <2>2 DEF Placed, AgentOf
<1>9. ASSUME NEW c \in Control, Cut(c), UNCHANGED agentVars PROVE Placed'
  <2>1. \A d \in Control : Holding(d)' = Holding(d)
    BY <1>9 DEF Shape, Holding, Cut, vars, relayVars, roomVars, controlVars, clientVars,
      dataVars, netVars, boardVars, agentVars
  <2>2. active' = active /\ plan' = plan
    BY <1>9 DEF Cut, vars, relayVars, roomVars, controlVars, clientVars, dataVars, netVars,
      boardVars, agentVars
  <2> QED
    BY <2>1, <2>2 DEF Placed, AgentOf
<1>10. ASSUME NEW s \in Client, AuthorizeClient(s), UNCHANGED agentVars PROVE Placed'
  <2>1. \A d \in Control : Holding(d)' = Holding(d)
    BY <1>10 DEF Shape, Holding, AuthorizeClient, Reject, vars, relayVars, roomVars, controlVars,
      clientVars, dataVars, netVars, boardVars, agentVars
  <2>2. active' = active /\ plan' = plan
    BY <1>10 DEF AuthorizeClient, vars, relayVars, roomVars, controlVars, clientVars, dataVars,
      netVars, boardVars, agentVars
  <2> QED
    BY <2>1, <2>2 DEF Placed, AgentOf
<1>11. ASSUME NEW s \in Client, SelectControl(s), UNCHANGED agentVars PROVE Placed'
  <2>1. CASE owner' = owner /\ active' = active
    <3>1. \A d \in Control : Holding(d)' = Holding(d)
      BY <1>11, <2>1 DEF Shape, Holding, SelectControl, Reject
    <3> QED
      BY <1>11, <2>1, <3>1 DEF Placed, AgentOf, SelectControl
  <2>2. ASSUME NEW c \in Free(s), active' = [active EXCEPT ![c] = @ + 1],
               owner' = [owner EXCEPT ![s] = c], client' = [client EXCEPT ![s] = "reserved"]
        PROVE  Placed'
    <3>1. c \in Control /\ active[c] < plan.limit[AgentOf(c)]
      BY <2>2 DEF Free, Serving, HasPlace
    <3>2. owner[s] = None /\ client[s] # "done" /\ None \notin Control
      BY <1>11, NamesAssumption DEF SelectControl, Owned, Early
    <3>3. \A d \in Control \ {c} : Holding(d)' = Holding(d)
      BY <2>2, <3>1, <3>2 DEF Shape, Holding
    <3>4. Holding(c)' = Holding(c) \cup {s} /\ s \notin Holding(c)
      BY <2>2, <3>1, <3>2 DEF Shape, Holding
    <3>5. Cardinality(Holding(c)') = Cardinality(Holding(c)) + 1
      BY <3>1, <3>4, FiniteParts, FS_AddElement
    <3>6. plan' = plan /\ plan.limit[AgentOf(c)] \in Nat
      BY <1>11, <3>1, PlanTypes DEF SelectControl, AgentOf
    <3> QED
      BY <2>2, <3>1, <3>3, <3>5, <3>6 DEF Placed, AgentOf
  <2> QED
    BY <1>11, <2>1, <2>2 DEF SelectControl
<1>12. ASSUME NEW s \in Client, OpenPending(s), UNCHANGED agentVars PROVE Placed'
  <2>1. \A d \in Control : Holding(d)' = Holding(d)
    BY <1>12 DEF Shape, Holding, OpenPending, Reject, vars, relayVars, roomVars, controlVars,
      clientVars, dataVars, netVars, boardVars, agentVars
  <2>2. active' = active /\ plan' = plan
    BY <1>12 DEF OpenPending, vars, relayVars, roomVars, controlVars, clientVars, dataVars,
      netVars, boardVars, agentVars
  <2> QED
    BY <2>1, <2>2 DEF Placed, AgentOf
<1>13. ASSUME NEW s \in Client, SendOffer(s), UNCHANGED agentVars PROVE Placed'
  <2>1. \A d \in Control : Holding(d)' = Holding(d)
    BY <1>13 DEF Shape, Holding, SendOffer, ToAgent, NotifyDashboards, Reject, vars, relayVars,
      roomVars, controlVars, clientVars, dataVars, netVars, boardVars, agentVars
  <2>2. active' = active /\ plan' = plan
    BY <1>13 DEF SendOffer, vars, relayVars, roomVars, controlVars, clientVars, dataVars,
      netVars, boardVars, agentVars
  <2> QED
    BY <2>1, <2>2 DEF Placed, AgentOf
<1>14. ASSUME NEW s \in Client, TakeResponse(s), UNCHANGED agentVars PROVE Placed'
  <2>1. \A d \in Control : Holding(d)' = Holding(d)
    BY <1>14 DEF Shape, Holding, TakeResponse, Reject, vars, relayVars, roomVars, controlVars,
      clientVars, dataVars, netVars, boardVars, agentVars
  <2>2. active' = active /\ plan' = plan
    BY <1>14 DEF TakeResponse, vars, relayVars, roomVars, controlVars, clientVars, dataVars,
      netVars, boardVars, agentVars
  <2> QED
    BY <2>1, <2>2 DEF Placed, AgentOf
<1>15. ASSUME NEW s \in Client, OfferTimeout(s), UNCHANGED agentVars PROVE Placed'
  <2>1. \A d \in Control : Holding(d)' = Holding(d)
    BY <1>15 DEF Shape, Holding, OfferTimeout, Reject, vars, relayVars, roomVars, controlVars,
      clientVars, dataVars, netVars, boardVars, agentVars
  <2>2. active' = active /\ plan' = plan
    BY <1>15 DEF OfferTimeout, vars, relayVars, roomVars, controlVars, clientVars, dataVars,
      netVars, boardVars, agentVars
  <2> QED
    BY <2>1, <2>2 DEF Placed, AgentOf
<1>16. ASSUME NEW s \in Client, TakeData(s), UNCHANGED agentVars PROVE Placed'
  <2>1. \A d \in Control : Holding(d)' = Holding(d)
    BY <1>16 DEF Shape, Holding, TakeData, NotifyDashboards, vars, relayVars, roomVars,
      controlVars, clientVars, dataVars, netVars, boardVars, agentVars
  <2>2. active' = active /\ plan' = plan
    BY <1>16 DEF TakeData, vars, relayVars, roomVars, controlVars, clientVars, dataVars, netVars,
      boardVars, agentVars
  <2> QED
    BY <2>1, <2>2 DEF Placed, AgentOf
<1>17. ASSUME NEW s \in Client, StartSession(s), UNCHANGED agentVars PROVE Placed'
  <2>1. \A d \in Control : Holding(d)' = Holding(d)
    BY <1>17 DEF Shape, Holding, StartSession, NotifyDashboards, vars, relayVars, roomVars,
      controlVars, clientVars, dataVars, netVars, boardVars, agentVars
  <2>2. active' = active /\ plan' = plan
    BY <1>17 DEF StartSession, vars, relayVars, roomVars, controlVars, clientVars, dataVars,
      netVars, boardVars, agentVars
  <2> QED
    BY <2>1, <2>2 DEF Placed, AgentOf
<1>18. ASSUME NEW s \in Client, Leave(s), UNCHANGED agentVars PROVE Placed'
  <2>1. plan' = plan /\ owner' = owner /\ client' = [client EXCEPT ![s] = "done"]
        /\ client[s] \in {"ending", "leaving"}
    BY <1>18 DEF Leave
  <2>2. CASE owner[s] = None
    <3>1. \A d \in Control : Holding(d)' = Holding(d)
      BY <2>1, <2>2, NamesAssumption DEF Shape, Holding
    <3> QED
      BY <1>18, <2>1, <2>2, <3>1 DEF Placed, AgentOf, Leave
  <2>3. CASE owner[s] # None
    <3> DEFINE c == owner[s]
    <3>1. c \in Control
      BY <2>3 DEF Shape
    <3>2. \A d \in Control \ {c} : Holding(d)' = Holding(d)
      BY <2>1 DEF Shape, Holding
    <3>3. Holding(c)' = Holding(c) \ {s} /\ s \in Holding(c)
      BY <2>1 DEF Shape, Holding
    <3>4. Cardinality(Holding(c)') = Cardinality(Holding(c)) - 1
      BY <3>1, <3>3, FiniteParts, FS_RemoveElement
    <3>5. active[c] \in Nat /\ active[c] = Cardinality(Holding(c)) /\ active[c] > 0
      BY <3>1, <3>3, FiniteParts, FS_EmptySet DEF Placed
    <3>6. active' = [active EXCEPT ![c] = active[c] - 1]
      <4>1. active' = [active EXCEPT ![c] = IF active[c] > 0 THEN active[c] - 1 ELSE active[c]]
        BY <1>18, <2>3 DEF Leave, Released
      <4>2. (IF active[c] > 0 THEN active[c] - 1 ELSE active[c]) = active[c] - 1
        BY <3>5
      <4> QED
        BY <4>1, <4>2
    <3>7. plan.limit[AgentOf(c)] \in Nat
      BY <3>1, PlanTypes DEF AgentOf
    <3>8. \A d \in Control : active'[d] = Cardinality(Holding(d)')
      <4>1. active'[c] = Cardinality(Holding(c)')
        BY <3>1, <3>4, <3>5, <3>6 DEF Placed
      <4>2. \A d \in Control \ {c} : active'[d] = active[d] /\ active[d] = Cardinality(Holding(d))
        BY <3>6 DEF Placed
      <4>3. ASSUME NEW d \in Control, d # c PROVE active'[d] = Cardinality(Holding(d)')
        BY <3>2, <4>2, <4>3
      <4> QED
        BY <2>1, <4>1, <4>3
    <3>9. active' \in [Control -> Nat] /\ \A d \in Control : active'[d] <= plan.limit[AgentOf(d)]
      BY <3>1, <3>5, <3>6, <3>7 DEF Placed
    <3> QED
      BY <2>1, <3>8, <3>9 DEF Placed, AgentOf
  <2> QED
    BY <2>2, <2>3
<1>19. ASSUME NEW s \in Client, CheckData(s), UNCHANGED agentVars PROVE Placed'
  <2>1. \A d \in Control : Holding(d)' = Holding(d)
    BY <1>19 DEF Shape, Holding, CheckData, vars, relayVars, roomVars, controlVars, clientVars,
      dataVars, netVars, boardVars, agentVars
  <2>2. active' = active /\ plan' = plan
    BY <1>19 DEF CheckData, vars, relayVars, roomVars, controlVars, clientVars, dataVars,
      netVars, boardVars, agentVars
  <2> QED
    BY <2>1, <2>2 DEF Placed, AgentOf
<1>20. ASSUME NEW s \in Client, HandOver(s), UNCHANGED agentVars PROVE Placed'
  <2>1. \A d \in Control : Holding(d)' = Holding(d)
    BY <1>20 DEF Shape, Holding, HandOver, vars, relayVars, roomVars, controlVars, clientVars,
      dataVars, netVars, boardVars, agentVars
  <2>2. active' = active /\ plan' = plan
    BY <1>20 DEF HandOver, vars, relayVars, roomVars, controlVars, clientVars, dataVars, netVars,
      boardVars, agentVars
  <2> QED
    BY <2>1, <2>2 DEF Placed, AgentOf
<1>21. ASSUME NEW s \in Client, Arrive(s), UNCHANGED agentVars PROVE Placed'
  <2>1. \A d \in Control : Holding(d)' = Holding(d)
    BY <1>21 DEF Shape, Holding, Arrive, vars, relayVars, roomVars, controlVars, clientVars,
      dataVars, netVars, boardVars, agentVars
  <2>2. active' = active /\ plan' = plan
    BY <1>21 DEF Arrive, vars, relayVars, roomVars, controlVars, clientVars, dataVars, netVars,
      boardVars, agentVars
  <2> QED
    BY <2>1, <2>2 DEF Placed, AgentOf
<1>22. ASSUME NEW s \in Client, GiveUp(s), UNCHANGED agentVars PROVE Placed'
  <2>1. \A d \in Control : Holding(d)' = Holding(d)
    BY <1>22 DEF Shape, Holding, GiveUp, vars, relayVars, roomVars, controlVars, clientVars,
      dataVars, netVars, boardVars, agentVars
  <2>2. active' = active /\ plan' = plan
    BY <1>22 DEF GiveUp, vars, relayVars, roomVars, controlVars, clientVars, dataVars, netVars,
      boardVars, agentVars
  <2> QED
    BY <2>1, <2>2 DEF Placed, AgentOf
<1>23. ASSUME NEW s \in Client, ClientLeaves(s), UNCHANGED agentVars PROVE Placed'
  <2>1. \A d \in Control : Holding(d)' = Holding(d)
    BY <1>23 DEF Shape, Holding, ClientLeaves, vars, relayVars, roomVars, controlVars,
      clientVars, dataVars, netVars, boardVars, agentVars
  <2>2. active' = active /\ plan' = plan
    BY <1>23 DEF ClientLeaves, vars, relayVars, roomVars, controlVars, clientVars, dataVars,
      netVars, boardVars, agentVars
  <2> QED
    BY <2>1, <2>2 DEF Placed, AgentOf
<1>24. ASSUME NEW s \in Client, EndSession(s), UNCHANGED agentVars PROVE Placed'
  <2>1. \A d \in Control : Holding(d)' = Holding(d)
    BY <1>24 DEF Shape, Holding, EndSession, NotifyDashboards, vars, relayVars, roomVars,
      controlVars, clientVars, dataVars, netVars, boardVars, agentVars
  <2>2. active' = active /\ plan' = plan
    BY <1>24 DEF EndSession, vars, relayVars, roomVars, controlVars, clientVars, dataVars,
      netVars, boardVars, agentVars
  <2> QED
    BY <2>1, <2>2 DEF Placed, AgentOf
<1>25. ASSUME TakeSnapshot, UNCHANGED agentVars PROVE Placed'
  <2>1. \A d \in Control : Holding(d)' = Holding(d)
    BY <1>25 DEF Shape, Holding, TakeSnapshot, vars, relayVars, roomVars, controlVars,
      clientVars, dataVars, netVars, boardVars, agentVars
  <2>2. active' = active /\ plan' = plan
    BY <1>25 DEF TakeSnapshot, vars, relayVars, roomVars, controlVars, clientVars, dataVars,
      netVars, boardVars, agentVars
  <2> QED
    BY <2>1, <2>2 DEF Placed, AgentOf
<1>26. ASSUME WriteSnapshot, UNCHANGED agentVars PROVE Placed'
  <2>1. \A d \in Control : Holding(d)' = Holding(d)
    BY <1>26 DEF Shape, Holding, WriteSnapshot, vars, relayVars, roomVars, controlVars,
      clientVars, dataVars, netVars, boardVars, agentVars
  <2>2. active' = active /\ plan' = plan
    BY <1>26 DEF WriteSnapshot, vars, relayVars, roomVars, controlVars, clientVars, dataVars,
      netVars, boardVars, agentVars
  <2> QED
    BY <2>1, <2>2 DEF Placed, AgentOf
<1>27. ASSUME NEW a \in Agent, DialControl(a) PROVE Placed'
  <2>1. \A d \in Control : Holding(d)' = Holding(d)
    BY <1>27 DEF Shape, Holding, DialControl, vars, relayVars, roomVars, controlVars, clientVars,
      dataVars, netVars, boardVars, agentVars
  <2>2. active' = active /\ plan' = plan
    BY <1>27 DEF DialControl, vars, relayVars, roomVars, controlVars, clientVars, dataVars,
      netVars, boardVars, agentVars
  <2> QED
    BY <2>1, <2>2 DEF Placed, AgentOf
<1>28. ASSUME NEW a \in Agent, LoseLink(a) PROVE Placed'
  <2>1. \A d \in Control : Holding(d)' = Holding(d)
    BY <1>28 DEF Shape, Holding, LoseLink, vars, relayVars, roomVars, controlVars, clientVars,
      dataVars, netVars, boardVars, agentVars
  <2>2. active' = active /\ plan' = plan
    BY <1>28 DEF LoseLink, vars, relayVars, roomVars, controlVars, clientVars, dataVars, netVars,
      boardVars, agentVars
  <2> QED
    BY <2>1, <2>2 DEF Placed, AgentOf
<1>29. ASSUME NEW a \in Agent, ReadOffer(a) PROVE Placed'
  <2>1. \A d \in Control : Holding(d)' = Holding(d)
    BY <1>29 DEF Shape, Holding, ReadOffer, ToRelay, vars, relayVars, roomVars, controlVars,
      clientVars, dataVars, netVars, boardVars, agentVars
  <2>2. active' = active /\ plan' = plan
    BY <1>29 DEF ReadOffer, vars, relayVars, roomVars, controlVars, clientVars, dataVars,
      netVars, boardVars, agentVars
  <2> QED
    BY <2>1, <2>2 DEF Placed, AgentOf
<1>30. ASSUME NEW s \in Client, DialLocal(s) PROVE Placed'
  <2>1. \A d \in Control : Holding(d)' = Holding(d)
    BY <1>30 DEF Shape, Holding, DialLocal, ToRelay, Ended, vars, relayVars, roomVars,
      controlVars, clientVars, dataVars, netVars, boardVars, agentVars
  <2>2. active' = active /\ plan' = plan
    BY <1>30 DEF DialLocal, vars, relayVars, roomVars, controlVars, clientVars, dataVars,
      netVars, boardVars, agentVars
  <2> QED
    BY <2>1, <2>2 DEF Placed, AgentOf
<1>31. ASSUME NEW s \in Client, DialData(s) PROVE Placed'
  <2>1. \A d \in Control : Holding(d)' = Holding(d)
    BY <1>31 DEF Shape, Holding, DialData, Ended, AgentOf, vars, relayVars, roomVars,
      controlVars, clientVars, dataVars, netVars, boardVars, agentVars
  <2>2. active' = active /\ plan' = plan
    BY <1>31 DEF DialData, vars, relayVars, roomVars, controlVars, clientVars, dataVars, netVars,
      boardVars, agentVars
  <2> QED
    BY <2>1, <2>2 DEF Placed, AgentOf
<1>32. ASSUME NEW s \in Client, AwaitReady(s) PROVE Placed'
  <2>1. \A d \in Control : Holding(d)' = Holding(d)
    BY <1>32 DEF Shape, Holding, AwaitReady, vars, relayVars, roomVars, controlVars, clientVars,
      dataVars, netVars, boardVars, agentVars
  <2>2. active' = active /\ plan' = plan
    BY <1>32 DEF AwaitReady, vars, relayVars, roomVars, controlVars, clientVars, dataVars,
      netVars, boardVars, agentVars
  <2> QED
    BY <2>1, <2>2 DEF Placed, AgentOf
<1>33. ASSUME NEW s \in Client, SessionDeadline(s) PROVE Placed'
  <2>1. \A d \in Control : Holding(d)' = Holding(d)
    BY <1>33 DEF Shape, Holding, SessionDeadline, Ended, vars, relayVars, roomVars, controlVars,
      clientVars, dataVars, netVars, boardVars, agentVars
  <2>2. active' = active /\ plan' = plan
    BY <1>33 DEF SessionDeadline, vars, relayVars, roomVars, controlVars, clientVars, dataVars,
      netVars, boardVars, agentVars
  <2> QED
    BY <2>1, <2>2 DEF Placed, AgentOf
<1>34. ASSUME NEW s \in Client, Expire(s) PROVE Placed'
  <2>1. \A d \in Control : Holding(d)' = Holding(d)
    BY <1>34 DEF Shape, Holding, Expire, vars, relayVars, roomVars, controlVars, clientVars,
      dataVars, netVars, boardVars, agentVars
  <2>2. active' = active /\ plan' = plan
    BY <1>34 DEF Expire, vars, relayVars, roomVars, controlVars, clientVars, dataVars, netVars,
      boardVars, agentVars
  <2> QED
    BY <2>1, <2>2 DEF Placed, AgentOf
<1>35. ASSUME NEW s \in Client, CloseSession(s) PROVE Placed'
  <2>1. \A d \in Control : Holding(d)' = Holding(d)
    BY <1>35 DEF Shape, Holding, CloseSession, ToRelay, Ended, vars, relayVars, roomVars,
      controlVars, clientVars, dataVars, netVars, boardVars, agentVars
  <2>2. active' = active /\ plan' = plan
    BY <1>35 DEF CloseSession, vars, relayVars, roomVars, controlVars, clientVars, dataVars,
      netVars, boardVars, agentVars
  <2> QED
    BY <2>1, <2>2 DEF Placed, AgentOf
<1>36. CASE UNCHANGED vars
  BY <1>36 DEF Placed, Holding, AgentOf, vars, relayVars, roomVars, controlVars, clientVars,
    dataVars, netVars, boardVars, agentVars
<1> QED
  BY <1>1, <1>2, <1>3, <1>4, <1>5, <1>6, <1>7, <1>8, <1>9, <1>10, <1>11, <1>12, <1>13, <1>14,
    <1>15, <1>16, <1>17, <1>18, <1>19, <1>20, <1>21, <1>22, <1>23, <1>24, <1>25, <1>26, <1>27,
    <1>28, <1>29, <1>30, <1>31, <1>32, <1>33, <1>34, <1>35, <1>36 DEF Next, RelayNext, RelayStep,
    ControlStep, ClientStep, DataStep, AgentStep, SessionStep

\* An offer that fits joins those under way; or none does.
LEMMA OfferJoins ==
    ASSUME Shape, OffersFit, NEW c \in Control, NEW m, ToAgent(c, m), owner' = owner,
           m[1] # "ready" => owner[m[2]] = c
    PROVE  OffersFit'
<1>1. CASE toAgent' = toAgent
  BY <1>1 DEF OffersFit
<1>2. CASE toAgent' = [toAgent EXCEPT ![c] = Append(@, m)]
  <2>1. \A d \in Control \ {c} : toAgent'[d] = toAgent[d]
    BY <1>2 DEF Shape
  <2>2. toAgent[c] \in Seq(Offers) /\ toAgent'[c] = Append(toAgent[c], m)
    BY <1>2 DEF Shape
  <2>3. \A i \in 1..Len(toAgent'[c]) : toAgent'[c][i] = m \/ (i \in 1..Len(toAgent[c]) /\ toAgent'[c][i] = toAgent[c][i])
    BY <2>2
  <2> QED
    BY <2>1, <2>3 DEF OffersFit
<1> QED
  BY <1>1, <1>2 DEF ToAgent

LEMMA OffersStay ==
    ASSUME OffersFit, toAgent' = toAgent, owner' = owner
    PROVE  OffersFit'
BY DEF OffersFit

\* What an offer, a session and a data socket say of each other stays true.
LEMMA AgreedStep == Shape /\ Owned /\ Agreed /\ [Next]_vars => Agreed'
<1> SUFFICES ASSUME Shape, Owned, Agreed, [Next]_vars PROVE Agreed'
  OBVIOUS
<1>1. ASSUME NEW c \in Control, Authorize(c), UNCHANGED agentVars PROVE Agreed'
  <2>1. OffersFit'
    BY <1>1, OffersStay DEF Agreed, Authorize, vars, relayVars, roomVars, controlVars,
      clientVars, dataVars, netVars, boardVars, agentVars
  <2>2. SessionsFit'
    BY <1>1, NamesAssumption DEF Shape, Owned, Early, Agreed, SessionsFit, SameProof, Authorize,
      AgentProof, AgentOf, vars, relayVars, roomVars, controlVars, clientVars, dataVars, netVars,
      boardVars, agentVars
  <2> QED
    BY <2>1, <2>2 DEF Agreed
<1>2. ASSUME NEW c \in Control, Register(c), UNCHANGED agentVars PROVE Agreed'
  <2>1. OffersFit'
    BY <1>2, OffersStay DEF Agreed, Register, vars, relayVars, roomVars, controlVars, clientVars,
      dataVars, netVars, boardVars, agentVars
  <2>2. SessionsFit'
    BY <1>2, NamesAssumption DEF Shape, Owned, Early, Agreed, SessionsFit, SameProof, Register,
      AgentOf, vars, relayVars, roomVars, controlVars, clientVars, dataVars, netVars, boardVars,
      agentVars
  <2> QED
    BY <2>1, <2>2 DEF Agreed
<1>3. ASSUME NEW c \in Control, ControlConnected(c), UNCHANGED agentVars PROVE Agreed'
  <2>1. OffersFit'
    BY <1>3, OffersStay DEF Agreed, ControlConnected, vars, relayVars, roomVars, controlVars,
      clientVars, dataVars, netVars, boardVars, agentVars
  <2>2. SessionsFit'
    BY <1>3, NamesAssumption DEF Shape, Owned, Early, Agreed, SessionsFit, SameProof,
      ControlConnected, AgentOf, vars, relayVars, roomVars, controlVars, clientVars, dataVars,
      netVars, boardVars, agentVars
  <2> QED
    BY <2>1, <2>2 DEF Agreed
<1>4. ASSUME NEW c \in Control, Greet(c), UNCHANGED agentVars PROVE Agreed'
  <2>1. owner' = owner /\ toAgent' = toAgent => OffersFit'
    BY OffersStay DEF Agreed
  <2>2. ToAgent(c, <<"ready">>) /\ owner' = owner => OffersFit'
    BY OfferJoins DEF Agreed
  <2>3. SessionsFit'
    BY <1>4 DEF Agreed, SessionsFit, SameProof, AgentOf, Greet, clientVars, dataVars, agentVars
  <2> QED
    BY <1>4, <2>1, <2>2, <2>3 DEF Agreed, Greet, clientVars
<1>5. ASSUME NEW c \in Control, ReadControl(c), UNCHANGED agentVars PROVE Agreed'
  <2>1. OffersFit'
    BY <1>5, OffersStay DEF Agreed, ReadControl, vars, relayVars, roomVars, controlVars,
      clientVars, dataVars, netVars, boardVars, agentVars
  <2>2. SessionsFit'
    BY <1>5, NamesAssumption DEF Shape, Owned, Early, Agreed, SessionsFit, SameProof,
      ReadControl, NotifyDashboards, Answers, AgentOf, vars, relayVars, roomVars, controlVars,
      clientVars, dataVars, netVars, boardVars, agentVars
  <2> QED
    BY <2>1, <2>2 DEF Agreed
<1>6. ASSUME NEW c \in Control, LoseControl(c), UNCHANGED agentVars PROVE Agreed'
  <2>1. OffersFit'
    BY <1>6, OffersStay DEF Agreed, LoseControl, vars, relayVars, roomVars, controlVars,
      clientVars, dataVars, netVars, boardVars, agentVars
  <2>2. SessionsFit'
    BY <1>6, NamesAssumption DEF Shape, Owned, Early, Agreed, SessionsFit, SameProof,
      LoseControl, AgentOf, vars, relayVars, roomVars, controlVars, clientVars, dataVars,
      netVars, boardVars, agentVars
  <2> QED
    BY <2>1, <2>2 DEF Agreed
<1>7. ASSUME NEW c \in Control, Unregister(c), UNCHANGED agentVars PROVE Agreed'
  <2>1. OffersFit'
    BY <1>7, OffersStay DEF Agreed, Unregister, vars, relayVars, roomVars, controlVars,
      clientVars, dataVars, netVars, boardVars, agentVars
  <2>2. SessionsFit'
    BY <1>7, NamesAssumption DEF Shape, Owned, Early, Agreed, SessionsFit, SameProof, Unregister,
      AgentOf, Answers, vars, relayVars, roomVars, controlVars, clientVars, dataVars, netVars,
      boardVars, agentVars
  <2> QED
    BY <2>1, <2>2 DEF Agreed
<1>8. ASSUME NEW c \in Control, ControlDisconnected(c), UNCHANGED agentVars PROVE Agreed'
  <2>1. OffersFit'
    BY <1>8, OffersStay DEF Agreed, ControlDisconnected, vars, relayVars, roomVars, controlVars,
      clientVars, dataVars, netVars, boardVars, agentVars
  <2>2. SessionsFit'
    BY <1>8, NamesAssumption DEF Shape, Owned, Early, Agreed, SessionsFit, SameProof,
      ControlDisconnected, NotifyDashboards, AgentOf, vars, relayVars, roomVars, controlVars,
      clientVars, dataVars, netVars, boardVars, agentVars
  <2> QED
    BY <2>1, <2>2 DEF Agreed
<1>9. ASSUME NEW c \in Control, Cut(c), UNCHANGED agentVars PROVE Agreed'
  <2>1. OffersFit'
    BY <1>9 DEF Shape, Agreed, OffersFit, Cut, vars, relayVars, roomVars, controlVars,
      clientVars, dataVars, netVars, boardVars, agentVars
  <2>2. SessionsFit'
    BY <1>9, NamesAssumption DEF Shape, Owned, Early, Agreed, SessionsFit, SameProof, Cut,
      AgentOf, vars, relayVars, roomVars, controlVars, clientVars, dataVars, netVars, boardVars,
      agentVars
  <2> QED
    BY <2>1, <2>2 DEF Agreed
<1>10. ASSUME NEW s \in Client, AuthorizeClient(s), UNCHANGED agentVars PROVE Agreed'
  <2>1. OffersFit'
    BY <1>10, OffersStay DEF Agreed, AuthorizeClient, vars, relayVars, roomVars, controlVars,
      clientVars, dataVars, netVars, boardVars, agentVars
  <2>2. SessionsFit'
    BY <1>10, NamesAssumption DEF Shape, Owned, Early, Agreed, SessionsFit, SameProof,
      AuthorizeClient, Reject, AgentOf, vars, relayVars, roomVars, controlVars, clientVars,
      dataVars, netVars, boardVars, agentVars
  <2> QED
    BY <2>1, <2>2 DEF Agreed
<1>11. ASSUME NEW s \in Client, SelectControl(s), UNCHANGED agentVars PROVE Agreed'
  <2>1. CASE owner' = owner /\ client' = [client EXCEPT ![s] = "leaving"]
    BY <1>11, <2>1 DEF Shape, Agreed, OffersFit, SessionsFit, SameProof, AgentOf, SelectControl, Reject,
      dataVars, netVars, agentVars
  <2>2. ASSUME NEW c \in Free(s), owner' = [owner EXCEPT ![s] = c], told' = told,
               client' = [client EXCEPT ![s] = "reserved"]
        PROVE  Agreed'
    <3>1. c \in Control /\ c # None /\ plan.service[s] \in plan.services[AgentOf(c)]
      BY <2>2, NamesAssumption DEF Free, Serving
    <3>2. owner[s] = None /\ via[s] = None
      BY <1>11, NamesAssumption DEF SelectControl, Owned, Early, Agreed, SessionsFit
    <3>3. plan' = plan /\ toAgent' = toAgent /\ via' = via /\ data' = data /\ dataAgent' = dataAgent
          /\ session' = session
      BY <1>11 DEF SelectControl, netVars, dataVars, agentVars
    <3>4. OffersFit'
      BY <2>2, <3>2, <3>3, NamesAssumption DEF Agreed, OffersFit, Shape
    <3>5. ASSUME NEW t \in Client, t # s
          PROVE  /\ owner'[t] = owner[t] /\ client'[t] = client[t]
      BY <2>2, <3>5 DEF Shape
    <3>6. owner'[s] = c /\ client'[s] = "reserved" /\ data[s] = "none"
      BY <2>2, <3>2 DEF Shape, Agreed, SessionsFit
    <3>7. SessionsFit'
      BY <2>2, <3>1, <3>2, <3>3, <3>5, <3>6 DEF Agreed, SessionsFit, SameProof, AgentOf
    <3> QED
      BY <3>4, <3>7 DEF Agreed
  <2> QED
    BY <1>11, <2>1, <2>2 DEF SelectControl, Reject
<1>12. ASSUME NEW s \in Client, OpenPending(s), UNCHANGED agentVars PROVE Agreed'
  <2>1. OffersFit'
    BY <1>12, OffersStay DEF Agreed, OpenPending, vars, relayVars, roomVars, controlVars,
      clientVars, dataVars, netVars, boardVars, agentVars
  <2>2. SessionsFit'
    BY <1>12, NamesAssumption DEF Shape, Owned, Early, Agreed, SessionsFit, SameProof,
      OpenPending, Reject, AgentOf, vars, relayVars, roomVars, controlVars, clientVars, dataVars,
      netVars, boardVars, agentVars
  <2> QED
    BY <2>1, <2>2 DEF Agreed
<1>13. ASSUME NEW s \in Client, SendOffer(s), UNCHANGED agentVars PROVE Agreed'
  <2>1. owner[s] \in Control
    BY <1>13 DEF SendOffer, Shape, Owned, Early
  <2>2. owner' = owner /\ toAgent' = toAgent => OffersFit'
    BY OffersStay DEF Agreed
  <2>3. ToAgent(owner[s], <<"offer", s>>) /\ owner' = owner => OffersFit'
    BY <2>1, OfferJoins DEF Agreed
  <2>4. SessionsFit'
    BY <1>13 DEF Shape, Agreed, SessionsFit, SameProof, AgentOf, SendOffer, Reject, dataVars, agentVars
  <2> QED
    BY <1>13, <2>2, <2>3, <2>4 DEF Agreed, SendOffer
<1>14. ASSUME NEW s \in Client, TakeResponse(s), UNCHANGED agentVars PROVE Agreed'
  <2>1. OffersFit'
    BY <1>14, OffersStay DEF Agreed, TakeResponse, vars, relayVars, roomVars, controlVars,
      clientVars, dataVars, netVars, boardVars, agentVars
  <2>2. SessionsFit'
    BY <1>14, NamesAssumption DEF Shape, Owned, Early, Agreed, SessionsFit, SameProof,
      TakeResponse, Reject, AgentOf, vars, relayVars, roomVars, controlVars, clientVars,
      dataVars, netVars, boardVars, agentVars
  <2> QED
    BY <2>1, <2>2 DEF Agreed
<1>15. ASSUME NEW s \in Client, OfferTimeout(s), UNCHANGED agentVars PROVE Agreed'
  <2>1. OffersFit'
    BY <1>15, OffersStay DEF Agreed, OfferTimeout, vars, relayVars, roomVars, controlVars,
      clientVars, dataVars, netVars, boardVars, agentVars
  <2>2. SessionsFit'
    BY <1>15, NamesAssumption DEF Shape, Owned, Early, Agreed, SessionsFit, SameProof,
      OfferTimeout, Reject, AgentOf, vars, relayVars, roomVars, controlVars, clientVars,
      dataVars, netVars, boardVars, agentVars
  <2> QED
    BY <2>1, <2>2 DEF Agreed
<1>16. ASSUME NEW s \in Client, TakeData(s), UNCHANGED agentVars PROVE Agreed'
  <2>1. OffersFit'
    BY <1>16, OffersStay DEF Agreed, TakeData, vars, relayVars, roomVars, controlVars,
      clientVars, dataVars, netVars, boardVars, agentVars
  <2>2. SessionsFit'
    BY <1>16, NamesAssumption DEF Shape, Owned, Early, Agreed, SessionsFit, SameProof, TakeData,
      NotifyDashboards, AgentOf, vars, relayVars, roomVars, controlVars, clientVars, dataVars,
      netVars, boardVars, agentVars
  <2> QED
    BY <2>1, <2>2 DEF Agreed
<1>17. ASSUME NEW s \in Client, StartSession(s), UNCHANGED agentVars PROVE Agreed'
  <2>1. OffersFit'
    BY <1>17, OffersStay DEF Agreed, StartSession, vars, relayVars, roomVars, controlVars,
      clientVars, dataVars, netVars, boardVars, agentVars
  <2>2. SessionsFit'
    BY <1>17, NamesAssumption DEF Shape, Owned, Early, Agreed, SessionsFit, SameProof,
      StartSession, NotifyDashboards, AgentOf, vars, relayVars, roomVars, controlVars,
      clientVars, dataVars, netVars, boardVars, agentVars
  <2> QED
    BY <2>1, <2>2 DEF Agreed
<1>18. ASSUME NEW s \in Client, Leave(s), UNCHANGED agentVars PROVE Agreed'
  <2>1. OffersFit'
    BY <1>18, OffersStay DEF Agreed, Leave, vars, relayVars, roomVars, controlVars, clientVars,
      dataVars, netVars, boardVars, agentVars
  <2>2. SessionsFit'
    BY <1>18, NamesAssumption DEF Shape, Owned, Early, Agreed, SessionsFit, SameProof, Leave,
      NotifyDashboards, Released, AgentOf, vars, relayVars, roomVars, controlVars, clientVars,
      dataVars, netVars, boardVars, agentVars
  <2> QED
    BY <2>1, <2>2 DEF Agreed
<1>19. ASSUME NEW s \in Client, CheckData(s), UNCHANGED agentVars PROVE Agreed'
  <2>1. OffersFit'
    BY <1>19, OffersStay DEF Agreed, CheckData, clientVars, netVars
  <2>2. data'[s] \in {"checked", "over"} /\ (data'[s] = "checked" => SameProof(s)) /\ data[s] # "none"
    BY <1>19 DEF Shape, CheckData, DataChecked
  <2>3. \A t \in Client \ {s} : data'[t] = data[t]
    BY <1>19 DEF Shape, CheckData
  <2>4. SessionsFit'
    BY <1>19, <2>2, <2>3 DEF Agreed, SessionsFit, SameProof, AgentOf, CheckData, clientVars, agentVars
  <2> QED
    BY <2>1, <2>4 DEF Agreed
<1>20. ASSUME NEW s \in Client, HandOver(s), UNCHANGED agentVars PROVE Agreed'
  <2>1. OffersFit'
    BY <1>20, OffersStay DEF Agreed, HandOver, vars, relayVars, roomVars, controlVars,
      clientVars, dataVars, netVars, boardVars, agentVars
  <2>2. SessionsFit'
    BY <1>20, NamesAssumption DEF Shape, Owned, Early, Agreed, SessionsFit, SameProof, HandOver,
      AgentOf, vars, relayVars, roomVars, controlVars, clientVars, dataVars, netVars, boardVars,
      agentVars
  <2> QED
    BY <2>1, <2>2 DEF Agreed
<1>21. ASSUME NEW s \in Client, Arrive(s), UNCHANGED agentVars PROVE Agreed'
  <2>1. OffersFit'
    BY <1>21, OffersStay DEF Agreed, Arrive, vars, relayVars, roomVars, controlVars, clientVars,
      dataVars, netVars, boardVars, agentVars
  <2>2. SessionsFit'
    BY <1>21, NamesAssumption DEF Shape, Owned, Early, Agreed, SessionsFit, SameProof, Arrive,
      AgentOf, vars, relayVars, roomVars, controlVars, clientVars, dataVars, netVars, boardVars,
      agentVars
  <2> QED
    BY <2>1, <2>2 DEF Agreed
<1>22. ASSUME NEW s \in Client, GiveUp(s), UNCHANGED agentVars PROVE Agreed'
  <2>1. OffersFit'
    BY <1>22, OffersStay DEF Agreed, GiveUp, vars, relayVars, roomVars, controlVars, clientVars,
      dataVars, netVars, boardVars, agentVars
  <2>2. SessionsFit'
    BY <1>22, NamesAssumption DEF Shape, Owned, Early, Agreed, SessionsFit, SameProof, GiveUp,
      AgentOf, vars, relayVars, roomVars, controlVars, clientVars, dataVars, netVars, boardVars,
      agentVars
  <2> QED
    BY <2>1, <2>2 DEF Agreed
<1>23. ASSUME NEW s \in Client, ClientLeaves(s), UNCHANGED agentVars PROVE Agreed'
  <2>1. OffersFit'
    BY <1>23, OffersStay DEF Agreed, ClientLeaves, vars, relayVars, roomVars, controlVars,
      clientVars, dataVars, netVars, boardVars, agentVars
  <2>2. SessionsFit'
    BY <1>23, NamesAssumption DEF Shape, Owned, Early, Agreed, SessionsFit, SameProof,
      ClientLeaves, AgentOf, vars, relayVars, roomVars, controlVars, clientVars, dataVars,
      netVars, boardVars, agentVars
  <2> QED
    BY <2>1, <2>2 DEF Agreed
<1>24. ASSUME NEW s \in Client, EndSession(s), UNCHANGED agentVars PROVE Agreed'
  <2>1. OffersFit'
    BY <1>24, OffersStay DEF Agreed, EndSession, vars, relayVars, roomVars, controlVars,
      clientVars, dataVars, netVars, boardVars, agentVars
  <2>2. SessionsFit'
    BY <1>24, NamesAssumption DEF Shape, Owned, Early, Agreed, SessionsFit, SameProof,
      EndSession, NotifyDashboards, AgentOf, vars, relayVars, roomVars, controlVars, clientVars,
      dataVars, netVars, boardVars, agentVars
  <2> QED
    BY <2>1, <2>2 DEF Agreed
<1>25. ASSUME TakeSnapshot, UNCHANGED agentVars PROVE Agreed'
  <2>1. OffersFit'
    BY <1>25, OffersStay DEF Agreed, TakeSnapshot, vars, relayVars, roomVars, controlVars,
      clientVars, dataVars, netVars, boardVars, agentVars
  <2>2. SessionsFit'
    BY <1>25, NamesAssumption DEF Shape, Owned, Early, Agreed, SessionsFit, SameProof,
      TakeSnapshot, AgentOf, vars, relayVars, roomVars, controlVars, clientVars, dataVars,
      netVars, boardVars, agentVars
  <2> QED
    BY <2>1, <2>2 DEF Agreed
<1>26. ASSUME WriteSnapshot, UNCHANGED agentVars PROVE Agreed'
  <2>1. OffersFit'
    BY <1>26, OffersStay DEF Agreed, WriteSnapshot, vars, relayVars, roomVars, controlVars,
      clientVars, dataVars, netVars, boardVars, agentVars
  <2>2. SessionsFit'
    BY <1>26, NamesAssumption DEF Shape, Owned, Early, Agreed, SessionsFit, SameProof,
      WriteSnapshot, AgentOf, vars, relayVars, roomVars, controlVars, clientVars, dataVars,
      netVars, boardVars, agentVars
  <2> QED
    BY <2>1, <2>2 DEF Agreed
<1>27. ASSUME NEW a \in Agent, DialControl(a) PROVE Agreed'
  <2>1. OffersFit'
    BY <1>27, OffersStay DEF Agreed, DialControl, vars, relayVars, roomVars, controlVars,
      clientVars, dataVars, netVars, boardVars, agentVars
  <2>2. SessionsFit'
    BY <1>27, NamesAssumption DEF Shape, Owned, Early, Agreed, SessionsFit, SameProof,
      DialControl, AgentOf, vars, relayVars, roomVars, controlVars, clientVars, dataVars,
      netVars, boardVars, agentVars
  <2> QED
    BY <2>1, <2>2 DEF Agreed
<1>28. ASSUME NEW a \in Agent, LoseLink(a) PROVE Agreed'
  <2>1. OffersFit'
    BY <1>28, OffersStay DEF Agreed, LoseLink, vars, relayVars, roomVars, controlVars,
      clientVars, dataVars, netVars, boardVars, agentVars
  <2>2. SessionsFit'
    BY <1>28, NamesAssumption DEF Shape, Owned, Early, Agreed, SessionsFit, SameProof, LoseLink,
      AgentOf, vars, relayVars, roomVars, controlVars, clientVars, dataVars, netVars, boardVars,
      agentVars
  <2> QED
    BY <2>1, <2>2 DEF Agreed
<1>29. ASSUME NEW a \in Agent, ReadOffer(a) PROVE Agreed'
  <2> DEFINE c == link[a]
             q == toAgent[c]
             m == Head(q)
  <2>1. c \in Control /\ q \in Seq(Offers) /\ q # <<>>
    BY <1>29 DEF Shape, ReadOffer
  <2>2. m = q[1] /\ 1 \in 1..Len(q) /\ m \in Offers
    BY <2>1
  <2>3. m[1] # "ready" => m[2] \in Client /\ owner[m[2]] = c
    BY <2>1, <2>2, Messages DEF Agreed, OffersFit
  <2>4. toAgent' = [toAgent EXCEPT ![c] = Tail(q)] /\ owner' = owner
    BY <1>29 DEF ReadOffer, clientVars
  <2>5. \A i \in 1..Len(Tail(q)) : Tail(q)[i] = q[i + 1] /\ i + 1 \in 1..Len(q)
    BY <2>1
  <2>6. OffersFit'
    <3>1. \A d \in Control \ {c} : toAgent'[d] = toAgent[d]
      BY <2>4 DEF Shape
    <3>2. toAgent'[c] = Tail(q)
      BY <2>1, <2>4 DEF Shape
    <3>3. \A i \in 1..Len(Tail(q)) : Tail(q)[i][1] # "ready" => owner[Tail(q)[i][2]] = c
      BY <2>1, <2>5 DEF Agreed, OffersFit
    <3>4. ASSUME NEW d \in Control, NEW i \in 1..Len(toAgent'[d]), toAgent'[d][i][1] # "ready"
          PROVE  owner[toAgent'[d][i][2]] = d
      <4>1. CASE d = c
        BY <3>2, <3>3, <3>4, <4>1
      <4>2. CASE d # c
        BY <3>1, <3>4, <4>2 DEF Agreed, OffersFit
      <4> QED
        BY <4>1, <4>2
    <3> QED
      BY <2>4, <3>4 DEF OffersFit
  <2>7. UNCHANGED <<plan, client, told, data, dataAgent>>
    BY <1>29 DEF ReadOffer, clientVars, dataVars
  <2>8. CASE UNCHANGED <<session, via>>
    BY <2>4, <2>6, <2>7, <2>8 DEF Agreed, SessionsFit, SameProof, AgentOf
  <2>9. CASE /\ m[1] # "ready" /\ session' = [session EXCEPT ![m[2]] = "dialing"]
             /\ via' = [via EXCEPT ![m[2]] = c]
    <3>1. \A t \in Client : /\ via'[t] # None => via'[t] = owner[t]
                            /\ via[t] # None => via'[t] = via[t]
                            /\ session[t] # "none" => session'[t] # "none"
      BY <2>1, <2>3, <2>9, NamesAssumption DEF Shape, Agreed, SessionsFit
    <3> QED
      BY <2>4, <2>6, <2>7, <3>1 DEF Agreed, SessionsFit, SameProof, AgentOf
  <2> QED
    BY <1>29, <2>8, <2>9 DEF ReadOffer
<1>30. ASSUME NEW s \in Client, DialLocal(s) PROVE Agreed'
  <2>1. OffersFit'
    BY <1>30, OffersStay DEF Agreed, DialLocal, vars, relayVars, roomVars, controlVars,
      clientVars, dataVars, netVars, boardVars, agentVars
  <2>2. SessionsFit'
    BY <1>30, NamesAssumption DEF Shape, Owned, Early, Agreed, SessionsFit, SameProof, DialLocal,
      ToRelay, Ended, AgentOf, vars, relayVars, roomVars, controlVars, clientVars, dataVars,
      netVars, boardVars, agentVars
  <2> QED
    BY <2>1, <2>2 DEF Agreed
<1>31. ASSUME NEW s \in Client, DialData(s) PROVE Agreed'
  <2>1. OffersFit'
    BY <1>31, OffersStay DEF Agreed, DialData, vars, relayVars, roomVars, controlVars,
      clientVars, dataVars, netVars, boardVars, agentVars
  <2>2. SessionsFit'
    BY <1>31, NamesAssumption DEF Shape, Owned, Early, Agreed, SessionsFit, SameProof, DialData,
      Ended, AgentOf, vars, relayVars, roomVars, controlVars, clientVars, dataVars, netVars,
      boardVars, agentVars
  <2> QED
    BY <2>1, <2>2 DEF Agreed
<1>32. ASSUME NEW s \in Client, AwaitReady(s) PROVE Agreed'
  <2>1. OffersFit'
    BY <1>32, OffersStay DEF Agreed, AwaitReady, vars, relayVars, roomVars, controlVars,
      clientVars, dataVars, netVars, boardVars, agentVars
  <2>2. SessionsFit'
    BY <1>32, NamesAssumption DEF Shape, Owned, Early, Agreed, SessionsFit, SameProof,
      AwaitReady, AgentOf, vars, relayVars, roomVars, controlVars, clientVars, dataVars, netVars,
      boardVars, agentVars
  <2> QED
    BY <2>1, <2>2 DEF Agreed
<1>33. ASSUME NEW s \in Client, SessionDeadline(s) PROVE Agreed'
  <2>1. OffersFit'
    BY <1>33, OffersStay DEF Agreed, SessionDeadline, vars, relayVars, roomVars, controlVars,
      clientVars, dataVars, netVars, boardVars, agentVars
  <2>2. SessionsFit'
    BY <1>33, NamesAssumption DEF Shape, Owned, Early, Agreed, SessionsFit, SameProof,
      SessionDeadline, Ended, AgentOf, vars, relayVars, roomVars, controlVars, clientVars,
      dataVars, netVars, boardVars, agentVars
  <2> QED
    BY <2>1, <2>2 DEF Agreed
<1>34. ASSUME NEW s \in Client, Expire(s) PROVE Agreed'
  <2>1. OffersFit'
    BY <1>34, OffersStay DEF Agreed, Expire, vars, relayVars, roomVars, controlVars, clientVars,
      dataVars, netVars, boardVars, agentVars
  <2>2. SessionsFit'
    BY <1>34, NamesAssumption DEF Shape, Owned, Early, Agreed, SessionsFit, SameProof, Expire,
      AgentOf, vars, relayVars, roomVars, controlVars, clientVars, dataVars, netVars, boardVars,
      agentVars
  <2> QED
    BY <2>1, <2>2 DEF Agreed
<1>35. ASSUME NEW s \in Client, CloseSession(s) PROVE Agreed'
  <2>1. OffersFit'
    BY <1>35, OffersStay DEF Agreed, CloseSession, vars, relayVars, roomVars, controlVars,
      clientVars, dataVars, netVars, boardVars, agentVars
  <2>2. SessionsFit'
    BY <1>35, NamesAssumption DEF Shape, Owned, Early, Agreed, SessionsFit, SameProof,
      CloseSession, ToRelay, Ended, AgentOf, vars, relayVars, roomVars, controlVars, clientVars,
      dataVars, netVars, boardVars, agentVars
  <2> QED
    BY <2>1, <2>2 DEF Agreed
<1>36. CASE UNCHANGED vars
  BY <1>36, NamesAssumption DEF Shape, Owned, Early, Agreed, OffersFit, SessionsFit, SameProof,
    AgentOf, vars, relayVars, roomVars, controlVars, clientVars, dataVars, netVars, boardVars,
    agentVars
<1> QED
  BY <1>1, <1>2, <1>3, <1>4, <1>5, <1>6, <1>7, <1>8, <1>9, <1>10, <1>11, <1>12, <1>13, <1>14,
    <1>15, <1>16, <1>17, <1>18, <1>19, <1>20, <1>21, <1>22, <1>23, <1>24, <1>25, <1>26, <1>27,
    <1>28, <1>29, <1>30, <1>31, <1>32, <1>33, <1>34, <1>35, <1>36 DEF Next, RelayNext, RelayStep,
    ControlStep, ClientStep, DataStep, AgentStep, SessionStep

-----------------------------------------------------------------------------
(* The theorems.                                                           *)

Inv == Shape /\ Owned /\ PendingAre /\ Counted /\ Placed /\ Agreed

LEMMA InitInv == Init => Inv
<1> SUFFICES ASSUME Init PROVE Inv
  OBVIOUS
<1>1. Shape /\ Owned
  BY InitShape
<1>2. OnControl = {} /\ Running = {} /\ pending = {} /\ \A c \in Control : Holding(c) = {}
  BY NamesAssumption DEF Init, RelayInit, OnControl, Running, Holding
<1>3. PendingAre
  BY DEF Init, RelayInit, PendingAre, InOffer
<1>4. Counted
  BY <1>2, FS_EmptySet DEF Init, RelayInit, Counted
<1>5. Placed
  <2>1. \A c \in Control : plan.limit[AgentOf(c)] \in Nat
    BY <1>1, PlanTypes DEF AgentOf
  <2>2. active \in [Control -> Nat] /\ \A c \in Control : active[c] = 0
    BY DEF Init, RelayInit
  <2>3. \A c \in Control : Cardinality(Holding(c)) = 0
    BY <1>2, FS_EmptySet
  <2> QED
    BY <2>1, <2>2, <2>3 DEF Placed
<1>6. Agreed
  BY NamesAssumption DEF Init, RelayInit, Agreed, OffersFit, SessionsFit
<1> QED
  BY <1>1, <1>3, <1>4, <1>5, <1>6 DEF Inv

LEMMA AlwaysInv == Spec => []Inv
<1>1. Inv /\ [Next]_vars => Inv'
  BY ShapeStep, OwnedStep, PendingStep, CountedStep, PlacedStep, AgreedStep DEF Inv
<1> QED
  BY InitInv, <1>1, PTL DEF Spec

\* Every variable of relay and agents has its type; the counters of the room never
\* go below zero (ControlDisconnected, cleanupPending, the end of a pair), and no control
\* has more places taken than its agent has announced (selectControl).
THEOREM WorkAgentTypeCorrect == Spec => []TypeOK
<1>1. Inv => TypeOK
  <2> SUFFICES ASSUME Inv PROVE TypeOK
    OBVIOUS
  <2>1. controlCount \in Nat /\ pendingCount \in Nat /\ pairCount \in Nat
    BY FiniteParts, FS_CardinalityType DEF Inv, Counted
  <2>2. ASSUME NEW c \in Control PROVE active[c] \in 0..plan.limit[AgentOf(c)]
    <3>1. plan.limit[AgentOf(c)] \in Nat
      BY PlanTypes DEF Inv, AgentOf
    <3> QED
      BY <3>1 DEF Inv, Placed
  <2> QED
    BY <2>1, <2>2 DEF Inv, Shape, TypeOK
<1> QED
  BY AlwaysInv, <1>1, PTL

\* The places taken on a control are those of the clients that hold one there:
\* whatever replaces a control, runs out or fails, Release gives back each place
\* once and on the control it was taken on.
THEOREM WorkAgentPlacesAreHeld == Spec => []PlacesAreHeld
<1>1. Inv => PlacesAreHeld
  BY DEF Inv, Placed, PlacesAreHeld
<1> QED
  BY AlwaysInv, <1>1, PTL

\* A session that runs connects a client and the agent its offer went to, over
\* the control it went down, with one proof and a service that the agent has,
\* even if the room was reset to another proof in between (ServeAgentSession).
THEOREM WorkAgentPairAgrees == Spec => []PairAgrees
<1>1. Inv => PairAgrees
  <2> SUFFICES ASSUME Inv, NEW s \in Client, client[s] = "running"
               PROVE  /\ dataAgent[s] = AgentOf(owner[s]) /\ via[s] = owner[s]
                      /\ plan.proof[s] = plan.agentProof[dataAgent[s]]
                      /\ plan.service[s] \in plan.services[dataAgent[s]]
                      /\ session[s] # "none" /\ told[s] = "ready"
    BY DEF PairAgrees
  <2>1. via[s] = owner[s] /\ owner[s] # None /\ dataAgent[s] = AgentOf(via[s])
    BY DEF Inv, Agreed, SessionsFit
  <2> QED
    BY <2>1 DEF Inv, Agreed, SessionsFit, SameProof
<1> QED
  BY AlwaysInv, <1>1, PTL
=============================================================================
