----------------------------- MODULE LegacyPairing -----------------------------
(***************************************************************************)
(* relay/go/main.go, protocol 1: an agent keeps sockets waiting in its     *)
(* room, and a client is paired with one of them.  The room's list is      *)
(* under the room's lock; whether a socket is closed or paired is in two   *)
(* atomics of its own, which a client's handler tests one after the other  *)
(* while a newer socket of the same slot, or a control connection of       *)
(* protocol 2, cancels the ones that wait.  One room, one agent, one       *)
(* service.  The context of an HTTP stream's handler ends when the stream  *)
(* is closed or swept; that of a WebSocket's does not end with its         *)
(* connection, and a broken one shows when it is written to.               *)
(***************************************************************************)
EXTENDS Naturals, Sequences, FiniteSets, SequencesExt

CONSTANTS Socket, Slot, Caller,
          Nobody,
          Streamed,          \* the sockets and callers that are HTTP streams
          SlotOf,            \* the slot of a socket
          MaxBroken          \* bound: sockets that break
SlotAssumption == SlotOf \in [Socket -> Slot]
NobodyAssumption == Nobody \notin Socket \cup Caller /\ Streamed \subseteq Socket \cup Caller

VARIABLES
    waiting,      \* room.agents
    socket,       \* socket[w]: where ServeAgent stands
    shut, taken,  \* WaitingAgent.closed, with Done, and .paired
    peer,         \* peer[w]: in Paired, or taken out of it
    started,      \* started[w]: HomePeer.Started of that peer
    over,         \* peers with Done closed
    caller,       \* caller[c]: where ServeClient stands
    held,         \* held[c]: the socket it took
    broken,       \* connections that are gone
    controlled    \* a control connection has come

vars == <<waiting, socket, shut, taken, peer, started, over, caller, held, broken, controlled>>

SocketStates == {"new", "waiting", "paired", "told", "bridged", "leaving", "gone"}
CallerStates == {"new", "taking", "took", "tested", "paired", "started", "gone"}

Init ==
    /\ waiting = <<>> /\ socket = [w \in Socket |-> "new"] /\ shut = {} /\ taken = {}
    /\ peer = [w \in Socket |-> Nobody] /\ started = [w \in Socket |-> "unset"] /\ over = {}
    /\ caller = [c \in Caller |-> "new"] /\ held = [c \in Caller |-> Nobody]
    /\ broken = {} /\ controlled = FALSE

IsOpen(w) == w \notin shut /\ w \notin taken
Pruned == SelectSeq(waiting, IsOpen)
Is(w, state) == socket' = [socket EXCEPT ![w] = state]
ContextEnded(x) == x \in Streamed \cap broken
SetStarted(w, value) == started' = [started EXCEPT ![w] = IF @ = "unset" THEN value ELSE @]

-----------------------------------------------------------------------------
(* ServeAgent.                                                             *)

\* A socket takes the place of those of its slot that wait.
EnqueueAgent(w) ==
    /\ socket[w] = "new" /\ Is(w, "waiting")
    /\ LET Same(v) == SlotOf[v] = SlotOf[w]
           Other(v) == ~Same(v) IN
         /\ waiting' = Append(SelectSeq(Pruned, Other), w)
         /\ shut' = shut \cup {Pruned[i] : i \in {j \in 1..Len(Pruned) : Same(Pruned[j])}}
    /\ UNCHANGED <<taken, peer, started, over, caller, held, broken, controlled>>

TakePeer(w) ==
    /\ socket[w] = "waiting" /\ peer[w] # Nobody /\ Is(w, "paired")
    /\ UNCHANGED <<waiting, shut, taken, peer, started, over, caller, held, broken, controlled>>
\* The select takes whichever is ready: a client that waits in Paired may be left there.
Cancelled(w) ==
    /\ socket[w] = "waiting" /\ (w \in shut \/ ContextEnded(w)) /\ Is(w, "leaving")
    /\ UNCHANGED <<waiting, shut, taken, peer, started, over, caller, held, broken, controlled>>

StartAgent(w) ==
    /\ socket[w] = "paired"
    /\ \/ w \notin broken /\ Is(w, "told") /\ UNCHANGED started
       \/ w \in broken /\ Is(w, "leaving") /\ SetStarted(w, "agent unavailable")
    /\ UNCHANGED <<waiting, shut, taken, peer, over, caller, held, broken, controlled>>

StartClient(w) ==
    /\ socket[w] = "told"
    /\ \/ peer[w] \notin broken /\ Is(w, "bridged") /\ SetStarted(w, "started") /\ UNCHANGED over
       \/ /\ peer[w] \in broken /\ Is(w, "leaving") /\ SetStarted(w, "client unavailable")
          /\ over' = over \cup {w}
    /\ UNCHANGED <<waiting, shut, taken, peer, caller, held, broken, controlled>>

\* Bridge ends when a side does.
KeepsPeer(w) == over
EndsPeer(w) == over \cup {w}
EndBridge(w) ==
    /\ socket[w] = "bridged" /\ Is(w, "leaving") /\ over' = EndsPeer(w)
    /\ UNCHANGED <<waiting, shut, taken, peer, started, caller, held, broken, controlled>>

LeaveRoom(w) ==
    /\ socket[w] = "leaving" /\ Is(w, "gone")
    /\ shut' = shut \cup {w}
    /\ waiting' = SelectSeq(waiting, LAMBDA v : v # w)
    /\ UNCHANGED <<taken, peer, started, over, caller, held, broken, controlled>>

\* RemoveLegacyAgents, from ServeAgentControl.
RemoveLegacyAgents ==
    /\ ~controlled /\ controlled' = TRUE
    /\ shut' = shut \cup {Pruned[i] : i \in 1..Len(Pruned)} /\ waiting' = <<>>
    /\ UNCHANGED <<socket, taken, peer, started, over, caller, held, broken>>

-----------------------------------------------------------------------------
(* ServeClient.                                                            *)

Now(c, state) == caller' = [caller EXCEPT ![c] = state]

ServeClient(c) ==
    /\ caller[c] = "new" /\ Now(c, "taking")
    /\ UNCHANGED <<waiting, socket, shut, taken, peer, started, over, held, broken, controlled>>

TryTakeAgent(c) ==
    /\ caller[c] = "taking"
    /\ IF Pruned = <<>> THEN Now(c, "gone") /\ waiting' = Pruned /\ UNCHANGED held
       ELSE Now(c, "took") /\ waiting' = Tail(Pruned) /\ held' = [held EXCEPT ![c] = Head(Pruned)]
    /\ UNCHANGED <<socket, shut, taken, peer, started, over, broken, controlled>>

\* TryPair: the two atomics.
TestClosed(c) ==
    /\ caller[c] = "took" /\ Now(c, IF held[c] \in shut THEN "taking" ELSE "tested")
    /\ UNCHANGED <<waiting, socket, shut, taken, peer, started, over, held, broken, controlled>>
SwapPaired(c) ==
    /\ caller[c] = "tested"
    /\ IF held[c] \in taken THEN Now(c, "taking") /\ UNCHANGED <<taken, peer>>
       ELSE /\ Now(c, "paired") /\ taken' = taken \cup {held[c]}
            /\ peer' = [peer EXCEPT ![held[c]] = c]
    /\ UNCHANGED <<waiting, socket, shut, started, over, held, broken, controlled>>

AwaitStarted(c) ==
    /\ caller[c] = "paired"
    /\ started[held[c]] # "unset"
    /\ Now(c, CASE started[held[c]] = "started" -> "started"
                [] started[held[c]] = "client unavailable" -> "gone"
                [] started[held[c]] = "agent unavailable" -> "taking")
    /\ UNCHANGED <<waiting, socket, shut, taken, peer, started, over, held, broken, controlled>>
GiveUp(c) ==
    /\ caller[c] = "paired" /\ ContextEnded(c) /\ Now(c, "gone") /\ over' = over \cup {held[c]}
    /\ UNCHANGED <<waiting, socket, shut, taken, peer, started, held, broken, controlled>>
AwaitDone(c) ==
    /\ caller[c] = "started" /\ held[c] \in over /\ Now(c, "gone")
    /\ UNCHANGED <<waiting, socket, shut, taken, peer, started, over, held, broken, controlled>>

Breaks(x) ==
    /\ Cardinality(broken) < MaxBroken /\ x \notin broken /\ broken' = broken \cup {x}
    /\ UNCHANGED <<waiting, socket, shut, taken, peer, started, over, caller, held, controlled>>

Handling == \/ \E w \in Socket : \/ TakePeer(w) \/ Cancelled(w) \/ StartAgent(w) \/ StartClient(w)
                                 \/ EndBridge(w) \/ LeaveRoom(w)
            \/ \E c \in Caller : \/ TryTakeAgent(c) \/ TestClosed(c) \/ SwapPaired(c)
                                 \/ AwaitStarted(c) \/ GiveUp(c) \/ AwaitDone(c)
Next == \/ Handling
        \/ \E w \in Socket : EnqueueAgent(w)
        \/ \E c \in Caller : ServeClient(c)
        \/ \E x \in Socket \cup Caller : Breaks(x)
        \/ RemoveLegacyAgents
Spec == Init /\ [][Next]_vars
FairSpec == Spec /\ WF_vars(Handling)

-----------------------------------------------------------------------------
(* Properties.                                                             *)

PairingTypeOK ==
    /\ waiting \in Seq(Socket) /\ IsInjective(waiting)
    /\ socket \in [Socket -> SocketStates] /\ caller \in [Caller -> CallerStates]
    /\ shut \subseteq Socket /\ taken \subseteq Socket /\ over \subseteq Socket
    /\ peer \in [Socket -> Caller \cup {Nobody}] /\ held \in [Caller -> Socket \cup {Nobody}]

\* The handler of an HTTP stream that ended has left without its client: nobody
\* will tell the client anything.
LeftBehind(c) ==
    /\ caller[c] = "paired" /\ ContextEnded(held[c])
    /\ socket[held[c]] = "gone" /\ started[held[c]] = "unset"

\* Every client that calls ends, paired until its bridge closes or turned away:
\* no socket that is replaced, cancelled or broken under it keeps it waiting,
\* save one whose HTTP stream ends between the client's choice of it and its start.
CallerIsServed == \A c \in Caller : caller[c] = "taking" ~> (caller[c] = "gone" \/ LeftBehind(c))
=============================================================================
