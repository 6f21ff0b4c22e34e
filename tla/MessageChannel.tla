---------------------------- MODULE MessageChannel ----------------------------
(***************************************************************************)
(* What a MessageConn promises: two queues of messages, one per direction. *)
(* Each end reads the messages the other has written, in order, each once; *)
(* a close is the last message of its queue.  Nothing of how they travel   *)
(* is visible.  When one end has lost its state the promise is void.       *)
(***************************************************************************)
EXTENDS Naturals, Sequences

CONSTANTS Ends,       \* the two ends
          Peer,       \* Peer[e]: the end opposite to e
          Messages,   \* what an end may write
          Closing(_)  \* whether a message is a close

VARIABLES sent,       \* sent[e]: the messages e has written
          got,        \* got[e]: the messages e has read
          over,       \* over[e]: e has ended
          lost        \* an end has lost its state

channelVars == <<sent, got, over, lost>>

Empty ==
    /\ sent = [e \in Ends |-> <<>>]
    /\ got = [e \in Ends |-> <<>>]
    /\ over = [e \in Ends |-> FALSE]

Init == Empty /\ lost = FALSE

\* A message is written, the last of its queue if it is a close; an abort also
\* ends at once.
WriteMessage(e) ==
    /\ Len(sent'[e]) = Len(sent[e]) + 1
    /\ ~lost /\ ~over[e]
    /\ \A i \in 1..Len(sent[e]) : ~Closing(sent[e][i])
    /\ LET m == sent'[e][Len(sent[e]) + 1]
       IN  /\ m \in Messages
           /\ sent' = [sent EXCEPT ![e] = Append(@, m)]
           /\ over' \in {over, [over EXCEPT ![e] = Closing(m)]}
    /\ UNCHANGED <<got, lost>>

ReadMessage(e) ==
    /\ Len(got'[e]) = Len(got[e]) + 1
    /\ Len(got[e]) < Len(sent[Peer[e]])
    /\ got' = [got EXCEPT ![e] = Append(@, sent[Peer[e]][Len(@) + 1])]
    /\ UNCHANGED <<sent, over, lost>>

End(e) ==
    /\ ~over[e] /\ over'[e]
    /\ ~lost
    /\ over' = [over EXCEPT ![e] = TRUE]
    /\ UNCHANGED <<sent, got, lost>>

Lose ==
    /\ ~lost
    /\ lost' = TRUE
    /\ Empty'

Next == Lose \/ \E e \in Ends : WriteMessage(e) \/ ReadMessage(e) \/ End(e)

Spec == Init /\ [][Next]_channelVars
=============================================================================
