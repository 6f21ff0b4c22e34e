----------------------------- MODULE ByteStream -----------------------------
(***************************************************************************)
(* What NewResumableWebSocketConn promises its two users: "a reliable byte *)
(* stream".  Each side writes bytes and reads the bytes its peer wrote, in *)
(* order, each once.  No transport, acknowledgement or replay is visible.  *)
(* Either side may end; nothing is written by a side that has ended, and   *)
(* its reader may still take what had arrived.                             *)
(***************************************************************************)
EXTENDS ByteRuns

CONSTANTS Sides,      \* the two ends of the session
          Peer        \* Peer[s]: the end opposite to s

VARIABLES written,    \* written[s]: number of bytes s has written
          delivered,  \* delivered[s]: the bytes read at s, in the order read
          ended       \* ended[s]: s has closed or failed

streamVars == <<written, delivered, ended>>

Init ==
    /\ written = [s \in Sides |-> 0]
    /\ delivered = [s \in Sides |-> <<>>]
    /\ ended = [s \in Sides |-> FALSE]

WriteBytes(s) ==
    /\ ~ended[s]
    /\ written'[s] \in Nat /\ written'[s] > written[s]
    /\ written' = [written EXCEPT ![s] = written'[s]]
    /\ UNCHANGED <<delivered, ended>>

\* A reader gets the next bytes of its peer's stream, never past its end.
ReadBytes(s) ==
    /\ \E n \in 1..(written[Peer[s]] - Len(delivered[s])) :
         delivered' = [delivered EXCEPT ![s] = @ \o Run(Len(@), n)]
    /\ UNCHANGED <<written, ended>>

End(s) ==
    /\ ~ended[s]
    /\ ended' = [ended EXCEPT ![s] = TRUE]
    /\ UNCHANGED <<written, delivered>>

Next == \E s \in Sides : WriteBytes(s) \/ ReadBytes(s) \/ End(s)

Spec == Init /\ [][Next]_streamVars
=============================================================================
