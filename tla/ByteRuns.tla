------------------------------ MODULE ByteRuns ------------------------------
(***************************************************************************)
(* Byte strings as the stream modules use them.  A byte is named by its    *)
(* position in the stream it was written to (the first byte is 1), so a    *)
(* buffer that holds what it should is a run of consecutive positions, and *)
(* a lost, repeated or misplaced byte is a break in a run.                 *)
(***************************************************************************)
EXTENDS Integers, Sequences

\* The n bytes that follow the first a bytes of a stream.
Run(a, n) == [i \in 1..n |-> a + i]

\* The first n elements of s, and what is left of s without them.
TakeFirst(s, n) == SubSeq(s, 1, n)
DropFirst(s, n) == SubSeq(s, n + 1, Len(s))
=============================================================================
