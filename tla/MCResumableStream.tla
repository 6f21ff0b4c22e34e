------------------------- MODULE MCResumableStream -------------------------
(* ResumableStream on small instances.                                     *)
EXTENDS ResumableStream
=============================================================================
