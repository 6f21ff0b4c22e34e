---------------------------- MODULE MCRelaySession ----------------------------
(* The module TLC runs for RelaySession.                                   *)
EXTENDS RelaySession
=============================================================================
