---------------------------- MODULE MCEventStream ----------------------------
(***************************************************************************)
(* The event stream of one run under TLC.                                  *)
(***************************************************************************)
EXTENDS EventStream
=============================================================================
