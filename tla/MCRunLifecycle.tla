---------------------------- MODULE MCRunLifecycle ----------------------------
(***************************************************************************)
(* One run under TLC; the bounds are given in the .cfg files.              *)
(***************************************************************************)
EXTENDS RunLifecycle

\* MaxSequence never stops a write: the run needs a start, a soft timeout, the terminal event
\* and an interruption, its work, and two more events after each crash or failed start.
ASSUME EnoughNumbers == MaxSequence >= 4 + MaxWork + 2 * (MaxCrashes + MaxFaults)
=============================================================================
