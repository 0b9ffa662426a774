----------------------------- MODULE MCAdmission -----------------------------
(***************************************************************************)
(* Admission under TLC: two browsers behind one address, the first of      *)
(* which also replays rehearsals.                                          *)
(***************************************************************************)
EXTENDS Admission

CONSTANTS alice, bob, home

Live(session) == [session |-> session, address |-> home, rehearsal |-> FALSE]
Rehearsal(session) == [session |-> session, address |-> home, rehearsal |-> TRUE]
MCRequests == {Live(alice), Rehearsal(alice), Live(bob)}
=============================================================================
