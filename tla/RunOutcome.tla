------------------------------ MODULE RunOutcome ------------------------------
(***************************************************************************)
(* What a run promises to whoever asked for it.  Its outcome is decided    *)
(* once, by the receipt, and what is announced is the decided outcome; or  *)
(* the run is announced as interrupted before anything was decided, and    *)
(* then no receipt ever says otherwise.  Crashes, retries and              *)
(* reconciliation are invisible at this level.                             *)
(***************************************************************************)
CONSTANTS
    Outcomes,     \* the terminal statuses
    Interruption, \* the one that may be announced without a receipt
    Undecided     \* no outcome yet

VARIABLES
    decided,      \* the outcome the sealed receipt records
    announced,    \* the outcome the API reports as terminal
    doubted       \* an announcement was reported as failed to the one who made it

outcomeVars == <<decided, announced, doubted>>

OutcomeTypeOK ==
    /\ decided \in Outcomes \cup {Undecided}
    /\ announced \in Outcomes \cup {Undecided}
    /\ doubted \in BOOLEAN

OutcomeInit == decided = Undecided /\ announced = Undecided /\ doubted = FALSE

Decide(o) ==
    /\ decided = Undecided
    /\ announced # Undecided => o = announced
    /\ decided' = o
    /\ UNCHANGED <<announced, doubted>>

Announce ==
    /\ announced \in {Undecided, decided}
    /\ announced' = IF decided = Undecided THEN Interruption ELSE decided
    /\ doubted' \in {doubted, doubted \/ decided # Undecided}
    /\ UNCHANGED decided

\* Who does not know that its announcement was made may take it back, until it is made again.
Withdraw ==
    /\ doubted /\ decided # Undecided
    /\ announced' = Undecided
    /\ UNCHANGED <<decided, doubted>>

OutcomeNext == (\E o \in Outcomes : Decide(o)) \/ Announce \/ Withdraw

OutcomeSpec == OutcomeInit /\ [][OutcomeNext]_outcomeVars

\* What is announced never contradicts what is decided.
Agreement == announced # Undecided /\ decided # Undecided => announced = decided
=============================================================================
