----------------------------- MODULE RunLifecycle -----------------------------
(***************************************************************************)
(* One investigation run, from the moment create_run has returned to the   *)
(* sealed receipt: the guarded task and its soft timer, the finalizer, the *)
(* database row, the ledger, the receipt file and the token reservation;   *)
(* process crashes, start-up reconciliation and reconciliation on request. *)
(*                                                                         *)
(* Runs meet each other only in admission, in the token budget and in      *)
(* shutdown; this module follows one of them.  An await in the code is a   *)
(* boundary between steps here: a cancellation, a storage failure or a     *)
(* crash can strike at each.                                               *)
(***************************************************************************)
EXTENDS RunLedger

CONSTANTS
    MaxWork,      \* bound: events and calls one investigation records
    MaxCancels,   \* bound: cancellations of the task (the route and shutdown)
    MaxFaults,    \* bound: storage operations that fail
    MaxCrashes    \* bound: deaths of the process

ASSUME BoundsAssumption ==
    MaxWork \in Nat /\ MaxCancels \in Nat /\ MaxFaults \in Nat /\ MaxCrashes \in Nat

VARIABLES
    row,          \* the runs row: status, and receipt_sha256 (0 is NULL; receipt_path goes with it)
    receipt,      \* the file receipts_dir/<run_id>.json
    reserved,     \* the run has a row in model_token_reservations
    server,       \* "up", "starting" (lifespan before its yield) or "down"
    pc,           \* where the guarded task, its finalizer or start-up recovery awaits; or "unstarted"
    intent,       \* TerminalState.event_type
    snapshot,     \* _finalize_run's snapshot
    softTimer,    \* the soft timeout's own task
    shield,       \* cancellations the task received while it awaited its finalizer
    reconciling,  \* the snapshot a request's reconciliation is about to commit
    live,         \* not a rehearsal
    seals,        \* history: receipts written so far, which numbers their digests
    doubted,      \* history: a terminal commit raised although it was durable
    work, cancels, faults, crashes   \* the bounded counters

StatusOf(type) == CHOOSE s \in TERMINAL_STATUSES : type \in TerminalEvents(s)

NoReceipt == [status |-> "none", digest |-> 0, intact |-> FALSE]
Receipts == [status: TERMINAL_STATUSES, digest: Nat \ {0}, intact: BOOLEAN]

TaskPoints == {"hydrate", "admit", "start", "work", "failing", "unwind"}
FinalizerPoints == {"list", "terminal", "seal", "commit", "mark", "interrupt", "release"}
StartupPoints == {"recover", "rehydrate", "cleanup"}

counters == <<work, cancels, faults, crashes>>
history == <<seals, doubted>>
durable == <<row, receipt, reserved>>
vars == <<ledgerVars, durable, server, pc, intent, snapshot, softTimer, shield, reconciling, live,
          history, counters>>

RunTypeOK ==
    /\ row \in [status: Statuses, digest: Nat]
    /\ receipt \in Receipts \cup {NoReceipt}
    /\ reserved \in BOOLEAN /\ live \in BOOLEAN /\ doubted \in BOOLEAN
    /\ server \in {"up", "starting", "down"}
    /\ pc \in TaskPoints \cup FinalizerPoints \cup StartupPoints \cup {"unstarted", "done"}
    /\ intent \in TERMINAL_EVENT_TYPES \cup {"none"}
    /\ snapshot \in Receipts \cup {NoReceipt}
    /\ softTimer \in {"off", "sleeping", "appending", "done", "failed"}
    /\ shield \in 0..2
    /\ reconciling \in Receipts \cup {NoReceipt}
    /\ seals \in Nat /\ work \in Nat /\ cancels \in Nat /\ faults \in Nat /\ crashes \in Nat
TypeOK == LedgerTypeOK /\ RunTypeOK

\* create_run has persisted the row, reserved tokens for a live run and entered the task; or it was
\* cancelled when the insert of the row had been committed: the row is there and has no task.
Entered == pc = "hydrate" /\ reserved = live /\ cancels = 0
Orphaned == MaxCancels > 0 /\ pc = "unstarted" /\ ~reserved /\ cancels = 1
Init ==
    /\ LedgerInit
    /\ row = [status |-> "queued", digest |-> 0]
    /\ receipt = NoReceipt /\ snapshot = NoReceipt /\ reconciling = NoReceipt
    /\ pc \in {"hydrate", "unstarted"} /\ live \in BOOLEAN /\ reserved \in BOOLEAN
    /\ server = "up" /\ intent = "none"
    /\ softTimer = "off" /\ shield = 0
    /\ seals = 0 /\ doubted = FALSE /\ work = 0 /\ cancels \in {0, 1} /\ faults = 0 /\ crashes = 0
    /\ Entered \/ Orphaned

(***************************************************************************)
(* Pieces shared by the steps.                                             *)
(***************************************************************************)
Fault == faults < MaxFaults /\ faults' = faults + 1 /\ UNCHANGED <<work, cancels, crashes>>
NoFault == UNCHANGED counters
Writing(w) == writing # NoWrite /\ writing.by = w
\* The insert of w raises or is cancelled, and may be durable all the same: the connection is
\* closed after the commit.
BreakOff(w) == \E made \in BOOLEAN : WriteAbort(w, made)
\* What w was inserting when it was cancelled.
Abandon(w) == IF Writing(w) THEN BreakOff(w) ELSE UNCHANGED ledgerVars
End(type, point) == intent' = type /\ pc' = point
\* An exception inside a live investigation runs its except and finally clauses first.
Failing == IF live THEN "failing" ELSE "unwind"

taskFrame == <<receipt, reserved, server, snapshot, shield, reconciling, live, history>>

(***************************************************************************)
(* _run_guarded, up to its finally clause.                                 *)
(***************************************************************************)
HydrateRun ==
    /\ pc = "hydrate"
    /\ \/ Hydrate /\ pc' = "admit" /\ NoFault /\ UNCHANGED intent
       \/ Fault /\ End("run.failed", "unwind") /\ UNCHANGED ledgerVars
    /\ UNCHANGED <<taskFrame, row, softTimer>>

\* Inside the semaphore: the row becomes RUNNING.
EnterRunning ==
    /\ pc = "admit"
    /\ \/ /\ row' = [row EXCEPT !.status = "running"]
          /\ pc' = "start" /\ NoFault /\ UNCHANGED intent
       \/ /\ Fault /\ End("run.failed", "unwind")
          /\ row' \in {row, [row EXCEPT !.status = "running"]}
    /\ UNCHANGED <<taskFrame, ledgerVars, softTimer>>

AppendStarted ==
    /\ pc = "start"
    /\ AppendBegin("task", "run.started")
    /\ NoFault
    /\ UNCHANGED <<taskFrame, row, pc, intent, softTimer>>

\* A tool, a hook or the pipeline records an event or an OpenAI call; on the way out of a
\* failed investigation the failed tool and the failed model call are recorded as well.
RecordWork ==
    /\ pc \in {"work", "failing"}
    /\ work < MaxWork /\ work' = work + 1
    /\ AppendBegin("task", "work") \/ RecordBegin("task", "work")
    /\ UNCHANGED <<taskFrame, row, pc, intent, softTimer, cancels, faults, crashes>>

TaskWriteEnds ==
    /\ WriteEnd("task")
    /\ pc' = IF pc = "start" THEN "work" ELSE pc
    /\ softTimer' = IF pc = "start" /\ live THEN "sleeping" ELSE softTimer
    /\ NoFault
    /\ UNCHANGED <<taskFrame, row, intent>>

TaskWriteFails ==
    /\ Fault /\ BreakOff("task")
    /\ CASE pc = "start" -> End("run.failed", "unwind")
         [] pc = "work"  -> End("run.failed", Failing)
         [] OTHER        -> UNCHANGED <<pc, intent>>     \* suppressed while already failing
    /\ UNCHANGED <<taskFrame, row, softTimer>>

\* _run_live or _run_rehearsal returns its TerminalState, or raises.
FinishWork ==
    /\ pc = "work" /\ ~Writing("task")
    /\ \/ End("run.completed", "unwind")
       \/ live /\ End("run.incomplete", "unwind")
       \/ End("run.failed", Failing)
    /\ NoFault
    /\ UNCHANGED <<taskFrame, row, ledgerVars, softTimer>>

\* Mutant: the hard timeout ends the run with the event of the soft one.
TimedOutSoftly == "run.soft_timeout"
TimedOut == "run.timeout"

\* asyncio.timeout cancels the live pipeline, whatever it was awaiting.
HardTimeout ==
    /\ live
    /\ \/ pc = "work" /\ intent' = TimedOut
       \/ pc = "failing" /\ intent # "run.cancelled" /\ intent' = TimedOut
       \/ pc = "failing" /\ UNCHANGED intent
    /\ pc' = "failing"
    /\ Abandon("task")
    /\ NoFault
    /\ UNCHANGED <<taskFrame, row, softTimer>>

LeaveInvestigation ==
    /\ pc = "failing" /\ ~Writing("task")
    /\ pc' = "unwind"
    /\ NoFault
    /\ UNCHANGED <<taskFrame, row, ledgerVars, intent, softTimer>>

(***************************************************************************)
(* _soft_timeout, a task of its own on the same ledger.                    *)
(***************************************************************************)
SoftTimeoutFires ==
    /\ softTimer = "sleeping" /\ pc \in {"work", "failing"}
    /\ AppendBegin("soft", "run.soft_timeout")
    /\ softTimer' = "appending"
    /\ NoFault
    /\ UNCHANGED <<taskFrame, row, pc, intent>>

SoftTimeoutWriteEnds ==
    /\ \/ WriteEnd("soft") /\ softTimer' = "done" /\ NoFault
       \/ Fault /\ BreakOff("soft") /\ softTimer' = "failed"
    /\ UNCHANGED <<taskFrame, row, pc, intent>>

(***************************************************************************)
(* The finally clause: the soft timer is cancelled and awaited, suppressing *)
(* only CancelledError; then the finalizer task starts.                    *)
(***************************************************************************)
StopSoftTimer ==
    /\ pc = "unwind"
    /\ IF softTimer = "failed"
         THEN pc' = "done" /\ UNCHANGED softTimer    \* its error leaves the finally clause
         ELSE pc' = "list" /\ softTimer' = IF softTimer = "off" THEN "off" ELSE "done"
    /\ Abandon("soft")
    /\ NoFault
    /\ UNCHANGED <<taskFrame, row, intent>>

(***************************************************************************)
(* _finalize_run, under the task's shield or called by start-up recovery.  *)
(***************************************************************************)
finalizerFrame == <<server, intent, softTimer, shield, reconciling, live>>
AfterRelease == IF server = "starting" THEN "cleanup" ELSE "done"

ListEvents ==
    /\ pc = "list"
    /\ \/ /\ pc' = IF \E i \in DOMAIN events : events[i].type = intent THEN "seal" ELSE "terminal"
          /\ NoFault
       \/ Fault /\ pc' = "mark"
    /\ UNCHANGED <<finalizerFrame, ledgerVars, durable, snapshot, history>>

\* The terminal event, and in the except clause the interruption.
AppendTerminal ==
    /\ \/ pc = "terminal" /\ AppendBegin("finalizer", intent)
       \/ pc = "mark" /\ AppendBegin("finalizer", "run.interrupted")
    /\ NoFault
    /\ UNCHANGED <<finalizerFrame, durable, pc, snapshot, history>>

TerminalWriteEnds ==
    /\ \/ WriteEnd("finalizer") /\ pc' = (IF pc = "terminal" THEN "seal" ELSE "interrupt") /\ NoFault
       \/ /\ Fault /\ BreakOff("finalizer")
          /\ pc' = IF pc = "terminal" THEN "mark" ELSE "interrupt"
    /\ UNCHANGED <<finalizerFrame, durable, snapshot, history>>

\* Mutant: the terminal event is looked for at the head of the ledger.
SealableByFirst ==
    /\ ValidChain(events) /\ ValidCalls(calls)
    /\ events # <<>>
    /\ events[1].type \in TerminalEvents(StatusOf(intent))

\* validate_receipt on the receipt seal is about to write.
Sealable ==
    /\ ValidChain(events) /\ ValidCalls(calls)
    /\ events # <<>>
    /\ events[Len(events)].type \in TerminalEvents(StatusOf(intent))

\* seal, or the existing file: one synchronous step after the ledger has been read.
Seal ==
    /\ pc = "seal"
    /\ \/ /\ receipt = NoReceipt /\ Sealable
          /\ receipt' = [status |-> StatusOf(intent), digest |-> seals + 1, intact |-> TRUE]
          /\ snapshot' = receipt' /\ seals' = seals + 1
          /\ pc' = "commit" /\ NoFault
       \/ /\ receipt # NoReceipt /\ receipt.intact
          /\ snapshot' = receipt
          /\ pc' = "commit" /\ NoFault
          /\ UNCHANGED <<receipt, seals>>
       \/ /\ IF receipt = NoReceipt THEN ~Sealable ELSE ~receipt.intact
          /\ pc' = "mark" /\ NoFault
          /\ UNCHANGED <<receipt, snapshot, seals>>
       \/ Fault /\ pc' = "mark" /\ UNCHANGED <<receipt, snapshot, seals>>
    /\ UNCHANGED <<finalizerFrame, ledgerVars, row, reserved, doubted>>

\* _commit_terminal: status, answer, path and digest in one UPDATE, all from one snapshot.
Committed(sealed) == [status |-> sealed.status, digest |-> sealed.digest]
CommitTerminal ==
    /\ pc = "commit"
    /\ \/ row' = Committed(snapshot) /\ pc' = "release" /\ NoFault /\ UNCHANGED doubted
       \/ /\ Fault /\ pc' = "mark"
          /\ \/ UNCHANGED <<row, doubted>>
             \/ row' = Committed(snapshot) /\ doubted' = TRUE
    /\ UNCHANGED <<finalizerFrame, ledgerVars, receipt, reserved, snapshot, seals>>

\* Mutant: the interruption forgets the receipt that was sealed.
InterruptedForgetful == [status |-> "interrupted", digest |-> 0]
\* The row an interrupted finalization leaves, with the digest of whatever receipt exists.
Interrupted ==
    [status |-> "interrupted",
     digest |-> IF snapshot # NoReceipt THEN snapshot.digest
                ELSE IF receipt.intact THEN receipt.digest ELSE 0]
InterruptRun ==
    /\ pc = "interrupt"
    /\ \/ row' = Interrupted /\ NoFault
       \/ Fault /\ server = "up" /\ row' \in {row, Interrupted}
    /\ pc' = "release"
    /\ UNCHANGED <<finalizerFrame, ledgerVars, receipt, reserved, snapshot, history>>

ReleaseReservation ==
    /\ pc = "release"
    /\ \/ reserved' = FALSE /\ NoFault
       \/ Fault /\ reserved' \in {reserved, FALSE}
    /\ pc' = AfterRelease
    /\ UNCHANGED <<finalizerFrame, ledgerVars, row, receipt, snapshot, history>>

(***************************************************************************)
(* Cancellation by the route or by shutdown, delivered at the await.       *)
(***************************************************************************)
Cancelling ==
    server = "up" /\ cancels < MaxCancels /\ cancels' = cancels + 1 /\ UNCHANGED <<work, faults, crashes>>

CancelTask ==
    /\ Cancelling
    /\ \/ /\ pc \in {"hydrate", "admit", "start", "work"}
          /\ End("run.cancelled", IF pc = "work" THEN Failing ELSE "unwind")
       \/ /\ pc = "failing" /\ UNCHANGED pc          \* may be swallowed by a suppress()
          /\ \/ intent' = "run.cancelled"
             \/ intent # "run.timeout" /\ UNCHANGED intent
    /\ \/ UNCHANGED row
       \/ pc = "admit" /\ row' = [row EXCEPT !.status = "running"]
    /\ Abandon("task")
    /\ UNCHANGED <<taskFrame, softTimer>>

\* The first cancellation during finalization is caught, and the finalizer awaited bare ...
CancelShieldedTask ==
    /\ Cancelling
    /\ pc \in FinalizerPoints /\ shield = 0
    /\ shield' = 1
    /\ UNCHANGED <<ledgerVars, durable, server, pc, intent, snapshot, softTimer, reconciling, live, history>>

\* ... so the next one reaches the finalizer, whose except clause is for Exception only.
CancelFinalizer ==
    /\ Cancelling
    /\ pc \in FinalizerPoints /\ shield > 0
    /\ shield' = 2
    /\ Abandon("finalizer")
    /\ pc' = IF pc = "release" THEN "done" ELSE "release"
    /\ reserved' \in IF pc = "release" THEN {reserved, FALSE} ELSE {reserved}
    /\ \/ UNCHANGED row
       \/ pc = "commit" /\ row' = Committed(snapshot)
       \/ pc = "interrupt" /\ row' = Interrupted
    /\ UNCHANGED <<receipt, server, intent, snapshot, softTimer, reconciling, live, history>>

(***************************************************************************)
(* The process dies and starts again: reconcile_abandoned_runs.            *)
(***************************************************************************)
ProcessDies ==
    /\ \E made \in BOOLEAN : LoseMemory(made)
    /\ server' = "down" /\ pc' = "done" /\ intent' = "none" /\ softTimer' = "off" /\ shield' = 0
    /\ snapshot' = NoReceipt /\ reconciling' = NoReceipt
    /\ UNCHANGED <<receipt, live, history>>

Crash ==
    /\ server # "down"
    /\ crashes < MaxCrashes /\ crashes' = crashes + 1 /\ UNCHANGED <<work, cancels, faults>>
    /\ ProcessDies
    /\ UNCHANGED <<row, reserved>>

\* release_terminal_or_orphan_token_reservations leaves the reservation of a live row.
Kept == row.status \in {"queued", "running"}

\* An error that leaves lifespan before its yield ends the process.
StartupFails ==
    /\ server = "starting" /\ pc \in {"recover", "rehydrate", "interrupt", "cleanup"}
    /\ Fault
    /\ ProcessDies
    /\ IF pc = "interrupt"
         THEN row' \in {row, Interrupted} /\ reserved' = FALSE   \* the finally clause still runs
         ELSE UNCHANGED row /\ reserved' \in {reserved, reserved /\ (pc = "cleanup" => Kept)}

startupFrame == <<reserved, server, snapshot, softTimer, shield, reconciling, live, history>>

\* Mutant: queued runs are not listed as recoverable.
RestartWithoutQueued ==
    /\ server = "down"
    /\ server' = "starting"
    /\ pc' = IF row.status \in {"running", "interrupted"} THEN "recover" ELSE "cleanup"
    /\ NoFault
    /\ UNCHANGED <<ledgerVars, durable, intent, snapshot, softTimer, shield, reconciling, live, history>>

Restart ==
    /\ server = "down"
    /\ server' = "starting"
    /\ pc' = IF row.status \in {"queued", "running", "interrupted"} THEN "recover" ELSE "cleanup"
    /\ NoFault
    /\ UNCHANGED <<ledgerVars, durable, intent, snapshot, softTimer, shield, reconciling, live, history>>

\* Mutant: a row without a digest does not match the receipt.
RecoverableByDigest == receipt.intact /\ row.digest = receipt.digest
\* The checks of _recover_sealed_receipt on the file it has read.
Recoverable == receipt.intact /\ row.digest \in {0, receipt.digest}

RecoverAtStartup ==
    /\ pc = "recover"
    /\ \/ /\ Recoverable                                         \* RECOVERED
          /\ row' = Committed(receipt) /\ pc' = "cleanup" /\ NoFault
          /\ UNCHANGED receipt
       \/ /\ ~Recoverable                                        \* UNRECOVERABLE, unlinked
          /\ receipt' = NoReceipt /\ pc' = "rehydrate" /\ NoFault
          /\ UNCHANGED row
       \/ /\ receipt # NoReceipt /\ Fault /\ pc' = "cleanup"      \* RETRYABLE
          /\ UNCHANGED row \/ (Recoverable /\ row' = Committed(receipt))
          /\ UNCHANGED receipt
    /\ UNCHANGED <<startupFrame, ledgerVars, intent>>

\* Mutants: the new ledger is not hydrated; the run is finalized as failed.
RehydrateNothing ==
    /\ pc = "rehydrate"
    /\ UNCHANGED ledgerVars
    /\ End("run.interrupted", "list")
    /\ NoFault
    /\ UNCHANGED <<startupFrame, row, receipt>>
RehydrateAsFailed ==
    /\ pc = "rehydrate"
    /\ Hydrate
    /\ End("run.failed", "list")
    /\ NoFault
    /\ UNCHANGED <<startupFrame, row, receipt>>

RehydrateAbandoned ==
    /\ pc = "rehydrate"
    /\ Hydrate
    /\ End("run.interrupted", "list")
    /\ NoFault
    /\ UNCHANGED <<startupFrame, row, receipt>>

\* Mutant: start-up keeps the reservations it finds.
FinishStartupKeeping ==
    /\ pc = "cleanup"
    /\ server' = "up" /\ pc' = "done"
    /\ NoFault
    /\ UNCHANGED <<ledgerVars, durable, intent, snapshot, softTimer, shield, reconciling, live, history>>

\* release_terminal_or_orphan_token_reservations, then lifespan yields.
FinishStartup ==
    /\ pc = "cleanup"
    /\ reserved' = (reserved /\ Kept)
    /\ server' = "up" /\ pc' = "done"
    /\ NoFault
    /\ UNCHANGED <<ledgerVars, row, receipt, intent, snapshot, softTimer, shield, reconciling, live, history>>

(***************************************************************************)
(* reconcile_pending_receipt, for GET /api/runs/{id} and for the event     *)
(* stream; its lock admits one at a time.                                  *)
(***************************************************************************)
requestFrame == <<ledgerVars, reserved, server, pc, intent, snapshot, softTimer, shield, live, history>>

ReconcileRead ==
    /\ server = "up" /\ reconciling = NoReceipt
    /\ row.status = "interrupted" /\ row.digest # 0 /\ receipt # NoReceipt
    /\ IF Recoverable THEN reconciling' = receipt /\ UNCHANGED receipt
                      ELSE receipt' = NoReceipt /\ UNCHANGED reconciling
    /\ NoFault
    /\ UNCHANGED <<requestFrame, row>>

ReconcileCommit ==
    /\ reconciling # NoReceipt
    /\ \/ row' = Committed(reconciling) /\ NoFault
       \/ Fault /\ row' \in {row, Committed(reconciling)}
    /\ reconciling' = NoReceipt
    /\ UNCHANGED <<requestFrame, receipt>>

\* The client of an event stream goes away while its reconciliation commits.
ReconcileCancelled ==
    /\ Cancelling
    /\ reconciling # NoReceipt /\ reconciling' = NoReceipt
    /\ row' \in {row, Committed(reconciling)}
    /\ UNCHANGED <<ledgerVars, reserved, server, pc, intent, snapshot, softTimer, shield, live,
                   history, receipt>>

(***************************************************************************)
(* The specification.                                                      *)
(***************************************************************************)
TaskSteps ==
    \/ HydrateRun \/ EnterRunning \/ AppendStarted \/ TaskWriteEnds \/ TaskWriteFails
    \/ FinishWork \/ LeaveInvestigation \/ SoftTimeoutWriteEnds \/ StopSoftTimer
FinalizerSteps ==
    \/ ListEvents \/ AppendTerminal \/ TerminalWriteEnds \/ Seal \/ CommitTerminal
    \/ InterruptRun \/ ReleaseReservation
StartupSteps ==
    Restart \/ RecoverAtStartup \/ RehydrateAbandoned \/ FinishStartup \/ StartupFails
Cancellations == CancelTask \/ CancelShieldedTask \/ CancelFinalizer \/ ReconcileCancelled

Next ==
    \/ TaskSteps \/ RecordWork \/ HardTimeout \/ SoftTimeoutFires
    \/ FinalizerSteps \/ StartupSteps \/ Crash
    \/ Cancellations
    \/ ReconcileRead \/ ReconcileCommit

Spec == Init /\ [][Next]_vars

\* The event loop keeps running what is ready, a supervisor restarts a dead process and a
\* client asks again: nobody has to cancel, and nothing has to fail.
Fairness ==
    /\ WF_vars(TaskSteps) /\ WF_vars(FinalizerSteps) /\ WF_vars(StartupSteps)
    /\ WF_vars(ReconcileRead) /\ WF_vars(ReconcileCommit)
FairSpec == Spec /\ Fairness

\* Something outside the program damages the sealed file: a fault no property here allows for,
\* left to the event stream, which must cope with it.
DamageReceipt ==
    /\ receipt.intact /\ Fault
    /\ receipt' = [receipt EXCEPT !.intact = FALSE]
    /\ UNCHANGED <<ledgerVars, row, reserved, server, pc, intent, snapshot, softTimer, shield,
                   reconciling, live, history>>

(***************************************************************************)
(* Properties.                                                             *)
(***************************************************************************)
\* The row and the receipt agree: a row names no receipt but the one on disk, with its digest
\* and its status (an interrupted row may trail a receipt that decided otherwise, until someone
\* reconciles it), and only an interruption is ever committed without a receipt, never beside
\* a sealed receipt that says otherwise (service.py:737-778, main.py:464-474).
RowAgreesWithReceipt ==
    /\ row.digest # 0 => row.digest = receipt.digest /\ row.status \in {receipt.status, "interrupted"}
    /\ row.status \in TERMINAL_STATUSES /\ row.digest = 0 =>
          row.status = "interrupted" /\ receipt.status \in {"none", "interrupted"}

\* Once written, a receipt is the run's only one: no crash, retry, reconciliation or second
\* finalization replaces or removes it (receipt.py:476, service.py:727, 301-326).
SealedOnce == [][receipt # NoReceipt => receipt' = receipt]_vars

\* When no storage operation failed and nothing cancelled the finalizer itself, a task that has
\* ended leaves a terminal row and no reservation, whatever was cancelled or crashed before.
EndsTerminal ==
    server = "up" /\ pc = "done" /\ faults = 0 /\ shield < 2 =>
        row.status \in TERMINAL_STATUSES /\ ~reserved

\* Storage being healthy, a run ends without a receipt only because an append was abandoned
\* half-way and left its ledger unsealable (receipt.py:342-364, 612-648).
Intact == ValidChain(events) /\ ValidCalls(calls)
ReceiptlessOnlyIfUnsealable ==
    server = "up" /\ pc = "done" /\ faults = 0 /\ shield < 2 /\ row.digest = 0 =>
        aborted /\ ~Intact

\* What the API reports as the run's end: an interruption still waiting for its receipt is not
\* one (main.py:273, 454-474).
Pending == row.status = "interrupted" /\ row.digest # 0 /\ receipt.status # "interrupted"
Announced == IF row.status \in TERMINAL_STATUSES /\ ~Pending THEN row.status ELSE "none"

\* The run keeps the promise of RunOutcome: the seal decides, the first final row announces,
\* and no later finalization, recovery, reconciliation or restart takes either back.
Outcome == INSTANCE RunOutcome WITH
    Outcomes <- TERMINAL_STATUSES, Interruption <- "interrupted", Undecided <- "none",
    decided <- receipt.status, announced <- Announced, doubted <- doubted
ImplementsOutcome == Outcome!OutcomeSpec

\* The run keeps the ledger's one obligation: no object appends to rows it has not read, not
\* after any crash (service.py:409, 364).
ImplementsLedger == LedgerSpec

\* Whatever is cancelled, times out or crashes, the run comes to an end that is announced and
\* stays; unless storage fails, the finalizer itself is cancelled, or the row that a cancelled
\* creation left behind waits for a restart that never comes.
EventuallyFinal ==
    \/ <>[](Announced # "none" /\ server = "up")
    \/ <>(faults > 0 \/ shield = 2)
    \/ [](pc = "unstarted")

(***************************************************************************)
(* The inductive invariant behind RowAgreesWithReceipt, SealedOnce and     *)
(* ImplementsLedger.                                                       *)
(***************************************************************************)
\* Where the run can be while the server is up, starting or down, and what it is ending as.
Placed ==
    /\ server = "down" => pc = "done"
    /\ server = "starting" => pc \in StartupPoints \cup FinalizerPoints
    /\ server = "up" => pc \notin StartupPoints
    /\ pc \in {"failing", "unwind"} \cup FinalizerPoints => intent \in TERMINAL_EVENT_TYPES
    /\ server = "starting" /\ pc \in FinalizerPoints => intent = "run.interrupted"
    /\ Writing("finalizer") => pc \in {"terminal", "mark"}

\* Whoever may append has an object that knows the rows; a task that has not hydrated and a
\* recovery that has not rehydrated have a new object.
Hydrated ==
    /\ pc \in TaskPoints \cup FinalizerPoints => current
    /\ pc = "hydrate" \/ server = "down" \/ pc \in {"recover", "rehydrate"} =>
          writing = NoWrite /\ openaiSequence = 0 /\ (current => events = <<>> /\ calls = {})

\* The finalizer is about to interrupt a run whose terminal commit raised although it was durable.
Doubtful == doubted /\ pc \in {"mark", "interrupt"} /\ snapshot # NoReceipt

\* There is one receipt; a copy of it is a copy of the one on disk; none exists before the
\* finalizer seals, and until the finalizer commits the row is open, or interrupted if the
\* process has died meanwhile.
OneReceipt ==
    /\ receipt # NoReceipt => receipt.intact
    /\ snapshot # NoReceipt => snapshot = receipt
    /\ reconciling # NoReceipt =>
          server = "up" /\ reconciling = receipt /\ row.status \in TERMINAL_STATUSES
    /\ pc = "commit" => snapshot # NoReceipt
    /\ pc \in TaskPoints \cup {"rehydrate", "list", "terminal", "seal"} => receipt = NoReceipt
    /\ server = "up" /\ pc \in TaskPoints \cup (FinalizerPoints \ {"release"}) =>
          \/ row.status \in {"queued", "running"} /\ row.digest = 0
          \/ Doubtful /\ row = Committed(snapshot)
    /\ server = "starting" /\ pc \in {"recover", "rehydrate"} \cup (FinalizerPoints \ {"release"}) =>
          row.status \in {"queued", "running", "interrupted"} \/ Doubtful

LifecycleInv == TypeOK /\ Placed /\ Hydrated /\ OneReceipt /\ RowAgreesWithReceipt

(***************************************************************************)
(* What EndsTerminal and ReceiptlessOnlyIfUnsealable need besides.         *)
(***************************************************************************)
\* Who is inserting what, and where the task or its finalizer stands meanwhile.
Inserts ==
    /\ Writing("task") =>
          pc \in {"start", "work", "failing"} /\ writing.type \in {"run.started", "work"}
    /\ Writing("soft") => pc \in {"work", "failing", "unwind"} /\ writing.type = "run.soft_timeout"
    /\ Writing("finalizer") =>
          /\ writing.table = "events"
          /\ writing.type = IF pc = "terminal" THEN intent ELSE "run.interrupted"

\* Nothing has ended the run before the task's own finalizer writes the end; nothing but an
\* interruption follows an interruption; and what is about to be sealed ends as intended.
BeforeTheEnd == pc \in TaskPoints \/ (server = "up" /\ pc \in {"list", "terminal"})
EndIsLast ==
    /\ BeforeTheEnd => \A i \in DOMAIN events : events[i].type \notin TERMINAL_EVENT_TYPES
    /\ (\E i \in DOMAIN events : events[i].type = "run.interrupted") =>
          events[Len(events)].type = "run.interrupted"
    /\ pc = "seal" => events # <<>> /\ events[Len(events)].type = intent

\* Without a storage failure and a cancelled finalizer, a run is marked interrupted only because
\* its ledger cannot be sealed, and its row is final before the reservation is given back.
Unsealable == aborted /\ ~Intact
EndsWell ==
    faults = 0 /\ shield < 2 =>
        /\ softTimer # "failed"
        /\ pc \in {"mark", "interrupt"} => Unsealable
        /\ pc \in {"release", "cleanup"} \/ (server = "up" /\ pc = "done") =>
              row.status \in TERMINAL_STATUSES /\ (row.digest = 0 => Unsealable)
        /\ server = "up" /\ pc = "done" => ~reserved

EndingInv == Inserts /\ EndIsLast /\ EndsWell

(***************************************************************************)
(* Statements of the documentation that the code does not keep.            *)
(***************************************************************************)
\* README.md:98: a timeout, cancellation or failure seals a non-authoritative partial receipt.
UnauthoritativeRunIsSealed == server = "up" /\ pc = "done" => row.digest # 0

\* docs/product-spec.md:31: cancellation, shutdown and restart converge on a sealed terminal
\* state or an explicitly recoverable interrupted state; service.py:280 and 460: finalization is
\* cancellation-shielded and the outer boundary.
ConvergesTerminal == server = "up" /\ pc = "done" => row.status \in TERMINAL_STATUSES
=============================================================================
