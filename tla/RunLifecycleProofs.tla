-------------------------- MODULE RunLifecycleProofs --------------------------
(***************************************************************************)
(* Proofs about one run, for every bound on its work, cancellations,       *)
(* faults and crashes.  LifecycleInv is inductive; from it the row always  *)
(* agrees with the receipt, a receipt is sealed once, and the run never    *)
(* breaks the obligation the ledger puts on it.  By that last fact what    *)
(* RunLedgerProofs proves of the ledger alone holds in every run.          *)
(* EndingInv is what a run that ends well goes through, and StreamInv what *)
(* the generator of events and its client know of a run whose receipt may  *)
(* be damaged meanwhile.                                                   *)
(***************************************************************************)
EXTENDS EventStream, RunLedgerProofs, DataTheorems

(***************************************************************************)
(* The statuses and their terminal events.                                 *)
(***************************************************************************)
LEMMA TerminalTypes ==
  TERMINAL_EVENT_TYPES = {"run.completed", "run.incomplete", "run.timeout", "run.cancelled",
                          "run.failed", "run.interrupted"}
<1>1. /\ TerminalEvents("completed") = {"run.completed"}
      /\ TerminalEvents("incomplete") = {"run.incomplete", "run.timeout"}
      /\ TerminalEvents("cancelled") = {"run.cancelled"}
      /\ TerminalEvents("failed") = {"run.failed"}
      /\ TerminalEvents("interrupted") = {"run.interrupted"}
      /\ TerminalEvents("queued") = {} /\ TerminalEvents("running") = {}
  BY DEF TerminalEvents
<1>. QED  BY <1>1 DEF TERMINAL_EVENT_TYPES, Statuses

LEMMA StatusIsTyped ==
  ASSUME NEW t \in TERMINAL_EVENT_TYPES
  PROVE  StatusOf(t) \in TERMINAL_STATUSES /\ t \in TerminalEvents(StatusOf(t))
<1>1. \E s \in TERMINAL_STATUSES : t \in TerminalEvents(s)
  BY TerminalTypes DEF TERMINAL_STATUSES, Statuses, TerminalEvents
<1>. QED  BY <1>1 DEF StatusOf

LEMMA InterruptedStatus == StatusOf("run.interrupted") = "interrupted"
<1>1. StatusOf("run.interrupted") \in TERMINAL_STATUSES
      /\ "run.interrupted" \in TerminalEvents(StatusOf("run.interrupted"))
  BY TerminalTypes, StatusIsTyped
<1>. QED  BY <1>1 DEF TERMINAL_STATUSES, Statuses, TerminalEvents

(***************************************************************************)
(* What the steps of the ledger do to the variables LifecycleInv reads.    *)
(***************************************************************************)
LEMMA WriteFrame ==
  ASSUME NEW w, WriteEnd(w) \/ BreakOff(w)
  PROVE  Writing(w) /\ writing' = NoWrite /\ current' = current
BY Zenon DEF WriteEnd, WriteAbort, BreakOff, Writing, memory

LEMMA BeginFrame ==
  ASSUME NEW w, NEW type, AppendBegin(w, type) \/ RecordBegin(w, type)
  PROVE  writing'.by = w /\ current' = current
BY DEF AppendBegin, RecordBegin

LEMMA AbandonFrame ==
  ASSUME NEW w, Abandon(w)
  PROVE  /\ current' = current
         /\ ~Writing(w)'
         /\ UNCHANGED writing \/ writing' = NoWrite
         /\ writing = NoWrite => UNCHANGED ledgerVars
BY WriteFrame, Zenon DEF Abandon, Writing, ledgerVars

LEMMA HydrateFrame ==
  ASSUME Hydrate PROVE current' /\ writing = NoWrite /\ writing' = writing
BY Zenon DEF Hydrate

LEMMA LoseMemoryFrame ==
  ASSUME NEW made, LoseMemory(made)
  PROVE  /\ writing' = NoWrite /\ openaiSequence' = 0
         /\ current' => events' = <<>> /\ calls' = {}
BY Zenon DEF LoseMemory

\* LifecycleInv but for the ledger's types.
RunInv == RunTypeOK /\ Placed /\ Hydrated /\ OneReceipt /\ RowAgreesWithReceipt

LEMMA TaskStepKeeps ==
  ASSUME RunInv, TaskSteps \/ RecordWork \/ HardTimeout \/ SoftTimeoutFires
  PROVE  RunInv'
<1>. USE TerminalTypes DEF RunInv, RunTypeOK, Placed, Hydrated, OneReceipt,
      RowAgreesWithReceipt, TaskPoints, FinalizerPoints, StartupPoints, Receipts, NoReceipt,
      Statuses, TERMINAL_STATUSES, Writing, history, Doubtful,
      taskFrame, End, Failing, Fault, NoFault, counters
<1>1. CASE HydrateRun
  <2>1. pc = "hydrate" /\ pc' \in {"admit", "unwind"}
        /\ (pc' = "unwind" => intent' = "run.failed")
    BY <1>1 DEF HydrateRun
  <2>2. current' /\ writing' = writing
    BY <1>1, HydrateFrame, Zenon DEF HydrateRun, ledgerVars
  <2>. QED  BY <1>1, <2>1, <2>2 DEF HydrateRun
<1>2. CASE EnterRunning
  BY <1>2 DEF EnterRunning, ledgerVars
<1>3. CASE AppendStarted
  <2>1. current' = current /\ writing'.by = "task"
    BY <1>3, BeginFrame DEF AppendStarted
  <2>. QED  BY <1>3, <2>1 DEF AppendStarted
<1>4. CASE RecordWork
  BY <1>4, BeginFrame DEF RecordWork
<1>5. CASE TaskWriteEnds
  BY <1>5, WriteFrame DEF TaskWriteEnds
<1>6. CASE TaskWriteFails
  <2>1. writing # NoWrite /\ writing' = NoWrite /\ current' = current
    BY <1>6, WriteFrame, Zenon DEF TaskWriteFails
  <2>2. CASE pc \in {"start", "work"}
    BY <1>6, <2>1, <2>2 DEF TaskWriteFails
  <2>3. CASE pc \notin {"start", "work"}
    BY <1>6, <2>1, <2>3 DEF TaskWriteFails
  <2>. QED  BY <2>2, <2>3
<1>7. CASE FinishWork
  BY <1>7 DEF FinishWork, ledgerVars
<1>8. CASE HardTimeout
  BY <1>8, AbandonFrame DEF HardTimeout, TimedOut
<1>9. CASE LeaveInvestigation
  BY <1>9 DEF LeaveInvestigation, ledgerVars
<1>10. CASE SoftTimeoutFires
  BY <1>10, BeginFrame DEF SoftTimeoutFires
<1>11. CASE SoftTimeoutWriteEnds
  <2>1. writing # NoWrite /\ writing' = NoWrite /\ current' = current
    BY <1>11, WriteFrame, Zenon DEF SoftTimeoutWriteEnds
  <2>2. /\ UNCHANGED <<taskFrame, row, pc, intent>>
        /\ Fault \/ NoFault
        /\ softTimer' \in {"done", "failed"}
    BY <1>11, Zenon DEF SoftTimeoutWriteEnds
  <2>. QED  BY <2>1, <2>2
<1>12. CASE StopSoftTimer
  <2>1. current' = current /\ (writing' = writing \/ writing' = NoWrite)
    BY <1>12, AbandonFrame, Zenon DEF StopSoftTimer
  <2>2. /\ pc = "unwind" /\ pc' \in {"done", "list"} /\ NoFault
        /\ softTimer' \in {softTimer, "off", "done"}
        /\ UNCHANGED <<taskFrame, row, intent>>
    BY <1>12, Zenon DEF StopSoftTimer
  <2>. QED  BY <2>1, <2>2
<1>. QED  BY <1>1, <1>2, <1>3, <1>4, <1>5, <1>6, <1>7, <1>8, <1>9, <1>10, <1>11, <1>12
          DEF TaskSteps

LEMMA FinalizerStepKeeps ==
  ASSUME RunInv, FinalizerSteps
  PROVE  RunInv'
<1>. USE TerminalTypes DEF RunInv, RunTypeOK, Placed, Hydrated, OneReceipt,
      RowAgreesWithReceipt, TaskPoints, FinalizerPoints, StartupPoints, Receipts, NoReceipt,
      Statuses, TERMINAL_STATUSES, Writing, history, Doubtful,
      finalizerFrame, durable, Fault, NoFault, counters
<1>1. CASE ListEvents
  BY <1>1 DEF ListEvents, ledgerVars
<1>2. CASE AppendTerminal
  BY <1>2, BeginFrame DEF AppendTerminal
<1>3. CASE TerminalWriteEnds
  <2>1. /\ writing # NoWrite /\ writing.by = "finalizer"
        /\ writing' = NoWrite /\ current' = current
    BY <1>3, WriteFrame, Zenon DEF TerminalWriteEnds
  <2>2. /\ UNCHANGED <<finalizerFrame, durable, snapshot, history>>
        /\ Fault \/ NoFault
        /\ pc' \in {"seal", "mark", "interrupt"} /\ (pc' = "seal" => pc = "terminal")
    BY <1>3, Zenon DEF TerminalWriteEnds
  <2>3. pc \in {"terminal", "mark"}
    BY <2>1
  <2>. QED  BY <2>1, <2>2, <2>3
<1>4. CASE Seal
  <2>. USE <1>4 DEF Seal, ledgerVars
  <2>1. /\ pc = "seal" /\ receipt = NoReceipt
        /\ UNCHANGED <<finalizerFrame, ledgerVars, row, reserved>>
    OBVIOUS
  <2>2. CASE receipt' # NoReceipt
    <3>1. /\ receipt' = [status |-> StatusOf(intent), digest |-> seals + 1, intact |-> TRUE]
          /\ snapshot' = receipt' /\ seals' = seals + 1
          /\ pc' = "commit" /\ NoFault
      BY <2>1, <2>2
    <3>2. StatusOf(intent) \in TERMINAL_STATUSES
      BY <2>1, StatusIsTyped
    <3>3. receipt' \in Receipts
      BY <3>1, <3>2
    <3>4. server = "starting" => StatusOf(intent) = "interrupted"
      BY <2>1, InterruptedStatus
    <3>. QED  BY <2>1, <3>1, <3>2, <3>3, <3>4
  <2>3. CASE receipt' = NoReceipt
    <3>1. pc' = "mark" /\ UNCHANGED <<receipt, snapshot, seals>> /\ (Fault \/ NoFault)
      BY <2>1, <2>3
    <3>. QED  BY <2>1, <3>1
  <2>. QED  BY <2>2, <2>3
<1>5. CASE CommitTerminal
  <2>1. pc = "commit" /\ UNCHANGED <<finalizerFrame, ledgerVars, receipt, reserved, snapshot, seals>>
    BY <1>5, Zenon DEF CommitTerminal
  <2>2. CASE row' = Committed(snapshot) /\ pc' = "release" /\ NoFault /\ UNCHANGED doubted
    BY <2>1, <2>2 DEF Committed, ledgerVars
  <2>3. CASE Fault /\ pc' = "mark" /\ UNCHANGED <<row, doubted>>
    BY <2>1, <2>3 DEF ledgerVars
  <2>4. CASE Fault /\ pc' = "mark" /\ row' = Committed(snapshot) /\ doubted' = TRUE
    BY <2>1, <2>4 DEF Committed, ledgerVars
  <2>. QED  BY <1>5, <2>2, <2>3, <2>4, Zenon DEF CommitTerminal
<1>6. CASE InterruptRun
  BY <1>6 DEF InterruptRun, Interrupted, ledgerVars
<1>7. CASE ReleaseReservation
  <2>1. /\ pc = "release" /\ reserved' \in BOOLEAN /\ (Fault \/ NoFault)
        /\ UNCHANGED <<finalizerFrame, ledgerVars, row, receipt, snapshot, history>>
    BY <1>7, Zenon DEF ReleaseReservation
  <2>2. pc' = IF server = "starting" THEN "cleanup" ELSE "done"
    BY <1>7, Zenon DEF ReleaseReservation, AfterRelease
  <2>. QED  BY <2>1, <2>2 DEF ledgerVars
<1>. QED  BY <1>1, <1>2, <1>3, <1>4, <1>5, <1>6, <1>7 DEF FinalizerSteps

LEMMA CancellationKeeps ==
  ASSUME RunInv, Cancellations
  PROVE  RunInv'
<1>. USE TerminalTypes DEF RunInv, RunTypeOK, Placed, Hydrated, OneReceipt,
      RowAgreesWithReceipt, TaskPoints, FinalizerPoints, StartupPoints, Receipts, NoReceipt,
      Statuses, TERMINAL_STATUSES, Writing, history, Doubtful,
      taskFrame, durable, End, Failing, Cancelling
<1>1. CASE CancelTask
  BY <1>1, AbandonFrame DEF CancelTask
<1>2. CASE CancelShieldedTask
  BY <1>2 DEF CancelShieldedTask, ledgerVars
<1>3. CASE CancelFinalizer
  <2>1. /\ current' = current
        /\ writing' = NoWrite \/ (writing' = writing /\ ~(writing # NoWrite /\ writing.by = "finalizer"))
    BY <1>3, AbandonFrame, Zenon DEF CancelFinalizer
  <2>2. /\ server = "up" /\ pc \in FinalizerPoints
        /\ shield' = 2 /\ reserved' \in BOOLEAN /\ pc' \in {"done", "release"}
        /\ \/ UNCHANGED row
           \/ pc = "commit" /\ row' = Committed(snapshot)
           \/ pc = "interrupt" /\ row' = Interrupted
        /\ UNCHANGED <<receipt, server, intent, snapshot, softTimer, reconciling, live, history>>
        /\ cancels' = cancels + 1 /\ UNCHANGED <<work, faults, crashes>>
    BY <1>3, Zenon DEF CancelFinalizer
  <2>. QED  BY <2>1, <2>2 DEF Committed, Interrupted
<1>4. CASE ReconcileCancelled
  BY <1>4 DEF ReconcileCancelled, Committed, ledgerVars
<1>. QED  BY <1>1, <1>2, <1>3, <1>4 DEF Cancellations

LEMMA StartupStepKeeps ==
  ASSUME RunInv, StartupSteps \/ Crash
  PROVE  RunInv'
<1>. USE TerminalTypes DEF RunInv, RunTypeOK, Placed, Hydrated, OneReceipt,
      RowAgreesWithReceipt, TaskPoints, FinalizerPoints, StartupPoints, Receipts, NoReceipt,
      Statuses, TERMINAL_STATUSES, Writing, history, Doubtful,
      startupFrame, durable, End, Fault, NoFault, counters
<1>1. ASSUME ProcessDies, reserved' \in BOOLEAN, row' \in {row, Interrupted},
             work' \in Nat, cancels' \in Nat, faults' \in Nat, crashes' \in Nat
      PROVE  RunInv'
  <2>1. /\ writing' = NoWrite /\ openaiSequence' = 0
        /\ current' => events' = <<>> /\ calls' = {}
    BY <1>1, LoseMemoryFrame, Zenon DEF ProcessDies
  <2>2. /\ server' = "down" /\ pc' = "done" /\ intent' = "none" /\ softTimer' = "off" /\ shield' = 0
        /\ snapshot' = NoReceipt /\ reconciling' = NoReceipt
        /\ UNCHANGED <<receipt, live, history>>
    BY <1>1, Zenon DEF ProcessDies
  <2>3. Hydrated'
    BY <2>1, <2>2, Zenon
  <2>. QED  BY <1>1, <2>1, <2>2, <2>3 DEF Interrupted
<1>2. CASE Crash
  BY <1>2, <1>1 DEF Crash
<1>3. CASE StartupFails
  <2>1. /\ ProcessDies /\ faults' = faults + 1 /\ UNCHANGED <<work, cancels, crashes>>
        /\ row' \in {row, Interrupted}
    BY <1>3, Zenon DEF StartupFails
  <2>2. reserved' \in BOOLEAN
    BY <1>3, Zenon DEF StartupFails
  <2>. QED  BY <1>1, <2>1, <2>2
<1>4. CASE Restart
  BY <1>4 DEF Restart, ledgerVars
<1>5. CASE RecoverAtStartup
  BY <1>5 DEF RecoverAtStartup, Recoverable, Committed, ledgerVars
<1>6. CASE RehydrateAbandoned
  BY <1>6, HydrateFrame DEF RehydrateAbandoned
<1>7. CASE FinishStartup
  BY <1>7 DEF FinishStartup, ledgerVars
<1>. QED  BY <1>2, <1>3, <1>4, <1>5, <1>6, <1>7 DEF StartupSteps

LEMMA ReconciliationKeeps ==
  ASSUME RunInv, ReconcileRead \/ ReconcileCommit
  PROVE  RunInv'
<1>. USE DEF RunInv, RunTypeOK, Placed, Hydrated, OneReceipt,
      RowAgreesWithReceipt, TaskPoints, FinalizerPoints, StartupPoints, Receipts, NoReceipt,
      Statuses, TERMINAL_STATUSES, Writing, history, Doubtful,
      requestFrame, ledgerVars, Fault, NoFault, counters
<1>1. CASE ReconcileRead
  BY <1>1 DEF ReconcileRead, Recoverable
<1>2. CASE ReconcileCommit
  BY <1>2 DEF ReconcileCommit, Committed
<1>. QED  BY <1>1, <1>2

LEMMA RunInvNext == RunInv /\ [Next]_vars => RunInv'
<1>1. ASSUME RunInv, UNCHANGED vars PROVE RunInv'
  <2>. USE <1>1 DEF RunInv, vars, ledgerVars, durable, counters, history
  <2>1. RunTypeOK'
    BY DEF RunTypeOK
  <2>2. Placed'
    BY DEF Placed, Writing
  <2>3. Hydrated'
    BY Zenon DEF Hydrated
  <2>4. OneReceipt'
    BY DEF OneReceipt, Doubtful
  <2>5. RowAgreesWithReceipt'
    BY DEF RowAgreesWithReceipt
  <2>. QED  BY <2>1, <2>2, <2>3, <2>4, <2>5
<1>. QED  BY <1>1, TaskStepKeeps, FinalizerStepKeeps, CancellationKeeps, StartupStepKeeps,
             ReconciliationKeeps, Zenon DEF Next

LEMMA RunInvInit == Init => RunInv
<1>. SUFFICES ASSUME Init PROVE RunInv
  OBVIOUS
<1>. USE DEF TaskPoints, FinalizerPoints, StartupPoints, Receipts, NoReceipt, Statuses, TERMINAL_STATUSES
<1>1. /\ pc \in {"hydrate", "unstarted"} /\ server = "up" /\ snapshot = NoReceipt /\ receipt = NoReceipt
      /\ reconciling = NoReceipt /\ row = [status |-> "queued", digest |-> 0] /\ LedgerInit
  BY DEF Init
<1>2. RunTypeOK
  <2>1. live \in BOOLEAN /\ reserved \in BOOLEAN /\ doubted \in BOOLEAN
    BY Zenon DEF Init
  <2>. QED  BY <1>1, <2>1 DEF Init, RunTypeOK
<1>3. Placed /\ Hydrated
  BY <1>1 DEF Placed, Hydrated, LedgerInit, Writing
<1>4. OneReceipt /\ RowAgreesWithReceipt
  BY <1>1 DEF OneReceipt, RowAgreesWithReceipt
<1>. QED  BY <1>2, <1>3, <1>4 DEF RunInv

(***************************************************************************)
(* Every step of the run is a step of the ledger, or none.                 *)
(***************************************************************************)
LEMMA BeginIsLedgerStep ==
  ASSUME current, NEW w \in Writers, NEW type \in EventTypes,
         AppendBegin(w, type) \/ RecordBegin(w, type)
  PROVE  LedgerNext
BY Zenon DEF LedgerNext, Begin

LEMMA WriteIsLedgerStep ==
  ASSUME NEW w \in Writers, WriteEnd(w) \/ BreakOff(w)
  PROVE  LedgerNext
BY Zenon DEF LedgerNext, BreakOff

LEMMA AbandonIsLedgerStep ==
  ASSUME NEW w \in Writers, Abandon(w)
  PROVE  LedgerNext \/ UNCHANGED ledgerVars
BY Zenon DEF Abandon, BreakOff, LedgerNext

\* A task that hydrates a new object over empty tables changes nothing.
LEMMA HydrateIsLedgerStep ==
  ASSUME Placed, Hydrated, pc \in {"hydrate", "rehydrate"}, Hydrate
  PROVE  LedgerNext \/ UNCHANGED ledgerVars
<1>1. CASE ~current
  BY <1>1 DEF LedgerNext
<1>2. CASE current
  <2>1. openaiSequence = 0 /\ events = <<>> /\ calls = {}
    BY <1>2 DEF Hydrated
  <2>2. Cardinality(calls) = 0
    BY <2>1, FS_EmptySet
  <2>3. UNCHANGED <<events, calls, sequence, previousHash, openaiSequence, writing, aborted>>
    BY <2>1, <2>2 DEF Hydrate
  <2>4. UNCHANGED current
    BY <1>2, Zenon DEF Hydrate
  <2>. QED  BY <2>3, <2>4 DEF ledgerVars
<1>. QED  BY <1>1, <1>2

LEMMA NamedTypes ==
  /\ Writers = {"task", "soft", "finalizer"}
  /\ {"run.started", "work", "run.soft_timeout", "run.interrupted"} \subseteq EventTypes
  /\ TERMINAL_EVENT_TYPES \subseteq EventTypes
BY TerminalTypes DEF EventTypes, Writers

LEMMA TaskStepOfLedger ==
  ASSUME Placed, Hydrated, TaskSteps \/ RecordWork \/ HardTimeout \/ SoftTimeoutFires
  PROVE  LedgerNext \/ UNCHANGED ledgerVars
<1>. USE NamedTypes
<1>1. CASE HydrateRun
  BY <1>1, HydrateIsLedgerStep DEF HydrateRun
<1>2. CASE EnterRunning \/ FinishWork \/ LeaveInvestigation
  BY <1>2 DEF EnterRunning, FinishWork, LeaveInvestigation
<1>3. CASE AppendStarted \/ RecordWork \/ SoftTimeoutFires
  <2>1. current
    BY <1>3 DEF Hydrated, TaskPoints, AppendStarted, RecordWork, SoftTimeoutFires
  <2>. QED  BY <1>3, <2>1, BeginIsLedgerStep DEF AppendStarted, RecordWork, SoftTimeoutFires
<1>4. CASE TaskWriteEnds \/ TaskWriteFails \/ SoftTimeoutWriteEnds
  BY <1>4, WriteIsLedgerStep DEF TaskWriteEnds, TaskWriteFails, SoftTimeoutWriteEnds
<1>5. CASE HardTimeout \/ StopSoftTimer
  BY <1>5, AbandonIsLedgerStep DEF HardTimeout, StopSoftTimer
<1>. QED  BY <1>1, <1>2, <1>3, <1>4, <1>5, Zenon DEF TaskSteps

LEMMA FinalizerStepOfLedger ==
  ASSUME Placed, Hydrated, FinalizerSteps
  PROVE  LedgerNext \/ UNCHANGED ledgerVars
<1>. USE NamedTypes
<1>1. CASE ListEvents \/ Seal \/ CommitTerminal \/ InterruptRun \/ ReleaseReservation
  BY <1>1, Zenon DEF ListEvents, Seal, CommitTerminal, InterruptRun, ReleaseReservation
<1>2. CASE AppendTerminal
  <2>1. current /\ (pc = "terminal" => intent \in TERMINAL_EVENT_TYPES)
    BY <1>2 DEF Hydrated, Placed, FinalizerPoints, AppendTerminal
  <2>. QED  BY <1>2, <2>1, BeginIsLedgerStep DEF AppendTerminal
<1>3. CASE TerminalWriteEnds
  BY <1>3, WriteIsLedgerStep DEF TerminalWriteEnds
<1>. QED  BY <1>1, <1>2, <1>3 DEF FinalizerSteps

LEMMA OtherStepOfLedger ==
  ASSUME Placed, Hydrated, StartupSteps \/ Crash \/ Cancellations \/ ReconcileRead \/ ReconcileCommit
  PROVE  LedgerNext \/ UNCHANGED ledgerVars
<1>. USE NamedTypes
<1>1. CASE Restart \/ RecoverAtStartup \/ FinishStartup \/ CancelShieldedTask
           \/ ReconcileCancelled \/ ReconcileRead \/ ReconcileCommit
  BY <1>1, Zenon DEF Restart, RecoverAtStartup, FinishStartup, CancelShieldedTask,
     ReconcileCancelled, ReconcileRead, ReconcileCommit, requestFrame
<1>2. CASE RehydrateAbandoned
  BY <1>2, HydrateIsLedgerStep DEF RehydrateAbandoned
<1>3. CASE Crash \/ StartupFails
  BY <1>3, Zenon DEF Crash, StartupFails, ProcessDies, LedgerNext
<1>4. CASE CancelTask \/ CancelFinalizer
  BY <1>4, AbandonIsLedgerStep DEF CancelTask, CancelFinalizer
<1>. QED  BY <1>1, <1>2, <1>3, <1>4, Zenon DEF StartupSteps, Cancellations

LEMMA StepOfLedger == Placed /\ Hydrated /\ [Next]_vars => [LedgerNext]_ledgerVars
<1>1. UNCHANGED vars => UNCHANGED ledgerVars
  BY DEF vars
<1>. QED  BY <1>1, TaskStepOfLedger, FinalizerStepOfLedger, OtherStepOfLedger, Zenon DEF Next

(***************************************************************************)
(* The theorems.                                                           *)
(***************************************************************************)
LEMMA AlwaysRunInv == Spec => []RunInv
BY RunInvInit, RunInvNext, PTL DEF Spec

\* The run implements the ledger's specification: whatever is cancelled, times out, fails or
\* crashes, no object appends to rows it has not read.
THEOREM RunImplementsLedger == Spec => ImplementsLedger
<1>1. Init => LedgerInit
  BY DEF Init
<1>2. RunInv => Placed /\ Hydrated
  BY DEF RunInv
<1>. QED  BY <1>1, <1>2, AlwaysRunInv, StepOfLedger, PTL DEF Spec, ImplementsLedger, LedgerSpec

\* Every variable of the run keeps its type.
THEOREM TypeCorrect == Spec => []TypeOK
<1>1. RunInv => RunTypeOK
  BY DEF RunInv
<1>. QED  BY <1>1, AlwaysRunInv, RunImplementsLedger, LedgerTypeCorrect, PTL
          DEF TypeOK, ImplementsLedger

\* The inductive invariant of the run.
THEOREM LifecycleInvariant == Spec => []LifecycleInv
<1>1. RunInv /\ TypeOK => LifecycleInv
  BY DEF RunInv, LifecycleInv
<1>. QED  BY <1>1, AlwaysRunInv, TypeCorrect, PTL

\* The row and the receipt never disagree.
THEOREM RowAlwaysAgrees == Spec => []RowAgreesWithReceipt
<1>1. RunInv => RowAgreesWithReceipt
  BY DEF RunInv
<1>. QED  BY <1>1, AlwaysRunInv, PTL

\* The rows of every run are in key order.
THEOREM RunRowsInKeyOrder == Spec => []RowsInKeyOrder
BY RunImplementsLedger, RowsAlwaysInKeyOrder, PTL DEF ImplementsLedger

\* A run none of whose appends was abandoned can be sealed, however often its process died.
THEOREM RunIntactUnlessAborted == Spec => []IntactUnlessAborted
BY RunImplementsLedger, AlwaysIntactUnlessAborted, PTL DEF ImplementsLedger

(***************************************************************************)
(* The receipt is sealed once.                                             *)
(***************************************************************************)
\* The one step that writes a receipt.
Sealing ==
    /\ pc = "seal" /\ receipt = NoReceipt /\ Sealable
    /\ receipt' = [status |-> StatusOf(intent), digest |-> seals + 1, intact |-> TRUE]
    /\ UNCHANGED <<row, server, doubted>>

\* Recovery and reconciliation find the receipt in order whenever there is one.
LEMMA ReceiptIsRecoverable ==
  RunInv /\ receipt # NoReceipt => Recoverable
BY DEF RunInv, OneReceipt, RowAgreesWithReceipt, RunTypeOK, Recoverable, Receipts

LEMMA ReceiptSteps ==
  ASSUME RunInv, [Next]_vars
  PROVE  UNCHANGED receipt \/ Sealing
<1>1. CASE TaskSteps \/ RecordWork \/ HardTimeout \/ SoftTimeoutFires
  BY <1>1, Zenon DEF TaskSteps, HydrateRun, EnterRunning, AppendStarted, RecordWork,
     TaskWriteEnds, TaskWriteFails, FinishWork, HardTimeout, LeaveInvestigation,
     SoftTimeoutFires, SoftTimeoutWriteEnds, StopSoftTimer, taskFrame
<1>2. CASE Seal
  BY <1>2 DEF Seal, Sealing, finalizerFrame
<1>3. CASE FinalizerSteps /\ ~Seal
  BY <1>3, Zenon DEF FinalizerSteps, ListEvents, AppendTerminal, TerminalWriteEnds,
     CommitTerminal, InterruptRun, ReleaseReservation, durable
<1>4. CASE RecoverAtStartup
  BY <1>4, ReceiptIsRecoverable DEF RecoverAtStartup
<1>5. CASE (StartupSteps \/ Crash) /\ ~RecoverAtStartup
  BY <1>5, Zenon DEF StartupSteps, Crash, StartupFails, ProcessDies, Restart,
     RehydrateAbandoned, FinishStartup, durable
<1>6. CASE Cancellations
  BY <1>6, Zenon DEF Cancellations, CancelTask, CancelShieldedTask, CancelFinalizer,
     ReconcileCancelled, durable, taskFrame
<1>7. CASE ReconcileRead
  BY <1>7, ReceiptIsRecoverable DEF ReconcileRead
<1>8. CASE ReconcileCommit \/ UNCHANGED vars
  BY <1>8, Zenon DEF ReconcileCommit, vars, durable
<1>. QED  BY <1>1, <1>2, <1>3, <1>4, <1>5, <1>6, <1>7, <1>8 DEF Next

\* No crash, retry, reconciliation or second finalization replaces or removes a receipt.
THEOREM SealedOnlyOnce == Spec => SealedOnce
<1>1. RunInv /\ [Next]_vars => [receipt # NoReceipt => receipt' = receipt]_vars
  BY ReceiptSteps DEF Sealing
<1>. QED  BY <1>1, AlwaysRunInv, PTL DEF Spec, SealedOnce

(***************************************************************************)
(* The run implements RunOutcome.                                          *)
(***************************************************************************)
\* The steps that write the row: a run that starts to run, a commit of the receipt, and an
\* interruption.
LEMMA RowSteps ==
  ASSUME RunInv, [Next]_vars
  PROVE  \/ UNCHANGED row
         \/ /\ row.status \in {"queued", "running"} /\ row'.status = "running"
            /\ receipt = NoReceipt
         \/ receipt # NoReceipt /\ row' = Committed(receipt)
         \/ /\ row' = Interrupted
            /\ row.status \in {"queued", "running", "interrupted"} \/ (doubted /\ receipt # NoReceipt)
<1>1. pc = "admit" =>
        /\ row.status \in {"queued", "running"} /\ receipt = NoReceipt
        /\ [row EXCEPT !.status = "running"].status = "running"
  BY DEF RunInv, RunTypeOK, Placed, OneReceipt, TaskPoints, FinalizerPoints, StartupPoints, Doubtful
<1>2. pc = "interrupt" =>
        row.status \in {"queued", "running", "interrupted"} \/ (doubted /\ receipt # NoReceipt)
  BY DEF RunInv, RunTypeOK, Placed, OneReceipt, FinalizerPoints, Doubtful
<1>3. /\ pc = "commit" => snapshot = receipt /\ receipt # NoReceipt
      /\ reconciling # NoReceipt => reconciling = receipt
  BY DEF RunInv, OneReceipt
<1>4. CASE TaskSteps \/ RecordWork \/ HardTimeout \/ SoftTimeoutFires
  BY <1>1, <1>4, Zenon DEF TaskSteps, HydrateRun, EnterRunning, AppendStarted, RecordWork,
     TaskWriteEnds, TaskWriteFails, FinishWork, HardTimeout, LeaveInvestigation,
     SoftTimeoutFires, SoftTimeoutWriteEnds, StopSoftTimer
<1>5. CASE FinalizerSteps
  BY <1>2, <1>3, <1>5, Zenon DEF FinalizerSteps, ListEvents, AppendTerminal,
     TerminalWriteEnds, Seal, CommitTerminal, InterruptRun, ReleaseReservation, durable
<1>6. CASE CancelTask \/ CancelFinalizer
  BY <1>1, <1>2, <1>3, <1>6, Zenon DEF CancelTask, CancelFinalizer
<1>7. CASE RecoverAtStartup
  BY <1>7 DEF RecoverAtStartup, Recoverable, NoReceipt
<1>8. CASE (StartupSteps \/ Crash) /\ ~RecoverAtStartup
  BY <1>2, <1>8, Zenon DEF StartupSteps, Crash, StartupFails, ProcessDies, Restart,
     RehydrateAbandoned, FinishStartup, startupFrame, durable
<1>9. CASE CancelShieldedTask \/ ReconcileCancelled \/ ReconcileRead \/ ReconcileCommit
           \/ UNCHANGED vars
  BY <1>3, <1>9 DEF CancelShieldedTask, ReconcileCancelled, ReconcileRead, ReconcileCommit,
     vars, durable
<1>. QED  BY <1>4, <1>5, <1>6, <1>7, <1>8, <1>9 DEF Next, Cancellations

\* Doubt comes with a commit of the receipt only.
LEMMA DoubtSteps ==
  ASSUME RunInv, [Next]_vars
  PROVE  \/ doubted' = doubted
         \/ doubted' = TRUE /\ receipt # NoReceipt /\ row' = Committed(receipt)
<1>1. CASE CommitTerminal
  BY <1>1 DEF CommitTerminal, RunInv, OneReceipt
<1>2. CASE TaskSteps \/ RecordWork \/ HardTimeout \/ SoftTimeoutFires \/ CancelTask
  BY <1>2, Zenon DEF TaskSteps, HydrateRun, EnterRunning, AppendStarted, RecordWork,
     TaskWriteEnds, TaskWriteFails, FinishWork, HardTimeout, LeaveInvestigation,
     SoftTimeoutFires, SoftTimeoutWriteEnds, StopSoftTimer, CancelTask, taskFrame, history
<1>3. CASE FinalizerSteps /\ ~CommitTerminal
  BY <1>3, Zenon DEF FinalizerSteps, ListEvents, AppendTerminal, TerminalWriteEnds, Seal,
     InterruptRun, ReleaseReservation, history
<1>4. CASE StartupSteps \/ Crash
  BY <1>4, Zenon DEF StartupSteps, Crash, StartupFails, ProcessDies, Restart, RecoverAtStartup,
     RehydrateAbandoned, FinishStartup, startupFrame, history
<1>5. CASE CancelShieldedTask \/ CancelFinalizer \/ ReconcileCancelled \/ ReconcileRead
           \/ ReconcileCommit \/ UNCHANGED vars
  BY <1>5, Zenon DEF CancelShieldedTask, CancelFinalizer, ReconcileCancelled, ReconcileRead,
     ReconcileCommit, requestFrame, vars, history
<1>. QED  BY <1>1, <1>2, <1>3, <1>4, <1>5, Zenon DEF Next, Cancellations

\* An announced outcome is the receipt's, or an interruption without one.
LEMMA AnnouncedOutcome ==
  ASSUME RunInv
  PROVE  /\ Announced \in TERMINAL_STATUSES \cup {"none"}
         /\ receipt = NoReceipt => Announced \in {"none", "interrupted"}
         /\ receipt # NoReceipt => Announced \in {"none", receipt.status}
BY DEF RunInv, RunTypeOK, RowAgreesWithReceipt, Announced, Pending, Receipts, NoReceipt,
       Statuses, TERMINAL_STATUSES

LEMMA DecidedOutcome ==
  ASSUME RunInv
  PROVE  /\ receipt = NoReceipt <=> receipt.status = "none"
         /\ receipt # NoReceipt => receipt.status \in TERMINAL_STATUSES /\ receipt.digest # 0
BY DEF RunInv, RunTypeOK, Receipts, NoReceipt, Statuses, TERMINAL_STATUSES

\* A seal decides, and leaves what was announced.
LEMMA SealingDecides ==
  ASSUME RunInv, Sealing
  PROVE  \E o \in TERMINAL_STATUSES : Outcome!Decide(o)
<1>1. /\ receipt.status = "none"
      /\ receipt'.status = StatusOf(intent) /\ row' = row
      /\ StatusOf(intent) \in TERMINAL_STATUSES
  BY StatusIsTyped DEF RunInv, Placed, FinalizerPoints, Sealing, NoReceipt
<1>2. row.digest = 0
  BY DEF RunInv, RowAgreesWithReceipt, Sealing, NoReceipt
<1>3. row.status \in TERMINAL_STATUSES => row.status = "interrupted" /\ StatusOf(intent) = "interrupted"
  BY <1>2, InterruptedStatus DEF RunInv, RunTypeOK, Placed, OneReceipt, RowAgreesWithReceipt,
     Doubtful, Sealing, TaskPoints, FinalizerPoints, Statuses, TERMINAL_STATUSES
<1>4. Announced' = Announced /\ (Announced # "none" => StatusOf(intent) = Announced)
  BY <1>1, <1>2, <1>3 DEF Announced, Pending
<1>. QED  BY <1>1, <1>4 DEF Outcome!Decide, Sealing

\* A step that keeps the receipt announces what it says, or an interruption, or nothing new; or it
\* withdraws what was announced in doubt.
LEMMA KeepingAnnounces ==
  ASSUME RunInv, RunInv', [Next]_vars, UNCHANGED receipt
  PROVE  Outcome!Announce \/ Outcome!Withdraw \/ UNCHANGED <<receipt, Announced, doubted>>
<1>0. ~(receipt # NoReceipt /\ row' = Committed(receipt)) => doubted' = doubted
  BY DoubtSteps
<1>1. CASE UNCHANGED row /\ doubted' = doubted
  BY <1>1 DEF Announced, Pending
<1>2. CASE /\ row.status \in {"queued", "running"} /\ row'.status = "running"
           /\ receipt = NoReceipt
  BY <1>0, <1>2 DEF Announced, Pending, Statuses, TERMINAL_STATUSES
<1>3. CASE receipt # NoReceipt /\ row' = Committed(receipt)
  <2>0. doubted' \in {doubted, TRUE}
    BY DoubtSteps
  <2>1. Announced' = receipt.status
    BY <1>3, DecidedOutcome DEF Announced, Pending, Committed
  <2>2. Announced \in {"none", receipt.status} /\ receipt.status # "none"
    BY <1>3, AnnouncedOutcome, DecidedOutcome
  <2>. QED  BY <2>0, <2>1, <2>2 DEF Outcome!Announce
<1>4. CASE /\ row' = Interrupted /\ doubted' = doubted
           /\ row.status \in {"queued", "running", "interrupted"} \/ (doubted /\ receipt # NoReceipt)
  <2>1. /\ row'.status = "interrupted"
        /\ receipt = NoReceipt => row'.digest = 0
        /\ receipt # NoReceipt => row'.digest # 0
    BY <1>4, DecidedOutcome DEF Interrupted, RunInv, OneReceipt, NoReceipt
  <2>2. CASE receipt = NoReceipt
    <3>1. Announced' = "interrupted" /\ Announced \in {"none", "interrupted"}
      BY <2>1, <2>2, AnnouncedOutcome DEF Announced, Pending, Statuses, TERMINAL_STATUSES
    <3>. QED  BY <1>4, <2>2, <3>1 DEF Outcome!Announce, NoReceipt
  <2>3. CASE receipt # NoReceipt /\ receipt.status = "interrupted"
    <3>1. Announced' = "interrupted" /\ Announced \in {"none", "interrupted"}
      BY <2>1, <2>3, AnnouncedOutcome DEF Announced, Pending, Statuses, TERMINAL_STATUSES
    <3>. QED  BY <1>4, <2>3, <3>1 DEF Outcome!Announce
  <2>4. CASE receipt # NoReceipt /\ receipt.status # "interrupted"
    <3>1. Announced' = "none"
      BY <2>1, <2>4 DEF Announced, Pending
    <3>2. Announced = "none" \/ doubted
      BY <1>4, <2>4 DEF RunInv, RowAgreesWithReceipt, Announced, Pending, NoReceipt,
         RunTypeOK, Receipts, Statuses, TERMINAL_STATUSES
    <3>3. receipt.status # "none"
      BY <2>4, DecidedOutcome
    <3>. QED  BY <1>4, <3>1, <3>2, <3>3 DEF Outcome!Withdraw
  <2>. QED  BY <2>2, <2>3, <2>4
<1>. QED  BY <1>0, <1>1, <1>2, <1>3, <1>4, RowSteps

\* The run decides its outcome once and announces the one it decided, whatever is cancelled,
\* fails, crashes or is reconciled on the way.
THEOREM RunImplementsOutcome == Spec => ImplementsOutcome
<1>1. Init => Outcome!OutcomeInit
  BY DEF Init, Outcome!OutcomeInit, Announced, NoReceipt, Statuses, TERMINAL_STATUSES
<1>2. RunInv /\ RunInv' /\ [Next]_vars => [Outcome!OutcomeNext]_(Outcome!outcomeVars)
  BY ReceiptSteps, SealingDecides, KeepingAnnounces DEF Outcome!OutcomeNext, Outcome!outcomeVars
<1>. QED  BY <1>1, <1>2, AlwaysRunInv, PTL DEF Spec, ImplementsOutcome, Outcome!OutcomeSpec

(***************************************************************************)
(* How a run ends when storage is healthy and its finalizer is left alone. *)
(***************************************************************************)
LEMMA BeginWrites ==
  ASSUME NEW w, NEW type, AppendBegin(w, type) \/ RecordBegin(w, type)
  PROVE  /\ writing'.by = w /\ writing'.type = type
         /\ AppendBegin(w, type) => writing'.table = "events"
BY DEF AppendBegin, RecordBegin

LEMMA TaskStepInserts ==
  ASSUME RunInv, Inserts, TaskSteps \/ RecordWork \/ HardTimeout \/ SoftTimeoutFires
  PROVE  Inserts'
<1>. USE DEF RunInv, Placed, Hydrated, Inserts, TaskPoints, FinalizerPoints, StartupPoints,
      Writing, End, Failing
<1>1. CASE HydrateRun
  <2>1. pc = "hydrate" /\ writing' = writing
    BY <1>1, HydrateFrame, Zenon DEF HydrateRun, ledgerVars
  <2>. QED  BY <2>1
<1>2. CASE EnterRunning
  BY <1>2 DEF EnterRunning, ledgerVars
<1>3. CASE AppendStarted
  BY <1>3, BeginWrites DEF AppendStarted
<1>4. CASE RecordWork
  BY <1>4, BeginWrites DEF RecordWork
<1>5. CASE TaskWriteEnds \/ TaskWriteFails \/ SoftTimeoutWriteEnds
  <2>1. writing' = NoWrite
    BY <1>5, WriteFrame, Zenon DEF TaskWriteEnds, TaskWriteFails, SoftTimeoutWriteEnds
  <2>. QED  BY <2>1
<1>6. CASE FinishWork
  BY <1>6 DEF FinishWork, ledgerVars
<1>7. CASE HardTimeout
  BY <1>7, AbandonFrame DEF HardTimeout
<1>8. CASE LeaveInvestigation
  BY <1>8 DEF LeaveInvestigation, ledgerVars
<1>9. CASE SoftTimeoutFires
  BY <1>9, BeginWrites DEF SoftTimeoutFires
<1>10. CASE StopSoftTimer
  BY <1>10, AbandonFrame DEF StopSoftTimer
<1>. QED  BY <1>1, <1>2, <1>3, <1>4, <1>5, <1>6, <1>7, <1>8, <1>9, <1>10 DEF TaskSteps

LEMMA OtherStepInserts ==
  ASSUME RunInv, Inserts,
         FinalizerSteps \/ StartupSteps \/ Crash \/ Cancellations \/ ReconcileRead \/ ReconcileCommit
  PROVE  Inserts'
<1>. USE DEF RunInv, Placed, Hydrated, Inserts, TaskPoints, FinalizerPoints, StartupPoints,
      Writing, End, Failing
<1>1. CASE AppendTerminal
  <2>1. /\ writing'.by = "finalizer" /\ writing'.table = "events"
        /\ writing'.type = IF pc = "terminal" THEN intent ELSE "run.interrupted"
        /\ UNCHANGED <<pc, intent>>
    BY <1>1, BeginWrites DEF AppendTerminal, finalizerFrame
  <2>. QED  BY <2>1
<1>2. CASE TerminalWriteEnds
  <2>1. writing' = NoWrite
    BY <1>2, WriteFrame, Zenon DEF TerminalWriteEnds
  <2>. QED  BY <2>1
<1>3. CASE ListEvents \/ Seal \/ CommitTerminal \/ InterruptRun \/ ReleaseReservation
  <2>1. pc \in {"list", "seal", "commit", "interrupt", "release"} /\ writing' = writing
    BY <1>3, Zenon DEF ListEvents, Seal, CommitTerminal, InterruptRun, ReleaseReservation, ledgerVars
  <2>. QED  BY <2>1
<1>4. CASE Crash \/ StartupFails
  <2>1. writing' = NoWrite
    BY <1>4, LoseMemoryFrame, Zenon DEF Crash, StartupFails, ProcessDies
  <2>. QED  BY <2>1
<1>5. CASE Restart
  <2>1. server = "down" /\ writing' = writing
    BY <1>5, Zenon DEF Restart, ledgerVars
  <2>. QED  BY <2>1
<1>6. CASE RecoverAtStartup \/ FinishStartup
  <2>1. pc \in {"recover", "cleanup"} /\ writing' = writing
    BY <1>6, Zenon DEF RecoverAtStartup, FinishStartup, ledgerVars
  <2>. QED  BY <2>1
<1>7. CASE RehydrateAbandoned
  <2>1. pc = "rehydrate" /\ writing' = writing
    BY <1>7, HydrateFrame, Zenon DEF RehydrateAbandoned
  <2>. QED  BY <2>1
<1>8. CASE CancelTask
  BY <1>8, AbandonFrame DEF CancelTask
<1>9. CASE CancelFinalizer
  BY <1>9, AbandonFrame DEF CancelFinalizer
<1>10. CASE CancelShieldedTask \/ ReconcileCancelled \/ ReconcileRead \/ ReconcileCommit
  <2>1. UNCHANGED <<writing, pc, intent>>
    BY <1>10, Zenon DEF CancelShieldedTask, ReconcileCancelled, ReconcileRead, ReconcileCommit,
       requestFrame, ledgerVars
  <2>. QED  BY <2>1
<1>. QED  BY <1>1, <1>2, <1>3, <1>4, <1>5, <1>6, <1>7, <1>8, <1>9, <1>10
          DEF FinalizerSteps, StartupSteps, Cancellations

LEMMA InsertsNext == RunInv /\ Inserts /\ [Next]_vars => Inserts'
<1>1. UNCHANGED vars /\ Inserts => Inserts'
  BY DEF Inserts, Writing, vars, ledgerVars
<1>. QED  BY <1>1, TaskStepInserts, OtherStepInserts DEF Next

\* A step adds at most the row that is being inserted.
LEMMA EventSteps ==
  ASSUME RunInv, LedgerTypeOK, [Next]_vars
  PROVE  \/ events' = events
         \/ /\ writing # NoWrite /\ writing \in Write /\ writing.table = "events"
            /\ Row \in Event /\ Row.type = writing.type
            /\ events' = Append(events, Row)
<1>1. CASE writing # NoWrite /\ Inserted
  BY <1>1, InsertedTables, WriteIsTyped DEF Row
<1>2. (writing # NoWrite /\ Inserted) \/ events' = events
  BY StepOfLedger, Zenon DEF RunInv, LedgerNext, Hydrate, Begin, AppendBegin, RecordBegin, WriteEnd,
     WriteAbort, LoseMemory, ledgerVars
<1>. QED  BY <1>1, <1>2

\* Nobody comes back to a point before the end.
LEMMA EndIsNotUndone ==
  ASSUME RunInv, [Next]_vars, BeforeTheEnd'
  PROVE  BeforeTheEnd
<1>. USE DEF BeforeTheEnd, RunInv, Placed, TaskPoints, FinalizerPoints, StartupPoints
<1>1. CASE TaskSteps \/ RecordWork \/ HardTimeout \/ SoftTimeoutFires
  BY <1>1 DEF TaskSteps, HydrateRun, EnterRunning, AppendStarted, RecordWork,
     TaskWriteEnds, TaskWriteFails, FinishWork, HardTimeout, LeaveInvestigation,
     SoftTimeoutFires, SoftTimeoutWriteEnds, StopSoftTimer, taskFrame, End
<1>2. CASE FinalizerSteps
  BY <1>2 DEF FinalizerSteps, ListEvents, AppendTerminal, TerminalWriteEnds, Seal,
     CommitTerminal, InterruptRun, ReleaseReservation, AfterRelease, finalizerFrame
<1>3. CASE StartupSteps \/ Crash
  BY <1>3 DEF StartupSteps, Crash, StartupFails, ProcessDies, Restart, RecoverAtStartup,
     RehydrateAbandoned, FinishStartup, startupFrame, End
<1>4. CASE Cancellations \/ ReconcileRead \/ ReconcileCommit
  BY <1>4 DEF Cancellations, CancelTask, CancelShieldedTask, CancelFinalizer,
     ReconcileCancelled, ReconcileRead, ReconcileCommit, requestFrame, taskFrame, End
<1>5. CASE UNCHANGED vars
  BY <1>5 DEF vars
<1>. QED  BY <1>1, <1>2, <1>3, <1>4, <1>5 DEF Next

\* The finalizer's row takes the run past its end, or to the seal.
LEMMA FinalizerRow ==
  ASSUME RunInv, [Next]_vars, Writing("finalizer")
  PROVE  \/ events' = events
         \/ pc' \in {"mark", "interrupt", "release", "done"}
         \/ pc = "terminal" /\ pc' = "seal" /\ intent' = intent
<1>1. /\ pc \in {"terminal", "mark"} /\ writing # NoWrite
      /\ ~Writing("task") /\ ~Writing("soft")
  BY DEF RunInv, Placed, Writing
<1>2. CASE TerminalWriteEnds
  BY <1>1, <1>2, Zenon DEF TerminalWriteEnds, finalizerFrame
<1>3. CASE CancelFinalizer \/ Crash \/ StartupFails
  BY <1>1, <1>3, Zenon DEF CancelFinalizer, Crash, StartupFails, ProcessDies
<1>4. CASE AppendTerminal
  BY <1>1, <1>4 DEF AppendTerminal, AppendBegin
<1>5. CASE CancelShieldedTask \/ ReconcileCancelled \/ ReconcileRead \/ ReconcileCommit
           \/ UNCHANGED vars \/ Restart
  BY <1>5, Zenon DEF CancelShieldedTask, ReconcileCancelled, ReconcileRead, ReconcileCommit,
     requestFrame, ledgerVars, vars, Restart
<1>6. CASE TaskSteps \/ RecordWork \/ HardTimeout \/ SoftTimeoutFires \/ CancelTask
  BY <1>1, <1>6, Zenon DEF TaskSteps, BreakOff, HydrateRun, EnterRunning, AppendStarted, RecordWork,
     TaskWriteEnds, TaskWriteFails, FinishWork, HardTimeout, LeaveInvestigation,
     SoftTimeoutFires, SoftTimeoutWriteEnds, StopSoftTimer, CancelTask, WriteEnd, WriteAbort,
     AppendBegin, Writing
<1>7. CASE ListEvents \/ Seal \/ CommitTerminal \/ InterruptRun \/ ReleaseReservation
           \/ RecoverAtStartup \/ RehydrateAbandoned \/ FinishStartup
  BY <1>1, <1>7 DEF ListEvents, Seal, CommitTerminal, InterruptRun, ReleaseReservation,
     RecoverAtStartup, RehydrateAbandoned, FinishStartup
<1>. QED  BY <1>2, <1>3, <1>4, <1>5, <1>6, <1>7, Zenon
          DEF Next, FinalizerSteps, StartupSteps, Cancellations

\* The ways to the seal.
LEMMA SealSteps ==
  ASSUME RunInv, Inserts, [Next]_vars, pc' = "seal"
  PROVE  \/ pc = "seal" /\ UNCHANGED <<events, intent>>
         \/ /\ pc = "list" /\ UNCHANGED <<events, intent>>
            /\ \E i \in DOMAIN events : events[i].type = intent
         \/ /\ pc = "terminal" /\ intent' = intent
            /\ Writing("finalizer") /\ Inserted
<1>1. CASE ListEvents
  BY <1>1 DEF ListEvents, finalizerFrame, ledgerVars
<1>2. CASE TerminalWriteEnds
  <2>1. WriteEnd("finalizer") /\ pc = "terminal" /\ intent' = intent
    BY <1>2 DEF TerminalWriteEnds, finalizerFrame
  <2>. QED  BY <2>1, Zenon DEF WriteEnd, Writing
<1>3. CASE CancelShieldedTask \/ ReconcileCancelled \/ ReconcileRead \/ ReconcileCommit
           \/ UNCHANGED vars
  <2>1. UNCHANGED <<pc, events, intent>>
    BY <1>3, Zenon DEF CancelShieldedTask, ReconcileCancelled, ReconcileRead, ReconcileCommit,
       requestFrame, ledgerVars, vars
  <2>. QED  BY <2>1
<1>4. CASE AppendTerminal
  BY <1>4 DEF AppendTerminal, finalizerFrame
<1>5. CASE TaskSteps \/ RecordWork \/ HardTimeout \/ SoftTimeoutFires \/ CancelTask
  <2>1. /\ Writing("task") => pc \in {"start", "work", "failing"}
        /\ Writing("soft") => pc \in {"work", "failing", "unwind"}
    BY DEF Inserts
  <2>. QED  BY <1>5, <2>1 DEF TaskSteps, BreakOff, HydrateRun, EnterRunning, AppendStarted, RecordWork,
     TaskWriteEnds, TaskWriteFails, FinishWork, HardTimeout, LeaveInvestigation,
     SoftTimeoutFires, SoftTimeoutWriteEnds, StopSoftTimer, CancelTask, WriteEnd, WriteAbort,
     Writing, End, Failing
<1>6. CASE Seal \/ CommitTerminal \/ InterruptRun \/ ReleaseReservation \/ CancelFinalizer
  BY <1>6, Zenon DEF Seal, CommitTerminal, InterruptRun, ReleaseReservation, AfterRelease,
     CancelFinalizer
<1>7. CASE StartupSteps \/ Crash
  BY <1>7 DEF StartupSteps, Crash, StartupFails, ProcessDies, Restart, RecoverAtStartup,
     RehydrateAbandoned, FinishStartup, End
<1>. QED  BY <1>1, <1>2, <1>3, <1>4, <1>5, <1>6, <1>7 DEF Next, FinalizerSteps, Cancellations

LEMMA EndIsLastNext == RunInv /\ LedgerTypeOK /\ Inserts /\ EndIsLast /\ [Next]_vars => EndIsLast'
<1>. SUFFICES ASSUME RunInv, LedgerTypeOK, Inserts, EndIsLast, [Next]_vars PROVE EndIsLast'
  OBVIOUS
<1>. DEFINE Grows == /\ writing # NoWrite /\ writing \in Write /\ writing.table = "events"
                     /\ Row \in Event /\ Row.type = writing.type
                     /\ events' = Append(events, Row)
<1>1. events' = events \/ Grows
  BY EventSteps
<1>2. Grows => /\ Len(events) \in Nat /\ DOMAIN events = 1..Len(events)
               /\ Len(events') = Len(events) + 1 /\ DOMAIN events' = 1..(Len(events) + 1)
               /\ \A i \in 1..Len(events) : events'[i] = events[i]
               /\ events'[Len(events')].type = writing.type
               /\ events' # <<>>
  BY AppendedRows DEF LedgerTypeOK
<1>3. Grows => writing.by \in {"task", "soft", "finalizer"}
  BY NamedTypes DEF Write
<1>4. Grows /\ ~Writing("finalizer") =>
         pc \in TaskPoints /\ writing.type \notin TERMINAL_EVENT_TYPES
  BY <1>3, TerminalTypes DEF Inserts, Writing, TaskPoints
<1>5. BeforeTheEnd' => \A i \in DOMAIN events' : events'[i].type \notin TERMINAL_EVENT_TYPES
  <2>. SUFFICES ASSUME BeforeTheEnd' PROVE \A i \in DOMAIN events' : events'[i].type \notin TERMINAL_EVENT_TYPES
    OBVIOUS
  <2>1. \A i \in DOMAIN events : events[i].type \notin TERMINAL_EVENT_TYPES
    BY EndIsNotUndone DEF EndIsLast
  <2>2. Writing("finalizer") => events' = events
    BY FinalizerRow DEF BeforeTheEnd, TaskPoints
  <2>3. CASE events' = events
    BY <2>1, <2>3
  <2>4. CASE Grows /\ ~Writing("finalizer")
    BY <2>1, <2>4, <1>2, <1>4
  <2>. QED  BY <1>1, <2>2, <2>3, <2>4
<1>6. (\E i \in DOMAIN events' : events'[i].type = "run.interrupted") =>
         events'[Len(events')].type = "run.interrupted"
  <2>1. CASE events' = events
    BY <2>1 DEF EndIsLast
  <2>2. CASE Grows
    <3>. SUFFICES ASSUME writing.type # "run.interrupted",
                         NEW i \in DOMAIN events', events'[i].type = "run.interrupted"
                  PROVE  FALSE
      BY <1>2, <2>2
    <3>1. BeforeTheEnd
      <4>1. CASE ~Writing("finalizer")
        BY <4>1, <1>4, <2>2 DEF BeforeTheEnd
      <4>2. CASE Writing("finalizer")
        BY <4>2 DEF Inserts, RunInv, RunTypeOK, Placed, FinalizerPoints, BeforeTheEnd
      <4>. QED  BY <4>1, <4>2
    <3>2. events[i].type = "run.interrupted" /\ i \in DOMAIN events
      BY <1>2, <2>2
    <3>. QED  BY <3>1, <3>2, TerminalTypes DEF EndIsLast
  <2>. QED  BY <1>1, <2>1, <2>2
<1>7. pc' = "seal" => events' # <<>> /\ events'[Len(events')].type = intent'
  <2>. SUFFICES ASSUME pc' = "seal" PROVE events' # <<>> /\ events'[Len(events')].type = intent'
    OBVIOUS
  <2>1. CASE pc = "seal" /\ UNCHANGED <<events, intent>>
    BY <2>1 DEF EndIsLast
  <2>2. CASE /\ pc = "list" /\ UNCHANGED <<events, intent>>
             /\ \E i \in DOMAIN events : events[i].type = intent
    <3>1. intent \in TERMINAL_EVENT_TYPES /\ (server # "up" => intent = "run.interrupted")
      BY <2>2 DEF RunInv, RunTypeOK, Placed, FinalizerPoints
    <3>2. intent = "run.interrupted"
      BY <2>2, <3>1 DEF EndIsLast, BeforeTheEnd
    <3>3. events # <<>>
      BY <2>2
    <3>. QED  BY <2>2, <3>2, <3>3 DEF EndIsLast
  <2>3. CASE pc = "terminal" /\ intent' = intent /\ Writing("finalizer") /\ Inserted
    <3>1. writing.type = intent /\ writing.table = "events" /\ writing # NoWrite
      BY <2>3 DEF Inserts, Writing
    <3>2. Grows
      BY <2>3, <3>1, InsertedTables, WriteIsTyped DEF Row
    <3>. QED  BY <1>2, <2>3, <3>1, <3>2
  <2>. QED  BY SealSteps, <2>1, <2>2, <2>3
<1>. QED  BY <1>5, <1>6, <1>7 DEF EndIsLast

\* A receipt that seal would not write belongs to a ledger that an abandoned append has broken.
LEMMA UnsealedOnlyIfBroken ==
  ASSUME RunInv, EndIsLast, IntactUnlessAborted, pc = "seal", ~Sealable
  PROVE  Unsealable
<1>1. intent \in TERMINAL_EVENT_TYPES
  BY DEF RunInv, Placed, FinalizerPoints
<1>2. events # <<>> /\ events[Len(events)].type \in TerminalEvents(StatusOf(intent))
  BY <1>1, StatusIsTyped DEF EndIsLast
<1>. QED  BY <1>2 DEF Sealable, Unsealable, Intact, IntactUnlessAborted

\* Writing the interruption repairs nothing.
LEMMA StaysUnsealable ==
  ASSUME RunInv, LedgerTypeOK, [Next]_vars, Unsealable, calls' = calls, aborted'
  PROVE  Unsealable'
<1>1. ValidChain(events') => ValidChain(events)
  BY EventSteps, PrefixOfValidChain
<1>. QED  BY <1>1 DEF Unsealable, Intact

\* What the steps of the run's way to its end make of EndsWell.
LEMMA FinalizerEndsWell ==
  ASSUME RunInv, LedgerTypeOK, Inserts, EndIsLast, IntactUnlessAborted, EndsWell, FinalizerSteps
  PROVE  EndsWell'
<1>1. SUFFICES ASSUME faults' = 0, shield' < 2
      PROVE  /\ softTimer' # "failed"
             /\ pc' \in {"mark", "interrupt"} => Unsealable'
             /\ pc' \in {"release", "cleanup"} \/ (server' = "up" /\ pc' = "done") =>
                  row'.status \in TERMINAL_STATUSES /\ (row'.digest = 0 => Unsealable')
             /\ server' = "up" /\ pc' = "done" => ~reserved'
  BY DEF EndsWell
<1>2. faults' # faults + 1
  BY <1>1 DEF RunInv, RunTypeOK
<1>3. UNCHANGED <<events, calls, aborted>> => Unsealable' = Unsealable
  BY DEF Unsealable, Intact, ValidChain, ValidCalls, HashBefore
<1>4. CASE ListEvents
  BY <1>1, <1>2, <1>4 DEF ListEvents, Fault, NoFault, counters, finalizerFrame, EndsWell
<1>5. CASE AppendTerminal
  <2>1. /\ pc \in {"terminal", "mark"} /\ pc' = pc
        /\ UNCHANGED <<events, calls, aborted>>
        /\ UNCHANGED <<softTimer, shield, faults>>
    BY <1>5 DEF AppendTerminal, AppendBegin, NoFault, counters, finalizerFrame
  <2>. QED  BY <1>1, <1>3, <2>1 DEF EndsWell
<1>6. CASE TerminalWriteEnds
  <2>1. /\ WriteEnd("finalizer") /\ NoFault
        /\ pc' = (IF pc = "terminal" THEN "seal" ELSE "interrupt")
        /\ UNCHANGED finalizerFrame
    BY <1>2, <1>6 DEF TerminalWriteEnds, Fault
  <2>2. Writing("finalizer") /\ Inserted /\ aborted' = aborted
    BY <2>1, Zenon DEF WriteEnd, Writing
  <2>3. writing # NoWrite /\ writing.table = "events" /\ pc \in {"terminal", "mark"}
    BY <2>2 DEF Inserts, RunInv, Placed, Writing
  <2>4. calls' = calls
    BY <2>2, <2>3, InsertedTables
  <2>5. pc = "mark" => Unsealable
    BY <1>1, <2>1 DEF EndsWell, NoFault, counters, finalizerFrame
  <2>6. pc = "mark" => Unsealable'
    BY <2>2, <2>4, <2>5, <1>6, StaysUnsealable DEF Next, FinalizerSteps, Unsealable
  <2>. QED  BY <1>1, <2>1, <2>3, <2>6 DEF EndsWell, NoFault, counters, finalizerFrame
<1>7. CASE Seal
  <2>1. /\ pc = "seal" /\ receipt = NoReceipt
        /\ UNCHANGED <<events, calls, aborted>>
        /\ UNCHANGED <<softTimer, shield>>
        /\ pc' \in {"commit", "mark"}
    BY <1>7 DEF Seal, RunInv, OneReceipt, finalizerFrame, ledgerVars
  <2>2. pc' = "mark" => ~Sealable
    BY <1>2, <1>7, <2>1 DEF Seal, Fault
  <2>3. pc' = "mark" => Unsealable'
    BY <1>3, <2>1, <2>2, UnsealedOnlyIfBroken
  <2>4. faults = 0
    BY <1>1, <1>2, <1>7 DEF Seal, Fault, NoFault, counters
  <2>. QED  BY <1>1, <2>1, <2>3, <2>4 DEF EndsWell
<1>8. CASE CommitTerminal
  <2>1. /\ pc = "commit" /\ row' = Committed(snapshot) /\ pc' = "release" /\ NoFault
        /\ UNCHANGED finalizerFrame
    BY <1>2, <1>8 DEF CommitTerminal, Fault
  <2>2. snapshot \in Receipts
    BY <2>1 DEF RunInv, RunTypeOK, OneReceipt
  <2>3. row'.status \in TERMINAL_STATUSES /\ row'.digest # 0
    BY <2>1, <2>2 DEF Committed, Receipts
  <2>. QED  BY <1>1, <2>1, <2>3 DEF EndsWell, NoFault, counters, finalizerFrame
<1>9. CASE InterruptRun
  <2>1. /\ pc = "interrupt" /\ row' = Interrupted /\ pc' = "release" /\ NoFault
        /\ UNCHANGED <<finalizerFrame, ledgerVars>>
    BY <1>2, <1>9 DEF InterruptRun, Fault
  <2>2. row'.status \in TERMINAL_STATUSES
    BY <2>1 DEF Interrupted, TERMINAL_STATUSES, Statuses
  <2>3. Unsealable /\ UNCHANGED <<events, calls, aborted>>
    BY <1>1, <2>1 DEF EndsWell, NoFault, counters, finalizerFrame, ledgerVars
  <2>. QED  BY <1>1, <1>3, <2>1, <2>2, <2>3 DEF EndsWell, NoFault, counters, finalizerFrame
<1>10. CASE ReleaseReservation
  <2>1. /\ pc = "release" /\ reserved' = FALSE /\ NoFault
        /\ pc' = IF server = "starting" THEN "cleanup" ELSE "done"
        /\ row' = row
        /\ UNCHANGED <<finalizerFrame, ledgerVars>>
    BY <1>2, <1>10, Zenon DEF ReleaseReservation, AfterRelease, Fault
  <2>2. row.status \in TERMINAL_STATUSES /\ (row.digest = 0 => Unsealable)
    BY <1>1, <2>1 DEF EndsWell, NoFault, counters, finalizerFrame
  <2>. QED  BY <1>1, <1>3, <2>1, <2>2 DEF EndsWell, NoFault, counters, finalizerFrame, ledgerVars
<1>. QED  BY <1>4, <1>5, <1>6, <1>7, <1>8, <1>9, <1>10 DEF FinalizerSteps

LEMMA TaskEndsWell ==
  ASSUME RunInv, Inserts, EndsWell,
         TaskSteps \/ RecordWork \/ HardTimeout \/ SoftTimeoutFires \/ CancelTask
  PROVE  EndsWell'
<1>1. SUFFICES ASSUME faults' = 0, shield' < 2
      PROVE  softTimer' # "failed" /\ pc' \in TaskPoints \cup {"list"}
  BY DEF EndsWell, TaskPoints
<1>2. faults' # faults + 1
  BY <1>1 DEF RunInv, RunTypeOK
<1>3. faults = 0 /\ shield = shield' /\ softTimer # "failed"
  <2>1. faults' = faults /\ shield' = shield
    BY <1>2 DEF TaskSteps, HydrateRun, EnterRunning, AppendStarted, RecordWork,
       TaskWriteEnds, TaskWriteFails, FinishWork, HardTimeout, LeaveInvestigation,
       SoftTimeoutFires, SoftTimeoutWriteEnds, StopSoftTimer, CancelTask, Cancelling,
       Fault, NoFault, counters, taskFrame
  <2>. QED  BY <1>1, <2>1 DEF EndsWell
<1>4. /\ Writing("task") => pc \in TaskPoints
      /\ Writing("soft") => pc \in TaskPoints
  BY DEF Inserts, TaskPoints
<1>5. softTimer' # "failed"
  BY <1>2, <1>3 DEF TaskSteps, HydrateRun, EnterRunning, AppendStarted, RecordWork,
     TaskWriteEnds, TaskWriteFails, FinishWork, HardTimeout, LeaveInvestigation,
     SoftTimeoutFires, SoftTimeoutWriteEnds, StopSoftTimer, CancelTask, Fault
<1>6. pc' \in TaskPoints \cup {"list"}
  BY <1>3, <1>4 DEF TaskSteps, BreakOff, HydrateRun, EnterRunning, AppendStarted, RecordWork,
     TaskWriteEnds, TaskWriteFails, FinishWork, HardTimeout, LeaveInvestigation,
     SoftTimeoutFires, SoftTimeoutWriteEnds, StopSoftTimer, CancelTask, WriteEnd, WriteAbort,
     Writing, End, Failing, TaskPoints
<1>. QED  BY <1>5, <1>6

LEMMA OtherStepEndsWell ==
  ASSUME RunInv, EndsWell,
         \/ StartupSteps \/ Crash \/ CancelShieldedTask \/ CancelFinalizer \/ ReconcileCancelled
         \/ ReconcileRead \/ ReconcileCommit \/ UNCHANGED vars
  PROVE  EndsWell'
<1>1. SUFFICES ASSUME faults' = 0, shield' < 2
      PROVE  /\ softTimer' # "failed"
             /\ pc' \in {"mark", "interrupt"} => Unsealable'
             /\ pc' \in {"release", "cleanup"} \/ (server' = "up" /\ pc' = "done") =>
                  row'.status \in TERMINAL_STATUSES /\ (row'.digest = 0 => Unsealable')
             /\ server' = "up" /\ pc' = "done" => ~reserved'
  BY DEF EndsWell
<1>2. faults' # faults + 1
  BY <1>1 DEF RunInv, RunTypeOK
<1>3. UNCHANGED <<events, calls, aborted>> => Unsealable' = Unsealable
  BY DEF Unsealable, Intact, ValidChain, ValidCalls, HashBefore
<1>4. CASE Crash \/ StartupFails
  <2>1. softTimer' = "off" /\ server' = "down" /\ pc' = "done"
    BY <1>4, Zenon DEF Crash, StartupFails, ProcessDies
  <2>. QED  BY <2>1
<1>5. CASE CancelFinalizer
  BY <1>1, <1>5 DEF CancelFinalizer
<1>6. CASE Restart
  <2>1. row.status \in {"queued", "running", "interrupted"} \/ pc' = "cleanup"
    BY <1>6 DEF Restart
  <2>2. /\ server' = "starting" /\ pc' \in {"recover", "cleanup"}
        /\ UNCHANGED <<row, softTimer, shield>> /\ NoFault
    BY <1>6, Zenon DEF Restart, durable
  <2>3. pc' = "cleanup" =>
           row.status \in TERMINAL_STATUSES /\ row.status # "interrupted"
    BY <1>6, <2>2 DEF Restart, RunInv, RunTypeOK, TERMINAL_STATUSES
  <2>4. pc' = "cleanup" => row.status \in TERMINAL_STATUSES /\ row.digest # 0
    BY <2>3 DEF RunInv, RowAgreesWithReceipt
  <2>. QED  BY <1>1, <2>2, <2>4 DEF EndsWell, NoFault, counters
<1>7. CASE RecoverAtStartup
  <2>1. /\ pc = "recover" /\ NoFault /\ UNCHANGED <<softTimer, shield>>
        /\ \/ Recoverable /\ row' = Committed(receipt) /\ pc' = "cleanup"
           \/ pc' = "rehydrate"
    BY <1>2, <1>7, Zenon DEF RecoverAtStartup, Fault, startupFrame
  <2>2. Recoverable => receipt \in Receipts
    BY DEF Recoverable, RunInv, RunTypeOK, NoReceipt
  <2>3. pc' = "cleanup" => row'.status \in TERMINAL_STATUSES /\ row'.digest # 0
    BY <2>1, <2>2 DEF Committed, Receipts
  <2>. QED  BY <1>1, <2>1, <2>3 DEF EndsWell, NoFault, counters
<1>8. CASE RehydrateAbandoned
  BY <1>1, <1>8 DEF RehydrateAbandoned, End, startupFrame, EndsWell, NoFault, counters
<1>9. CASE FinishStartup
  <2>1. /\ pc = "cleanup" /\ pc' = "done" /\ NoFault
        /\ reserved' = (reserved /\ Kept)
        /\ UNCHANGED <<row, softTimer, shield, events, calls, aborted>>
    BY <1>9, Zenon DEF FinishStartup, ledgerVars
  <2>2. row.status \in TERMINAL_STATUSES /\ (row.digest = 0 => Unsealable) /\ softTimer # "failed"
    BY <1>1, <2>1 DEF EndsWell, NoFault, counters
  <2>3. ~reserved'
    BY <2>1, <2>2 DEF Kept, TERMINAL_STATUSES
  <2>. QED  BY <1>3, <2>1, <2>2, <2>3
<1>10. CASE CancelShieldedTask \/ ReconcileCancelled \/ ReconcileRead \/ ReconcileCommit
            \/ UNCHANGED vars
  <2>1. /\ UNCHANGED <<events, calls, aborted, softTimer, server, pc, reserved, faults>>
        /\ shield' < 2 => shield < 2
    BY <1>2, <1>10 DEF CancelShieldedTask, ReconcileCancelled, ReconcileRead, ReconcileCommit,
       Cancelling, Fault, NoFault, counters, requestFrame, ledgerVars, durable, vars
  <2>2. row' = row \/ (row' = Committed(reconciling) /\ reconciling # NoReceipt)
    BY <1>10, Zenon DEF CancelShieldedTask, ReconcileCancelled, ReconcileRead, ReconcileCommit,
       durable, vars
  <2>3. reconciling # NoReceipt => reconciling \in Receipts
    BY DEF RunInv, RunTypeOK
  <2>4. row' = row \/ (row'.status \in TERMINAL_STATUSES /\ row'.digest # 0)
    BY <2>2, <2>3 DEF Committed, Receipts
  <2>. QED  BY <1>1, <1>3, <2>1, <2>4 DEF EndsWell
<1>. QED  BY <1>4, <1>5, <1>6, <1>7, <1>8, <1>9, <1>10 DEF StartupSteps

LEMMA EndingInvNext ==
  RunInv /\ LedgerTypeOK /\ IntactUnlessAborted /\ EndingInv /\ [Next]_vars => EndingInv'
<1>1. RunInv /\ LedgerTypeOK /\ IntactUnlessAborted /\ EndingInv /\ [Next]_vars => EndsWell'
  BY FinalizerEndsWell, TaskEndsWell, OtherStepEndsWell, Zenon DEF Next, Cancellations, EndingInv
<1>. QED  BY <1>1, InsertsNext, EndIsLastNext, Zenon DEF EndingInv

LEMMA EndingInvInit == Init => EndingInv
<1>. SUFFICES ASSUME Init PROVE EndingInv
  OBVIOUS
<1>1. writing = NoWrite /\ events = <<>> /\ pc \in {"hydrate", "unstarted"} /\ softTimer = "off"
  BY DEF Init, LedgerInit
<1>. QED  BY <1>1 DEF EndingInv, Inserts, Writing, EndIsLast, EndsWell

\* The inductive invariant of a run's end.
THEOREM EndingInvariant == Spec => []EndingInv
<1>1. TypeOK => LedgerTypeOK
  BY DEF TypeOK
<1>. QED  BY <1>1, EndingInvInit, EndingInvNext, AlwaysRunInv, TypeCorrect,
             RunIntactUnlessAborted, PTL DEF Spec

\* With storage healthy and its finalizer left alone, a task that has ended leaves a terminal
\* row and no reservation.
THEOREM RunsEndTerminal == Spec => []EndsTerminal
<1>1. EndingInv => EndsTerminal
  BY DEF EndingInv, EndsWell, EndsTerminal
<1>. QED  BY <1>1, EndingInvariant, PTL

\* ... and a receipt, unless an abandoned append has broken its ledger.
THEOREM ReceiptlessOnlyIfBroken == Spec => []ReceiptlessOnlyIfUnsealable
<1>1. EndingInv => ReceiptlessOnlyIfUnsealable
  BY DEF EndingInv, EndsWell, Unsealable, ReceiptlessOnlyIfUnsealable
<1>. QED  BY <1>1, EndingInvariant, PTL

(***************************************************************************)
(* The event stream.  Its run goes on as before, but something outside may *)
(* damage the sealed file, so that the invariant of its run is another.    *)
(***************************************************************************)
LEMMA TaskStepKeepsSeal ==
  ASSUME DamagedInv, TaskSteps \/ RecordWork \/ HardTimeout \/ SoftTimeoutFires
  PROVE  DamagedInv'
<1>. USE TerminalTypes DEF DamagedInv, RunTypeOK, Placed, Hydrated, SealHolds,
      Decided, TaskPoints, FinalizerPoints, StartupPoints, Receipts, NoReceipt,
      Statuses, TERMINAL_STATUSES, Writing, history, Doubtful,
      taskFrame, End, Failing, Fault, NoFault, counters
<1>1. CASE HydrateRun
  <2>1. pc = "hydrate" /\ pc' \in {"admit", "unwind"}
        /\ (pc' = "unwind" => intent' = "run.failed")
    BY <1>1 DEF HydrateRun
  <2>2. current' /\ writing' = writing
    BY <1>1, HydrateFrame, Zenon DEF HydrateRun, ledgerVars
  <2>. QED  BY <1>1, <2>1, <2>2 DEF HydrateRun
<1>2. CASE EnterRunning
  BY <1>2 DEF EnterRunning, ledgerVars
<1>3. CASE AppendStarted
  <2>1. current' = current /\ writing'.by = "task"
    BY <1>3, BeginFrame DEF AppendStarted
  <2>. QED  BY <1>3, <2>1 DEF AppendStarted
<1>4. CASE RecordWork
  BY <1>4, BeginFrame DEF RecordWork
<1>5. CASE TaskWriteEnds
  BY <1>5, WriteFrame DEF TaskWriteEnds
<1>6. CASE TaskWriteFails
  <2>1. writing # NoWrite /\ writing' = NoWrite /\ current' = current
    BY <1>6, WriteFrame, Zenon DEF TaskWriteFails
  <2>2. CASE pc \in {"start", "work"}
    BY <1>6, <2>1, <2>2 DEF TaskWriteFails
  <2>3. CASE pc \notin {"start", "work"}
    BY <1>6, <2>1, <2>3 DEF TaskWriteFails
  <2>. QED  BY <2>2, <2>3
<1>7. CASE FinishWork
  BY <1>7 DEF FinishWork, ledgerVars
<1>8. CASE HardTimeout
  BY <1>8, AbandonFrame DEF HardTimeout, TimedOut
<1>9. CASE LeaveInvestigation
  BY <1>9 DEF LeaveInvestigation, ledgerVars
<1>10. CASE SoftTimeoutFires
  BY <1>10, BeginFrame DEF SoftTimeoutFires
<1>11. CASE SoftTimeoutWriteEnds
  <2>1. writing # NoWrite /\ writing' = NoWrite /\ current' = current
    BY <1>11, WriteFrame, Zenon DEF SoftTimeoutWriteEnds
  <2>2. /\ UNCHANGED <<taskFrame, row, pc, intent>>
        /\ Fault \/ NoFault
        /\ softTimer' \in {"done", "failed"}
    BY <1>11, Zenon DEF SoftTimeoutWriteEnds
  <2>. QED  BY <2>1, <2>2
<1>12. CASE StopSoftTimer
  <2>1. current' = current /\ (writing' = writing \/ writing' = NoWrite)
    BY <1>12, AbandonFrame, Zenon DEF StopSoftTimer
  <2>2. /\ pc = "unwind" /\ pc' \in {"done", "list"} /\ NoFault
        /\ softTimer' \in {softTimer, "off", "done"}
        /\ UNCHANGED <<taskFrame, row, intent>>
    BY <1>12, Zenon DEF StopSoftTimer
  <2>. QED  BY <2>1, <2>2
<1>. QED  BY <1>1, <1>2, <1>3, <1>4, <1>5, <1>6, <1>7, <1>8, <1>9, <1>10, <1>11, <1>12
          DEF TaskSteps

LEMMA FinalizerStepKeepsSeal ==
  ASSUME DamagedInv, FinalizerSteps
  PROVE  DamagedInv'
<1>. USE TerminalTypes DEF DamagedInv, RunTypeOK, Placed, Hydrated, SealHolds,
      Decided, TaskPoints, FinalizerPoints, StartupPoints, Receipts, NoReceipt,
      Statuses, TERMINAL_STATUSES, Writing, history, Doubtful,
      finalizerFrame, durable, Fault, NoFault, counters
<1>1. CASE ListEvents
  BY <1>1 DEF ListEvents, ledgerVars
<1>2. CASE AppendTerminal
  BY <1>2, BeginFrame DEF AppendTerminal
<1>3. CASE TerminalWriteEnds
  <2>1. /\ writing # NoWrite /\ writing.by = "finalizer"
        /\ writing' = NoWrite /\ current' = current
    <3>1. WriteEnd("finalizer") \/ BreakOff("finalizer")
      BY <1>3, Zenon DEF TerminalWriteEnds
    <3>. QED  BY <3>1, WriteFrame
  <2>2. /\ UNCHANGED <<finalizerFrame, durable, snapshot, history>>
        /\ Fault \/ NoFault
        /\ pc' \in {"seal", "mark", "interrupt"} /\ (pc' = "seal" => pc = "terminal")
    BY <1>3, Zenon DEF TerminalWriteEnds
  <2>3. pc \in {"terminal", "mark"}
    BY <2>1
  <2>. QED  BY <2>1, <2>2, <2>3
<1>4. CASE Seal
  <2>. USE <1>4 DEF Seal, ledgerVars
  <2>1. /\ pc = "seal" /\ receipt = NoReceipt
        /\ UNCHANGED <<finalizerFrame, ledgerVars, row, reserved>>
    OBVIOUS
  <2>2. CASE receipt' # NoReceipt
    <3>1. /\ receipt' = [status |-> StatusOf(intent), digest |-> seals + 1, intact |-> TRUE]
          /\ snapshot' = receipt' /\ seals' = seals + 1
          /\ pc' = "commit" /\ NoFault
      BY <2>1, <2>2
    <3>2. StatusOf(intent) \in TERMINAL_STATUSES
      BY <2>1, StatusIsTyped
    <3>3. receipt' \in Receipts
      BY <3>1, <3>2
    <3>4. server = "starting" => StatusOf(intent) = "interrupted"
      BY <2>1, InterruptedStatus
    <3>. QED  BY <2>1, <3>1, <3>2, <3>3, <3>4
  <2>3. CASE receipt' = NoReceipt
    <3>1. pc' = "mark" /\ UNCHANGED <<receipt, snapshot, seals>> /\ (Fault \/ NoFault)
      BY <2>1, <2>3
    <3>. QED  BY <2>1, <3>1
  <2>. QED  BY <2>2, <2>3
<1>5. CASE CommitTerminal
  <2>1. pc = "commit" /\ UNCHANGED <<finalizerFrame, ledgerVars, receipt, reserved, snapshot, seals>>
    BY <1>5, Zenon DEF CommitTerminal
  <2>2. CASE row' = Committed(snapshot) /\ pc' = "release" /\ NoFault /\ UNCHANGED doubted
    BY <2>1, <2>2 DEF Committed, ledgerVars
  <2>3. CASE Fault /\ pc' = "mark" /\ UNCHANGED <<row, doubted>>
    BY <2>1, <2>3 DEF ledgerVars
  <2>4. CASE Fault /\ pc' = "mark" /\ row' = Committed(snapshot) /\ doubted' = TRUE
    BY <2>1, <2>4 DEF Committed, ledgerVars
  <2>. QED  BY <1>5, <2>2, <2>3, <2>4, Zenon DEF CommitTerminal
<1>6. CASE InterruptRun
  BY <1>6 DEF InterruptRun, Interrupted, ledgerVars
<1>7. CASE ReleaseReservation
  <2>1. /\ pc = "release" /\ reserved' \in BOOLEAN /\ (Fault \/ NoFault)
        /\ UNCHANGED <<finalizerFrame, ledgerVars, row, receipt, snapshot, history>>
    BY <1>7, Zenon DEF ReleaseReservation
  <2>2. pc' = IF server = "starting" THEN "cleanup" ELSE "done"
    BY <1>7, Zenon DEF ReleaseReservation, AfterRelease
  <2>. QED  BY <2>1, <2>2 DEF ledgerVars
<1>. QED  BY <1>1, <1>2, <1>3, <1>4, <1>5, <1>6, <1>7 DEF FinalizerSteps

LEMMA CancellationKeepsSeal ==
  ASSUME DamagedInv, Cancellations
  PROVE  DamagedInv'
<1>. USE TerminalTypes DEF DamagedInv, RunTypeOK, Placed, Hydrated, SealHolds,
      Decided, TaskPoints, FinalizerPoints, StartupPoints, Receipts, NoReceipt,
      Statuses, TERMINAL_STATUSES, Writing, history, Doubtful,
      taskFrame, durable, End, Failing, Cancelling
<1>1. CASE CancelTask
  BY <1>1, AbandonFrame DEF CancelTask
<1>2. CASE CancelShieldedTask
  BY <1>2 DEF CancelShieldedTask, ledgerVars
<1>3. CASE CancelFinalizer
  <2>1. /\ current' = current
        /\ writing' = NoWrite \/ (writing' = writing /\ ~(writing # NoWrite /\ writing.by = "finalizer"))
    BY <1>3, AbandonFrame, Zenon DEF CancelFinalizer
  <2>2. /\ server = "up" /\ pc \in FinalizerPoints
        /\ shield' = 2 /\ reserved' \in BOOLEAN /\ pc' \in {"done", "release"}
        /\ \/ UNCHANGED row
           \/ pc = "commit" /\ row' = Committed(snapshot)
           \/ pc = "interrupt" /\ row' = Interrupted
        /\ UNCHANGED <<receipt, server, intent, snapshot, softTimer, reconciling, live, history>>
        /\ cancels' = cancels + 1 /\ UNCHANGED <<work, faults, crashes>>
    BY <1>3, Zenon DEF CancelFinalizer
  <2>. QED  BY <2>1, <2>2 DEF Committed, Interrupted
<1>4. CASE ReconcileCancelled
  BY <1>4 DEF ReconcileCancelled, Committed, ledgerVars
<1>. QED  BY <1>1, <1>2, <1>3, <1>4 DEF Cancellations

LEMMA StartupStepKeepsSeal ==
  ASSUME DamagedInv, StartupSteps \/ Crash
  PROVE  DamagedInv'
<1>. USE TerminalTypes DEF DamagedInv, RunTypeOK, Placed, Hydrated, SealHolds,
      Decided, TaskPoints, FinalizerPoints, StartupPoints, Receipts, NoReceipt,
      Statuses, TERMINAL_STATUSES, Writing, history, Doubtful,
      startupFrame, durable, End, Fault, NoFault, counters
<1>1. ASSUME ProcessDies, reserved' \in BOOLEAN, row' \in {row, Interrupted},
             work' \in Nat, cancels' \in Nat, faults' \in Nat, crashes' \in Nat
      PROVE  DamagedInv'
  <2>1. /\ writing' = NoWrite /\ openaiSequence' = 0
        /\ current' => events' = <<>> /\ calls' = {}
    BY <1>1, LoseMemoryFrame, Zenon DEF ProcessDies
  <2>2. /\ server' = "down" /\ pc' = "done" /\ intent' = "none" /\ softTimer' = "off" /\ shield' = 0
        /\ snapshot' = NoReceipt /\ reconciling' = NoReceipt
        /\ UNCHANGED <<receipt, live, history>>
    BY <1>1, Zenon DEF ProcessDies
  <2>3. Hydrated'
    BY <2>1, <2>2, Zenon
  <2>. QED  BY <1>1, <2>1, <2>2, <2>3 DEF Interrupted
<1>2. CASE Crash
  BY <1>2, <1>1 DEF Crash
<1>3. CASE StartupFails
  <2>1. /\ ProcessDies /\ faults' = faults + 1 /\ UNCHANGED <<work, cancels, crashes>>
        /\ row' \in {row, Interrupted}
    BY <1>3, Zenon DEF StartupFails
  <2>2. reserved' \in BOOLEAN
    BY <1>3, Zenon DEF StartupFails
  <2>. QED  BY <1>1, <2>1, <2>2
<1>4. CASE Restart
  BY <1>4 DEF Restart, ledgerVars
<1>5. CASE RecoverAtStartup
  BY <1>5 DEF RecoverAtStartup, Recoverable, Committed, ledgerVars
<1>6. CASE RehydrateAbandoned
  BY <1>6, HydrateFrame DEF RehydrateAbandoned
<1>7. CASE FinishStartup
  BY <1>7 DEF FinishStartup, ledgerVars
<1>. QED  BY <1>2, <1>3, <1>4, <1>5, <1>6, <1>7 DEF StartupSteps

LEMMA ReconciliationKeepsSeal ==
  ASSUME DamagedInv, ReconcileRead \/ ReconcileCommit
  PROVE  DamagedInv'
<1>. USE DEF DamagedInv, RunTypeOK, Placed, Hydrated, SealHolds,
      Decided, TaskPoints, FinalizerPoints, StartupPoints, Receipts, NoReceipt,
      Statuses, TERMINAL_STATUSES, Writing, history, Doubtful,
      requestFrame, ledgerVars, Fault, NoFault, counters
<1>1. CASE ReconcileRead
  BY <1>1 DEF ReconcileRead, Recoverable
<1>2. CASE ReconcileCommit
  BY <1>2 DEF ReconcileCommit, Committed
<1>. QED  BY <1>1, <1>2

\* What a step of the run and its stream is to the run: nothing but a counter moves when a
\* generator or its client merely fails.
RunRests ==
    /\ UNCHANGED <<ledgerVars, durable, server, pc, intent, snapshot, softTimer, shield,
                   reconciling, live, history>>
    /\ UNCHANGED counters \/ Fault \/ Cancelling
RunMoves == Next \/ DamageReceipt \/ RunRests

LEMMA StreamStepsOfRun ==
  ASSUME StreamSteps \/ Disconnect
  PROVE  RunRests \/ ReconcileRead
<1>1. CASE Connect \/ Poll \/ NextEvent \/ StreamReconciled \/ ReadIdleRow
  BY <1>1, Zenon DEF Connect, Poll, NextEvent, StreamReconciled, ReadIdleRow, RunRests, vars
<1>2. CASE Decide \/ CheckIdle
  BY <1>2, Zenon DEF Decide, CheckIdle, ReadFault, RunRests, vars
<1>3. CASE StreamReconciles
  BY <1>3, Zenon DEF StreamReconciles, ReadFault, RunRests, vars
<1>4. CASE Disconnect
  BY <1>4, Zenon DEF Disconnect, RunRests
<1>. QED  BY <1>1, <1>2, <1>3, <1>4, Zenon DEF StreamSteps

LEMMA MovesOfRun ==
  ASSUME [StreamNext]_allVars
  PROVE  RunMoves
<1>1. CASE UNCHANGED allVars
  BY <1>1, Zenon DEF RunMoves, RunRests, allVars, vars
<1>2. CASE RunSteps
  BY <1>2, Zenon DEF RunSteps, RunMoves
<1>3. CASE StreamSteps \/ Disconnect
  BY <1>3, StreamStepsOfRun, Zenon DEF RunMoves, Next
<1>. QED  BY <1>1, <1>2, <1>3, Zenon DEF StreamNext

LEMMA ReceiptDamaged ==
  ASSUME RunTypeOK, DamageReceipt
  PROVE  /\ receipt' \in Receipts /\ ~receipt'.intact /\ receipt # NoReceipt /\ receipt' # NoReceipt
         /\ receipt'.status = receipt.status /\ receipt'.digest = receipt.digest
         /\ UNCHANGED <<ledgerVars, row, reserved, server, pc, intent, snapshot, softTimer, shield,
                        reconciling, live, history>>
<1>1. receipt \in Receipts /\ receipt # NoReceipt
  BY DEF DamageReceipt, RunTypeOK, NoReceipt
<1>2. receipt' = [receipt EXCEPT !.intact = FALSE]
  BY DEF DamageReceipt
<1>3. /\ receipt' \in Receipts /\ ~receipt'.intact
      /\ receipt'.status = receipt.status /\ receipt'.digest = receipt.digest
  BY <1>1, <1>2 DEF Receipts
<1>4. receipt' # NoReceipt
  BY <1>3 DEF Receipts, NoReceipt
<1>. QED  BY <1>1, <1>3, <1>4, Zenon DEF DamageReceipt

LEMMA DamagedInvNext == DamagedInv /\ RunMoves => DamagedInv'
<1>1. ASSUME DamagedInv, Next PROVE DamagedInv'
  BY <1>1, TaskStepKeepsSeal, FinalizerStepKeepsSeal, CancellationKeepsSeal, StartupStepKeepsSeal,
     ReconciliationKeepsSeal, Zenon DEF Next
<1>2. ASSUME DamagedInv, DamageReceipt PROVE DamagedInv'
  <2>. USE DEF DamagedInv
  <2>1. /\ receipt' \in Receipts /\ ~receipt'.intact /\ receipt # NoReceipt /\ receipt' # NoReceipt
        /\ receipt'.status = receipt.status /\ receipt'.digest = receipt.digest
        /\ UNCHANGED <<ledgerVars, row, reserved, server, pc, intent, snapshot, softTimer, shield,
                       reconciling, live, history>>
    BY <1>2, ReceiptDamaged
  <2>2. faults' = faults + 1 /\ UNCHANGED <<work, cancels, crashes>>
    BY <1>2 DEF DamageReceipt, Fault
  <2>3. RunTypeOK'
    BY <1>2, <2>1, <2>2 DEF RunTypeOK, history
  <2>4. Placed' /\ Hydrated'
    BY <1>2, <2>1, Zenon DEF Placed, Hydrated, Writing, ledgerVars
  <2>5. SealHolds'
    BY <1>2, <2>1 DEF SealHolds, Doubtful, history
  <2>. QED  BY <2>3, <2>4, <2>5
<1>3. ASSUME DamagedInv, RunRests PROVE DamagedInv'
  <2>. USE <1>3 DEF DamagedInv, RunRests, durable, ledgerVars, counters, history, Fault, Cancelling
  <2>1. RunTypeOK'
    BY DEF RunTypeOK
  <2>2. Placed' /\ Hydrated'
    BY Zenon DEF Placed, Hydrated, Writing
  <2>3. SealHolds'
    BY Zenon DEF SealHolds, Doubtful
  <2>. QED  BY <2>1, <2>2, <2>3
<1>. QED  BY <1>1, <1>2, <1>3 DEF RunMoves

LEMMA DamagedInvInit == StreamInit => DamagedInv
<1>. SUFFICES ASSUME StreamInit PROVE DamagedInv
  OBVIOUS
<1>1. RunInv
  BY RunInvInit DEF StreamInit
<1>2. /\ pc \in {"hydrate", "unstarted"} /\ server = "up" /\ snapshot = NoReceipt /\ receipt = NoReceipt
      /\ reconciling = NoReceipt /\ row.status = "queued"
  BY DEF StreamInit, Init
<1>3. SealHolds
  BY <1>2 DEF SealHolds, Decided, TaskPoints, FinalizerPoints, TERMINAL_STATUSES, Statuses
<1>. QED  BY <1>1, <1>3 DEF RunInv, DamagedInv

LEMMA AlwaysDamagedInv == StreamSpec => []DamagedInv
BY DamagedInvInit, DamagedInvNext, MovesOfRun, PTL DEF StreamSpec

\* The ledger knows nothing of all this.
LEMMA StreamImplementsLedger == StreamSpec => LedgerSpec
<1>1. StreamInit => LedgerInit
  BY DEF StreamInit, Init
<1>2. DamagedInv /\ RunMoves => [LedgerNext]_ledgerVars
  <2>1. DamageReceipt \/ RunRests => UNCHANGED ledgerVars
    BY Zenon DEF DamageReceipt, RunRests
  <2>. QED  BY <2>1, StepOfLedger, Zenon DEF RunMoves, DamagedInv
<1>. QED  BY <1>1, <1>2, AlwaysDamagedInv, MovesOfRun, PTL DEF StreamSpec, LedgerSpec

(***************************************************************************)
(* The end that a client was told.                                         *)
(***************************************************************************)
\* Doubt stays, and comes with a commit only.
LEMMA DoubtStays ==
  ASSUME RunMoves
  PROVE  doubted' = doubted \/ (doubted' = TRUE /\ CommitTerminal)
<1>1. CASE CommitTerminal
  BY <1>1 DEF CommitTerminal
<1>2. CASE TaskSteps \/ RecordWork \/ HardTimeout \/ SoftTimeoutFires \/ CancelTask
  BY <1>2, Zenon DEF TaskSteps, HydrateRun, EnterRunning, AppendStarted, RecordWork,
     TaskWriteEnds, TaskWriteFails, FinishWork, HardTimeout, LeaveInvestigation,
     SoftTimeoutFires, SoftTimeoutWriteEnds, StopSoftTimer, CancelTask, taskFrame, history
<1>3. CASE FinalizerSteps /\ ~CommitTerminal
  BY <1>3, Zenon DEF FinalizerSteps, ListEvents, AppendTerminal, TerminalWriteEnds, Seal,
     InterruptRun, ReleaseReservation, history
<1>4. CASE StartupSteps \/ Crash
  BY <1>4, Zenon DEF StartupSteps, Crash, StartupFails, ProcessDies, Restart, RecoverAtStartup,
     RehydrateAbandoned, FinishStartup, startupFrame, history
<1>5. CASE CancelShieldedTask \/ CancelFinalizer \/ ReconcileCancelled \/ ReconcileRead
           \/ ReconcileCommit \/ DamageReceipt \/ RunRests
  BY <1>5, Zenon DEF CancelShieldedTask, CancelFinalizer, ReconcileCancelled, ReconcileRead,
     ReconcileCommit, DamageReceipt, RunRests, requestFrame, history
<1>. QED  BY <1>1, <1>2, <1>3, <1>4, <1>5, Zenon DEF RunMoves, Next, Cancellations

\* A settled end stays: only an interruption that has a receipt is ever taken back, by that
\* receipt, or an end whose commit raised.
LEMMA SettledKeeps ==
  ASSUME DamagedInv, Settled, RunMoves
  PROVE  (Settled' /\ row'.status = row.status) \/ doubted'
<1>. USE DEF DamagedInv, Settled, SealHolds, Decided, TERMINAL_STATUSES, Statuses
<1>0. doubted => doubted'
  BY DoubtStays
<1>1. CASE TaskSteps \/ RecordWork \/ HardTimeout \/ SoftTimeoutFires
  BY <1>1 DEF TaskSteps, HydrateRun, EnterRunning, AppendStarted, RecordWork,
     TaskWriteEnds, TaskWriteFails, FinishWork, HardTimeout, LeaveInvestigation,
     SoftTimeoutFires, SoftTimeoutWriteEnds, StopSoftTimer, taskFrame, TaskPoints, FinalizerPoints,
     StartupPoints, Placed, RunTypeOK, Doubtful
<1>2. CASE ListEvents \/ AppendTerminal \/ TerminalWriteEnds \/ ReleaseReservation
  BY <1>2, Zenon DEF ListEvents, AppendTerminal, TerminalWriteEnds, ReleaseReservation, finalizerFrame,
     durable
<1>3. CASE Seal
  <2>1. pc = "seal" /\ receipt = NoReceipt /\ UNCHANGED <<row, reconciling>>
    BY <1>3 DEF Seal, finalizerFrame
  <2>2. server = "starting" /\ intent = "run.interrupted"
    BY <2>1 DEF Placed, RunTypeOK, FinalizerPoints, TaskPoints, StartupPoints, Doubtful
  <2>3. receipt' = receipt \/ receipt'.status = "interrupted"
    BY <1>3, <2>2, InterruptedStatus DEF Seal
  <2>. QED  BY <2>1, <2>3
<1>4. CASE CommitTerminal
  <2>1. pc = "commit" /\ UNCHANGED <<receipt, reconciling>>
    BY <1>4 DEF CommitTerminal, finalizerFrame
  <2>2. server = "starting" /\ snapshot.status = "interrupted" /\ row.status = "interrupted"
    BY <2>1 DEF Placed, RunTypeOK, FinalizerPoints, Doubtful
  <2>3. row' = row \/ row'.status = "interrupted"
    BY <1>4, <2>2 DEF CommitTerminal, Committed
  <2>. QED  BY <2>1, <2>2, <2>3
<1>5. CASE InterruptRun
  <2>1. pc = "interrupt" /\ UNCHANGED <<receipt, reconciling>>
    BY <1>5 DEF InterruptRun, finalizerFrame
  <2>2. row.status = "interrupted" \/ doubted
    BY <2>1 DEF Placed, RunTypeOK, FinalizerPoints, Doubtful
  <2>3. row' = row \/ row'.status = "interrupted"
    BY <1>5 DEF InterruptRun, Interrupted
  <2>. QED  BY <1>0, <2>1, <2>2, <2>3
<1>6. CASE RecoverAtStartup
  <2>1. /\ pc = "recover" /\ UNCHANGED reconciling
        /\ \/ receipt.intact /\ row' = Committed(receipt) /\ receipt' = receipt
           \/ receipt' = NoReceipt /\ row' = row
           \/ receipt' = receipt /\ row' = row
    BY <1>6 DEF RecoverAtStartup, Recoverable, startupFrame
  <2>2. row.status = "interrupted"
    BY <2>1 DEF Placed, RunTypeOK, StartupPoints
  <2>3. receipt.intact => receipt.status = "interrupted"
    BY <2>2 DEF RunTypeOK, Receipts, NoReceipt
  <2>. QED  BY <2>1, <2>2, <2>3 DEF Committed, NoReceipt
<1>7. CASE (StartupSteps \/ Crash) /\ ~RecoverAtStartup
  <2>1. /\ UNCHANGED receipt
        /\ UNCHANGED row \/ (server = "starting" /\ pc = "interrupt" /\ row' = Interrupted)
        /\ UNCHANGED reconciling \/ reconciling' = NoReceipt
    BY <1>7, Zenon DEF StartupSteps, Crash, StartupFails, ProcessDies, Restart,
       RehydrateAbandoned, FinishStartup, startupFrame, durable
  <2>2. pc = "interrupt" /\ server = "starting" => row.status = "interrupted"
    BY DEF FinalizerPoints
  <2>. QED  BY <2>1, <2>2 DEF NoReceipt, Interrupted
<1>8. CASE CancelTask
  <2>1. /\ pc \in TaskPoints /\ server = "up"
    BY <1>8 DEF CancelTask, Cancelling, TaskPoints
  <2>. QED  BY <2>1 DEF Doubtful, TaskPoints
<1>9. CASE CancelShieldedTask \/ RunRests \/ (UNCHANGED <<row, receipt, reconciling>>)
  BY <1>9, Zenon DEF CancelShieldedTask, RunRests, durable
<1>10. CASE CancelFinalizer
  <2>1. /\ server = "up" /\ pc \in FinalizerPoints /\ UNCHANGED <<receipt, reconciling>>
        /\ row' = row \/ pc = "commit" \/ pc = "interrupt"
    BY <1>10, Zenon DEF CancelFinalizer, Cancelling
  <2>2. row' = row \/ doubted
    BY <2>1 DEF FinalizerPoints, Doubtful
  <2>. QED  BY <1>0, <2>1, <2>2
<1>11. CASE ReconcileRead
  <2>1. /\ row' = row
        /\ \/ reconciling' = receipt /\ receipt.intact /\ UNCHANGED receipt
           \/ receipt' = NoReceipt /\ UNCHANGED reconciling
    BY <1>11 DEF ReconcileRead, Recoverable
  <2>. QED  BY <2>1 DEF NoReceipt
<1>12. CASE ReconcileCommit \/ ReconcileCancelled
  <2>1. /\ reconciling # NoReceipt /\ reconciling' = NoReceipt /\ UNCHANGED receipt
        /\ row' = row \/ row' = Committed(reconciling)
    BY <1>12 DEF ReconcileCommit, ReconcileCancelled
  <2>2. row.status = "interrupted" /\ reconciling.status = "interrupted"
    BY <2>1 DEF RunTypeOK, Receipts, NoReceipt
  <2>. QED  BY <2>1, <2>2 DEF Committed, NoReceipt
<1>13. CASE DamageReceipt
  BY <1>13, ReceiptDamaged
<1>. QED  BY <1>1, <1>2, <1>3, <1>4, <1>5, <1>6, <1>7, <1>8, <1>9, <1>10, <1>11, <1>12, <1>13
          DEF RunMoves, Next, FinalizerSteps, Cancellations

\* While the server is up, an interruption that was recorded is changed only by the receipt that is
\* being reconciled with it.
LEMMA InterruptedOnline ==
  ASSUME DamagedInv, RunMoves, server = "up", row.status = "interrupted"
  PROVE  \/ row' = row
         \/ reconciling # NoReceipt /\ row' = Committed(reconciling)
         \/ row.digest # 0 /\ row' = Interrupted
<1>1. /\ pc \notin TaskPoints \cup StartupPoints
      /\ pc \in FinalizerPoints => pc \in {"release", "mark"} \/ (pc = "interrupt" /\ row.digest # 0)
  BY DEF DamagedInv, SealHolds, Placed, Doubtful, TaskPoints, FinalizerPoints
<1>2. pc \notin {"admit", "commit", "recover"} /\ (pc = "interrupt" => row.digest # 0)
  BY <1>1 DEF TaskPoints, StartupPoints, FinalizerPoints
<1>3. CASE TaskSteps \/ RecordWork \/ HardTimeout \/ SoftTimeoutFires
  BY <1>2, <1>3 DEF TaskSteps, HydrateRun, EnterRunning, AppendStarted, RecordWork,
     TaskWriteEnds, TaskWriteFails, FinishWork, HardTimeout, LeaveInvestigation,
     SoftTimeoutFires, SoftTimeoutWriteEnds, StopSoftTimer, taskFrame
<1>4. CASE FinalizerSteps
  BY <1>2, <1>4 DEF FinalizerSteps, ListEvents, AppendTerminal, TerminalWriteEnds, Seal, CommitTerminal,
     InterruptRun, ReleaseReservation, durable
<1>5. CASE StartupSteps \/ Crash
  BY <1>2, <1>5 DEF StartupSteps, Crash, StartupFails, Restart, RecoverAtStartup,
     RehydrateAbandoned, FinishStartup, startupFrame, durable
<1>6. CASE Cancellations
  BY <1>2, <1>6 DEF Cancellations, CancelTask, CancelShieldedTask, CancelFinalizer, ReconcileCancelled,
     durable
<1>7. CASE ReconcileRead \/ ReconcileCommit \/ DamageReceipt \/ RunRests
  BY <1>7 DEF ReconcileRead, ReconcileCommit, DamageReceipt, RunRests, durable
<1>. QED  BY <1>3, <1>4, <1>5, <1>6, <1>7 DEF RunMoves, Next

\* While the server is up, a run that has ended has ended.
LEMMA EndedOnline ==
  ASSUME DamagedInv, RunMoves, server = "up", row.status \in Decided
  PROVE  row'.status \in TERMINAL_STATUSES
<1>. USE DEF DamagedInv, SealHolds, Decided, TERMINAL_STATUSES, Statuses
<1>1. pc \notin {"admit", "commit", "recover"} /\ reconciling = NoReceipt
  BY DEF Placed, TaskPoints, StartupPoints, FinalizerPoints, Doubtful
<1>2. CASE TaskSteps \/ RecordWork \/ HardTimeout \/ SoftTimeoutFires
  BY <1>1, <1>2 DEF TaskSteps, HydrateRun, EnterRunning, AppendStarted, RecordWork,
     TaskWriteEnds, TaskWriteFails, FinishWork, HardTimeout, LeaveInvestigation,
     SoftTimeoutFires, SoftTimeoutWriteEnds, StopSoftTimer, taskFrame
<1>3. CASE FinalizerSteps
  <2>1. row' = row \/ row' = Interrupted
    BY <1>1, <1>3, Zenon DEF FinalizerSteps, ListEvents, AppendTerminal, TerminalWriteEnds, Seal,
       CommitTerminal, InterruptRun, ReleaseReservation, durable
  <2>. QED  BY <2>1 DEF Interrupted
<1>4. CASE StartupSteps \/ Crash
  BY <1>1, <1>4 DEF StartupSteps, Crash, StartupFails, Restart, RecoverAtStartup,
     RehydrateAbandoned, FinishStartup, startupFrame, durable
<1>5. CASE Cancellations
  <2>1. row' = row \/ row' = Interrupted
    BY <1>1, <1>5, Zenon DEF Cancellations, CancelTask, CancelShieldedTask, CancelFinalizer,
       ReconcileCancelled, durable
  <2>. QED  BY <2>1 DEF Interrupted
<1>6. CASE ReconcileRead \/ ReconcileCommit \/ DamageReceipt \/ RunRests
  BY <1>1, <1>6 DEF ReconcileRead, ReconcileCommit, DamageReceipt, RunRests, durable
<1>. QED  BY <1>2, <1>3, <1>4, <1>5, <1>6 DEF RunMoves, Next

\* A server that is up stays up or goes down.
LEMMA ServerOnline ==
  ASSUME RunMoves, server = "up", Placed
  PROVE  server' \in {"up", "down"}
<1>1. CASE TaskSteps \/ RecordWork \/ HardTimeout \/ SoftTimeoutFires
  BY <1>1, Zenon DEF TaskSteps, HydrateRun, EnterRunning, AppendStarted, RecordWork,
     TaskWriteEnds, TaskWriteFails, FinishWork, HardTimeout, LeaveInvestigation,
     SoftTimeoutFires, SoftTimeoutWriteEnds, StopSoftTimer, taskFrame
<1>2. CASE FinalizerSteps
  BY <1>2, Zenon DEF FinalizerSteps, ListEvents, AppendTerminal, TerminalWriteEnds, Seal, CommitTerminal,
     InterruptRun, ReleaseReservation, finalizerFrame
<1>3. CASE StartupSteps \/ Crash
  BY <1>3 DEF StartupSteps, Crash, StartupFails, ProcessDies, Restart, RecoverAtStartup,
     RehydrateAbandoned, FinishStartup, startupFrame
<1>4. CASE Cancellations \/ ReconcileRead \/ ReconcileCommit \/ DamageReceipt \/ RunRests
  BY <1>4, Zenon DEF Cancellations, CancelTask, CancelShieldedTask, CancelFinalizer, ReconcileCancelled,
     ReconcileRead, ReconcileCommit, DamageReceipt, RunRests, requestFrame, taskFrame
<1>. QED  BY <1>1, <1>2, <1>3, <1>4, Zenon DEF RunMoves, Next

\* What the generator's steps do to the row it has read.
LEMMA SeenSteps ==
  ASSUME StreamSteps \/ Disconnect, at # "closed" => server = "up"
  PROVE  /\ UNCHANGED <<row, server, doubted>>
         /\ \/ at' = "closed" /\ seen' = NoRow
            \/ at' # "closed" /\ server = "up" /\ seen' \in {seen, NoRow, row}
<1>1. UNCHANGED <<row, server, doubted>>
  BY StreamStepsOfRun, Zenon DEF RunRests, ReconcileRead, requestFrame, durable, history
<1>2. CASE Connect \/ Poll \/ ReadIdleRow
  BY <1>1, <1>2 DEF Connect, Poll, ReadIdleRow
<1>3. CASE NextEvent
  BY <1>1, <1>3 DEF NextEvent, EndBatch, Close, Deliver, Advance
<1>4. CASE Decide
  BY <1>1, <1>4 DEF Decide, EndBatch, Close, Deliver, Skip, Advance
<1>5. CASE StreamReconciles \/ StreamReconciled
  BY <1>1, <1>5 DEF StreamReconciles, StreamReconciled, EndBatch, Close
<1>6. CASE CheckIdle
  BY <1>1, <1>6 DEF CheckIdle, EndBatch, Close
<1>7. CASE Disconnect
  BY <1>1, <1>7 DEF Disconnect, Close
<1>. QED  BY <1>2, <1>3, <1>4, <1>5, <1>6, <1>7 DEF StreamSteps

LEMMA SeenHoldsNext == DamagedInv /\ SeenHolds /\ [StreamNext]_allVars => SeenHolds'
<1>. SUFFICES ASSUME DamagedInv, SeenHolds, [StreamNext]_allVars PROVE SeenHolds'
  OBVIOUS
<1>0. RunMoves
  BY MovesOfRun
<1>1. ASSUME at' = "closed", seen' = NoRow PROVE SeenHolds'
  BY <1>1 DEF SeenHolds, NoRow, Decided, TERMINAL_STATUSES, Statuses, ReceiptlessInterruption
<1>2. ASSUME UNCHANGED streamVars, at # "closed", server' # "down" PROVE SeenHolds'
  <2>1. server = "up" /\ server' = "up" /\ UNCHANGED <<at, seen>>
    BY <1>0, <1>2, ServerOnline DEF SeenHolds, DamagedInv, streamVars
  <2>0. doubted => doubted'
    BY <1>0, DoubtStays
  <2>2. row.status \in Decided => row'.status = row.status \/ doubted'
    BY <1>0, SettledKeeps DEF Settled, Decided
  <2>3. row.status = "interrupted" => row'.status \in TERMINAL_STATUSES
    BY <1>0, <2>1, InterruptedOnline DEF DamagedInv, RunTypeOK, Committed, Interrupted, Receipts,
       TERMINAL_STATUSES, Statuses
  <2>4. ReceiptlessInterruption(row) => ReceiptlessInterruption(row')
    BY <1>0, <2>1, InterruptedOnline DEF ReceiptlessInterruption, DamagedInv, SealHolds
  <2>5. row.status \in TERMINAL_STATUSES => row'.status \in TERMINAL_STATUSES
    BY <1>0, <2>1, <2>3, EndedOnline DEF Decided
  <2>. QED  BY <2>0, <2>1, <2>2, <2>4, <2>5 DEF SeenHolds, ReceiptlessInterruption
<1>3. CASE RunSteps
  <2>1. CASE server' = "down"
    BY <1>1, <1>3, <2>1 DEF RunSteps, Close
  <2>2. CASE server' # "down"
    BY <1>1, <1>2, <1>3, <2>2 DEF RunSteps, SeenHolds, streamVars
  <2>. QED  BY <2>1, <2>2
<1>4. CASE StreamSteps \/ Disconnect
  <2>1. /\ UNCHANGED <<row, server, doubted>>
        /\ \/ at' = "closed" /\ seen' = NoRow
           \/ at' # "closed" /\ server = "up" /\ seen' \in {seen, NoRow, row}
    BY <1>4, SeenSteps DEF SeenHolds
  <2>2. CASE at' # "closed" /\ server = "up" /\ seen' \in {seen, NoRow, row}
    BY <2>1, <2>2 DEF SeenHolds, NoRow, Decided, TERMINAL_STATUSES, Statuses, ReceiptlessInterruption
  <2>. QED  BY <1>1, <2>1, <2>2
<1>5. CASE UNCHANGED allVars
  BY <1>5 DEF allVars, vars, history, streamVars, durable, SeenHolds, ReceiptlessInterruption
<1>. QED  BY <1>3, <1>4, <1>5 DEF StreamNext

(***************************************************************************)
(* The rows that a poll lists.                                             *)
(***************************************************************************)
\* Numbers start at 1, so a client that has nothing asks for everything.
Counted ==
    /\ \A i \in DOMAIN events : events[i].sequence > 0
    /\ Inserting("events") => sequence > 0

\* What one may know of the ledger whatever became of the receipt.
RowsHold == LedgerTypeOK /\ Numbered /\ Counted

\* A step adds at most one row, and numbers it above all the others.
LEMMA RowsGrow ==
  ASSUME RowsHold, [LedgerNext]_ledgerVars
  PROVE  \/ events' = events
         \/ /\ Inserting("events")
            /\ Row \in Event /\ Row.sequence = sequence
            /\ \A i \in DOMAIN events : events[i].sequence < Row.sequence
            /\ events' = Append(events, Row)
<1>1. (writing # NoWrite /\ Inserted) \/ events' = events
  BY Zenon DEF LedgerNext, Hydrate, Begin, AppendBegin, RecordBegin, WriteEnd, WriteAbort,
               LoseMemory, ledgerVars
<1>2. CASE writing # NoWrite /\ Inserted
  <2>1. writing.table = "events" \/ events' = events
    BY <1>2, InsertedTables, WriteIsTyped DEF RowsHold
  <2>2. CASE writing.table = "events"
    <3>1. Inserting("events") /\ events' = Append(events, Row) /\ Row \in Event
      BY <1>2, <2>2, InsertedTables, WriteIsTyped DEF RowsHold, Inserting
    <3>2. Row.sequence = sequence /\ \A i \in DOMAIN events : events[i].sequence < sequence
      BY <3>1 DEF RowsHold, Numbered, Row
    <3>. QED  BY <3>1, <3>2
  <2>. QED  BY <2>1, <2>2
<1>. QED  BY <1>1, <1>2

LEMMA CountedNext == RowsHold /\ [LedgerNext]_ledgerVars => Counted'
<1>. SUFFICES ASSUME RowsHold, [LedgerNext]_ledgerVars PROVE Counted'
  OBVIOUS
<1>1. \A i \in DOMAIN events' : events'[i].sequence > 0
  <2>1. CASE events' = events
    BY <2>1 DEF RowsHold, Counted
  <2>2. CASE /\ Inserting("events") /\ Row \in Event /\ Row.sequence = sequence
             /\ events' = Append(events, Row)
    <3>1. sequence > 0 /\ events \in Seq(Event)
      BY <2>2 DEF RowsHold, Counted, LedgerTypeOK
    <3>2. /\ Len(events) \in Nat /\ DOMAIN events = 1..Len(events)
          /\ DOMAIN events' = 1..(Len(events) + 1)
          /\ \A i \in 1..Len(events) : events'[i] = events[i]
          /\ events'[Len(events) + 1] = Row
      BY <2>2, <3>1, AppendedRows
    <3>3. \A i \in 1..Len(events) : events[i].sequence > 0
      BY <3>2 DEF RowsHold, Counted
    <3>4. ASSUME NEW i \in 1..(Len(events) + 1) PROVE events'[i].sequence > 0
      <4>1. CASE i = Len(events) + 1
        BY <2>2, <3>1, <3>2, <4>1
      <4>2. CASE i \in 1..Len(events)
        BY <3>2, <3>3, <4>2
      <4>. QED  BY <3>2, <4>1, <4>2
    <3>. QED  BY <3>2, <3>4
  <2>. QED  BY <2>1, <2>2, RowsGrow
<1>2. Inserting("events")' => sequence' > 0
  <2>0. sequence \in Nat
    BY DEF RowsHold, LedgerTypeOK
  <2>1. CASE \E w \in Writers, type \in EventTypes : Begin(w, type)
    <3>1. PICK w \in Writers, type \in EventTypes : AppendBegin(w, type) \/ RecordBegin(w, type)
      BY <2>1 DEF Begin
    <3>2. AppendBegin(w, type) => sequence' = sequence + 1
      BY DEF AppendBegin
    <3>3. RecordBegin(w, type) => writing'.table = "calls"
      BY DEF RecordBegin
    <3>. QED  BY <2>0, <3>1, <3>2, <3>3 DEF Inserting
  <2>2. CASE writing' = NoWrite
    BY <2>2 DEF Inserting
  <2>3. CASE ~current /\ Hydrate
    BY <2>3 DEF Hydrate, Inserting
  <2>4. CASE UNCHANGED ledgerVars
    BY <2>4 DEF ledgerVars, Inserting, RowsHold, Counted
  <2>. QED  BY <2>1, <2>2, <2>3, <2>4 DEF LedgerNext, WriteEnd, WriteAbort, LoseMemory
<1>. QED  BY <1>1, <1>2 DEF Counted

LEMMA AlwaysRowsHold == StreamSpec => []RowsHold
<1>1. LedgerInit => Counted
  BY DEF LedgerInit, Counted, Inserting
<1>2. LedgerInv => LedgerTypeOK /\ Numbered
  BY DEF LedgerInv
<1>3. LedgerSpec => []RowsHold
  BY <1>1, <1>2, CountedNext, LedgerInvariant, PTL DEF LedgerSpec, RowsHold
<1>. QED  BY <1>3, StreamImplementsLedger, PTL

\* The rows after a number are a suffix of the rows: there is a first of them, or none.
LEMMA FirstAfter ==
  ASSUME RowsHold, NEW n \in Nat
  PROVE  \E k \in 1..(Len(events) + 1) : \A i \in DOMAIN events : events[i].sequence > n <=> i >= k
<1>1. Len(events) \in Nat /\ DOMAIN events = 1..Len(events)
      /\ \A i \in DOMAIN events : events[i].sequence \in Nat
  BY RowsAreTyped DEF RowsHold
<1>. DEFINE After == {i \in 1..(Len(events) + 1) : i \in DOMAIN events => events[i].sequence > n}
<1>2. After \in SUBSET Nat /\ Len(events) + 1 \in After
  BY <1>1
<1>3. PICK k \in After : \A i \in After : k <= i
  BY <1>2, LeastNatural
<1>4. ASSUME NEW i \in DOMAIN events PROVE events[i].sequence > n <=> i >= k
  <2>1. events[i].sequence > n => i >= k
    BY <1>1, <1>3
  <2>2. CASE i = k
    BY <1>1, <1>3, <2>2
  <2>3. CASE i > k
    <3>1. k \in DOMAIN events /\ k < i
      BY <1>1, <2>3
    <3>2. events[k].sequence > n /\ events[k].sequence < events[i].sequence
      BY <1>3, <3>1 DEF RowsHold, Numbered
    <3>. QED  BY <1>1, <2>3, <3>1, <3>2
  <2>. QED  BY <1>1, <2>1, <2>2, <2>3
<1>. QED  BY <1>1, <1>3, <1>4

LEMMA ListedRows ==
  ASSUME RowsHold, NEW n \in Nat
  PROVE  /\ ListedAfter(n) \in Seq(Event)
         /\ \E k \in 1..(Len(events) + 1) :
               /\ k + Len(ListedAfter(n)) = Len(events) + 1
               /\ \A i \in DOMAIN ListedAfter(n) : ListedAfter(n)[i] = events[k + i - 1]
               /\ \A i \in DOMAIN events : events[i].sequence > n <=> i >= k
<1>. DEFINE First(k) == \A i \in DOMAIN events : events[i].sequence > n <=> i >= k
            first == CHOOSE k \in 1..(Len(events) + 1) : First(k)
<1>1. first \in 1..(Len(events) + 1) /\ First(first)
  BY FirstAfter
<1>2. ListedAfter(n) = SubSeq(events, first, Len(events))
  BY DEF ListedAfter
<1>3. events \in Seq(Event)
  BY DEF RowsHold, LedgerTypeOK
<1>. HIDE DEF first
<1>. DEFINE listed == SubSeq(events, first, Len(events))
<1>4. /\ listed \in Seq(Event) /\ Len(events) \in Nat
      /\ Len(listed) = Len(events) + 1 - first
      /\ \A i \in 1..Len(listed) : listed[i] = events[first + i - 1]
  BY <1>1, <1>3
<1>5. DOMAIN listed = 1..Len(listed) /\ first + Len(listed) = Len(events) + 1
  BY <1>1, <1>4
<1>. HIDE DEF listed
<1>6. ListedAfter(n) = listed
  BY <1>2 DEF listed
<1>. QED  BY <1>1, <1>4, <1>5, <1>6

(***************************************************************************)
(* The order of what a client receives.                                    *)
(***************************************************************************)
\* The rows of before are where they were, and a new one has a higher number.
Grown ==
    /\ events \in Seq(Event) /\ events' \in Seq(Event) /\ Len(events) <= Len(events')
    /\ \A i \in DOMAIN events : i \in DOMAIN events' /\ events'[i] = events[i]
    /\ \A i \in DOMAIN events' : i \notin DOMAIN events =>
          events'[i].sequence > 0 /\ \A j \in DOMAIN events : events[j].sequence < events'[i].sequence

LEMMA RowsKept ==
  ASSUME RowsHold, [LedgerNext]_ledgerVars
  PROVE  Grown
<1>1. events \in Seq(Event)
  BY DEF RowsHold, LedgerTypeOK
<1>2. CASE events' = events
  <2>1. Len(events) \in Nat
    BY <1>1
  <2>. QED  BY <1>1, <1>2, <2>1 DEF Grown
<1>3. CASE /\ Inserting("events") /\ Row \in Event /\ Row.sequence = sequence
           /\ \A i \in DOMAIN events : events[i].sequence < Row.sequence
           /\ events' = Append(events, Row)
  <2>1. /\ events' \in Seq(Event) /\ Len(events) \in Nat /\ DOMAIN events = 1..Len(events)
        /\ Len(events') = Len(events) + 1 /\ DOMAIN events' = 1..(Len(events) + 1)
        /\ \A i \in 1..Len(events) : events'[i] = events[i]
        /\ events'[Len(events) + 1] = Row
    BY <1>1, <1>3, AppendedRows
  <2>2. Row.sequence > 0
    BY <1>3 DEF RowsHold, Counted
  <2>3. ASSUME NEW i \in DOMAIN events', i \notin DOMAIN events
        PROVE  events'[i] = Row
    BY <2>1, <2>3
  <2>4. \A i \in DOMAIN events : i \in DOMAIN events' /\ events'[i] = events[i]
    BY <2>1
  <2>5. Len(events) <= Len(events')
    BY <2>1
  <2>. QED  BY <1>1, <1>3, <2>1, <2>2, <2>3, <2>4, <2>5, Zenon DEF Grown
<1>. QED  BY <1>2, <1>3, RowsGrow

\* Nothing new is below a number that was received.
LEMMA ReceivedStays ==
  ASSUME RowsHold, Grown, NEW n \in Nat, Received(n)
  PROVE  /\ n = 0 \/ \E i \in DOMAIN events' : events'[i].sequence = n
         /\ \A i \in DOMAIN events' :
               events'[i].sequence <= n => i \in DOMAIN events /\ events'[i] = events[i]
<1>0. events' \in Seq(Event)
  BY DEF Grown
<1>1. \A i \in DOMAIN events' : events'[i].sequence \in Nat
  <2>1. \A i \in DOMAIN events' : events'[i] \in Event
    BY <1>0
  <2>. QED  BY <2>1 DEF Event
<1>2. \A i \in DOMAIN events : i \in DOMAIN events' /\ events'[i] = events[i]
  BY DEF Grown
<1>3. n = 0 \/ \E i \in DOMAIN events : events[i].sequence = n
  BY DEF Received
<1>4. ASSUME NEW i \in DOMAIN events', i \notin DOMAIN events PROVE events'[i].sequence > n
  BY <1>1, <1>3, <1>4 DEF Grown
<1>5. ASSUME NEW i \in DOMAIN events', events'[i].sequence <= n PROVE i \in DOMAIN events
  BY <1>1, <1>4, <1>5
<1>. QED  BY <1>2, <1>3, <1>5

LEMMA LastIsTyped ==
  ASSUME delivered \in Seq(Event)
  PROVE  LastEventId \in Nat
<1>1. delivered # <<>> => Len(delivered) \in DOMAIN delivered /\ delivered[Len(delivered)] \in Event
  OBVIOUS
<1>. QED  BY <1>1 DEF LastEventId, Event

\* The parts of StreamOrder.
DeliveredRows ==
    /\ delivered \in Seq(Event)
    /\ \A i \in DOMAIN delivered : \E j \in DOMAIN events : events[j] = delivered[i]
    /\ \A i \in 2..Len(delivered) : delivered[i - 1].sequence < delivered[i].sequence
BatchFollows ==
    /\ at = "decide" => batch # <<>> /\ IsTerminal(Head(batch))
    /\ at \in {"event", "decide"} =>
          \E k \in 1..(Len(events) + 1) :
              /\ k + Len(batch) <= Len(events) + 1
              /\ \A i \in DOMAIN batch : batch[i] = events[k + i - 1]
              /\ \A i \in DOMAIN events : events[i].sequence > cursor <=> i >= k
CursorHolds ==
    /\ batch \in Seq(Event) /\ cursor \in Nat
    /\ at # "closed" => Received(cursor) /\ LastEventId <= cursor

LEMMA PartsOfStreamOrder ==
  StreamOrder <=> DeliveredRows /\ Received(LastEventId) /\ CursorHolds /\ BatchFollows
BY Zenon DEF StreamOrder, DeliveredRows, CursorHolds, BatchFollows

\* What the client has is not disturbed by what does not touch it.
LEMMA DeliveredRest ==
  ASSUME RowsHold, Grown, DeliveredRows, Received(LastEventId), UNCHANGED delivered
  PROVE  DeliveredRows' /\ Received(LastEventId)' /\ LastEventId' = LastEventId
<1>1. LastEventId' = LastEventId /\ LastEventId \in Nat
  BY LastIsTyped DEF LastEventId, DeliveredRows
<1>2. /\ LastEventId = 0 \/ \E i \in DOMAIN events' : events'[i].sequence = LastEventId
      /\ \A i \in DOMAIN events' :
            events'[i].sequence <= LastEventId => i \in DOMAIN events /\ events'[i] = events[i]
  BY <1>1, ReceivedStays
<1>3. DeliveredRows'
  BY Zenon DEF DeliveredRows, Grown
<1>4. Received(LastEventId)'
  BY <1>1, <1>2, Zenon DEF Received
<1>. QED  BY <1>1, <1>3, <1>4

\* While the generator rests its cursor and its batch stay good.
LEMMA GeneratorRests ==
  ASSUME RowsHold, Grown, StreamOrder, UNCHANGED <<at, cursor, batch, delivered>>
  PROVE  StreamOrder'
<1>. USE PartsOfStreamOrder
<1>1. DeliveredRows' /\ Received(LastEventId)' /\ LastEventId' = LastEventId
  BY DeliveredRest
<1>2. cursor \in Nat /\ batch \in Seq(Event)
  BY DEF CursorHolds
<1>3. ASSUME at # "closed"
      PROVE  /\ cursor = 0 \/ \E i \in DOMAIN events' : events'[i].sequence = cursor
             /\ \A i \in DOMAIN events' :
                   events'[i].sequence <= cursor => i \in DOMAIN events /\ events'[i] = events[i]
  BY <1>2, <1>3, ReceivedStays DEF CursorHolds
<1>4. at # "closed" => Received(cursor)'
  BY <1>3, Zenon DEF Received, CursorHolds
<1>5. CursorHolds'
  BY <1>1, <1>2, <1>4, Zenon DEF CursorHolds
<1>6. ASSUME at \in {"event", "decide"},
             NEW k \in 1..(Len(events) + 1), k + Len(batch) <= Len(events) + 1,
             \A i \in DOMAIN batch : batch[i] = events[k + i - 1],
             \A i \in DOMAIN events : events[i].sequence > cursor <=> i >= k
      PROVE  /\ k \in 1..(Len(events') + 1) /\ k + Len(batch) <= Len(events') + 1
             /\ \A i \in DOMAIN batch : batch[i] = events'[k + i - 1]
             /\ \A i \in DOMAIN events' : events'[i].sequence > cursor <=> i >= k
  <2>1. /\ Len(events) \in Nat /\ DOMAIN events = 1..Len(events)
        /\ Len(events') \in Nat /\ DOMAIN events' = 1..Len(events') /\ Len(events) <= Len(events')
        /\ Len(batch) \in Nat /\ DOMAIN batch = 1..Len(batch)
    BY <1>2 DEF Grown
  <2>2. ASSUME NEW i \in DOMAIN batch PROVE batch[i] = events'[k + i - 1]
    <3>1. k + i - 1 \in DOMAIN events
      BY <1>6, <2>1
    <3>. QED  BY <1>6, <3>1 DEF Grown
  <2>3. ASSUME NEW i \in DOMAIN events' PROVE events'[i].sequence > cursor <=> i >= k
    <3>1. CASE i \in DOMAIN events
      BY <1>6, <3>1 DEF Grown
    <3>2. CASE i \notin DOMAIN events
      <4>1. i >= k
        BY <1>6, <2>1, <3>2
      <4>2. events'[i].sequence \in Nat
        <5>1. events' \in Seq(Event)
          BY DEF Grown
        <5>2. events'[i] \in Event
          BY <5>1
        <5>. QED  BY <5>2 DEF Event
      <4>3. ~(events'[i].sequence <= cursor)
        BY <1>3, <1>6, <3>2
      <4>. QED  BY <1>2, <4>1, <4>2, <4>3
    <3>. QED  BY <3>1, <3>2
  <2>. QED  BY <1>6, <2>1, <2>2, <2>3
<1>7. BatchFollows'
  BY <1>6, Zenon DEF BatchFollows
<1>. QED  BY <1>1, <1>5, <1>7, Zenon DEF StreamOrder, DeliveredRows, CursorHolds, BatchFollows

\* A generator that ends, or polls again, has no batch.
LEMMA GeneratorLeaves ==
  ASSUME RowsHold, Grown, StreamOrder, UNCHANGED delivered, batch' = <<>>,
         \/ at' = "closed" /\ cursor' = 0
         \/ at' = "poll" /\ UNCHANGED cursor /\ at # "closed"
  PROVE  StreamOrder'
<1>. USE PartsOfStreamOrder
<1>1. DeliveredRows' /\ Received(LastEventId)' /\ LastEventId' = LastEventId
  BY DeliveredRest
<1>2. BatchFollows' /\ batch' \in Seq(Event) /\ cursor' \in Nat
  BY DEF BatchFollows, CursorHolds
<1>3. ASSUME at # "closed"
      PROVE  /\ cursor = 0 \/ \E i \in DOMAIN events' : events'[i].sequence = cursor
             /\ \A i \in DOMAIN events' :
                   events'[i].sequence <= cursor => i \in DOMAIN events /\ events'[i] = events[i]
  BY <1>3, ReceivedStays DEF CursorHolds
<1>4. at' # "closed" => Received(cursor)' /\ LastEventId' <= cursor'
  BY <1>1, <1>3, Zenon DEF Received, CursorHolds
<1>5. CursorHolds'
  BY <1>2, <1>4, Zenon DEF CursorHolds
<1>. QED  BY <1>1, <1>2, <1>5, Zenon DEF StreamOrder, DeliveredRows, CursorHolds, BatchFollows

\* The event at hand is the first row after the cursor, and those behind it are the next.
LEMMA HeadOfBatch ==
  ASSUME RowsHold, StreamOrder, at \in {"event", "decide"}, batch # <<>>
  PROVE  \E k \in DOMAIN events :
            /\ Head(batch) = events[k] /\ events[k] \in Event /\ Tail(batch) \in Seq(Event)
            /\ \A i \in DOMAIN events : events[i].sequence <= cursor <=> i < k
            /\ \A i \in DOMAIN events : events[i].sequence <= events[k].sequence <=> i <= k
            /\ k + 1 + Len(Tail(batch)) <= Len(events) + 1
            /\ \A i \in DOMAIN Tail(batch) : Tail(batch)[i] = events[(k + 1) + i - 1]
<1>1. /\ Len(events) \in Nat /\ DOMAIN events = 1..Len(events)
      /\ \A i \in DOMAIN events : events[i] \in Event /\ events[i].sequence \in Nat
  BY RowsAreTyped DEF RowsHold
<1>2. batch \in Seq(Event) /\ cursor \in Nat
  BY DEF StreamOrder
<1>3. /\ Len(batch) \in Nat \ {0} /\ DOMAIN batch = 1..Len(batch) /\ Head(batch) = batch[1]
      /\ Tail(batch) \in Seq(Event) /\ Len(Tail(batch)) = Len(batch) - 1
      /\ DOMAIN Tail(batch) = 1..(Len(batch) - 1)
      /\ \A i \in 1..(Len(batch) - 1) : Tail(batch)[i] = batch[i + 1]
  BY <1>2
<1>4. PICK k \in 1..(Len(events) + 1) :
              /\ k + Len(batch) <= Len(events) + 1
              /\ \A i \in DOMAIN batch : batch[i] = events[k + i - 1]
              /\ \A i \in DOMAIN events : events[i].sequence > cursor <=> i >= k
  BY DEF StreamOrder
<1>5. k \in DOMAIN events
  BY <1>1, <1>3, <1>4
<1>6. Head(batch) = events[k]
  <2>1. 1 \in DOMAIN batch /\ k + 1 - 1 = k
    BY <1>3, <1>4
  <2>. QED  BY <1>3, <1>4, <2>1
<1>7. \A i \in DOMAIN events : events[i].sequence <= cursor <=> i < k
  BY <1>1, <1>2, <1>4
<1>8. ASSUME NEW i \in DOMAIN events PROVE events[i].sequence <= events[k].sequence <=> i <= k
  <2>1. i < k => events[i].sequence < events[k].sequence
    BY <1>5 DEF RowsHold, Numbered
  <2>2. k < i => events[k].sequence < events[i].sequence
    BY <1>5 DEF RowsHold, Numbered
  <2>. QED  BY <1>1, <1>5, <2>1, <2>2
<1>9. ASSUME NEW i \in DOMAIN Tail(batch) PROVE Tail(batch)[i] = events[(k + 1) + i - 1]
  <2>1. i \in 1..(Len(batch) - 1) /\ i + 1 \in DOMAIN batch
    BY <1>3
  <2>2. Tail(batch)[i] = events[k + (i + 1) - 1] /\ k + (i + 1) - 1 = (k + 1) + i - 1
    BY <1>3, <1>4, <2>1
  <2>. QED  BY <2>2
<1>10. k + 1 + Len(Tail(batch)) <= Len(events) + 1
  BY <1>1, <1>3, <1>4
<1>. QED  BY <1>1, <1>3, <1>5, <1>6, <1>7, <1>8, <1>9, <1>10

\* An event is handled: it is delivered, or it is a terminal event that is passed over.
LEMMA EventHandled ==
  ASSUME RowsHold, StreamOrder, UNCHANGED events, at \in {"event", "decide"}, batch # <<>>,
         Deliver \/ (Skip /\ IsTerminal(Head(batch)))
  PROVE  StreamOrder'
<1>1. PICK k \in DOMAIN events :
            /\ Head(batch) = events[k] /\ events[k] \in Event /\ Tail(batch) \in Seq(Event)
            /\ \A i \in DOMAIN events : events[i].sequence <= cursor <=> i < k
            /\ \A i \in DOMAIN events : events[i].sequence <= events[k].sequence <=> i <= k
            /\ k + 1 + Len(Tail(batch)) <= Len(events) + 1
            /\ \A i \in DOMAIN Tail(batch) : Tail(batch)[i] = events[(k + 1) + i - 1]
  BY HeadOfBatch
<1>2. /\ Len(events) \in Nat /\ DOMAIN events = 1..Len(events)
      /\ \A i \in DOMAIN events : events[i] \in Event /\ events[i].sequence \in Nat
  BY RowsAreTyped DEF RowsHold
<1>3. cursor' = events[k].sequence /\ batch' = Tail(batch) /\ at' = "event"
  BY <1>1 DEF Deliver, Skip, Advance
<1>4. /\ DeliveredRows /\ Received(cursor) /\ Received(LastEventId)
      /\ LastEventId <= cursor /\ cursor \in Nat /\ LastEventId \in Nat
  BY LastIsTyped DEF StreamOrder, DeliveredRows
<1>5. cursor < events[k].sequence
  BY <1>1, <1>2, <1>4
<1>6. BatchFollows'
  <2>1. k + 1 \in 1..(Len(events) + 1)
    BY <1>2
  <2>2. \A i \in DOMAIN events : events[i].sequence > events[k].sequence <=> i >= k + 1
    BY <1>1, <1>2
  <2>. QED  BY <1>1, <1>3, <2>1, <2>2 DEF BatchFollows
<1>7. CASE Deliver
  <2>. DEFINE more == Append(delivered, events[k])
  <2>1. delivered' = more
    BY <1>1, <1>7 DEF Deliver
  <2>2. /\ delivered \in Seq(Event) /\ more \in Seq(Event) /\ Len(delivered) \in Nat
        /\ DOMAIN delivered = 1..Len(delivered) /\ DOMAIN more = 1..(Len(delivered) + 1)
        /\ Len(more) = Len(delivered) + 1
        /\ \A i \in 1..Len(delivered) : more[i] = delivered[i]
        /\ more[Len(delivered) + 1] = events[k]
        /\ more # <<>>
        /\ delivered = <<>> => Len(delivered) = 0
    BY <1>1, <1>4 DEF DeliveredRows
  <2>. HIDE DEF more
  <2>3. LastEventId' = events[k].sequence
    BY <2>1, <2>2 DEF LastEventId
  <2>4. DeliveredRows'
    <3>1. ASSUME NEW i \in 2..Len(more) PROVE more[i - 1].sequence < more[i].sequence
      <4>1. CASE i \in 2..Len(delivered)
        <5>1. i - 1 \in 1..Len(delivered) /\ i \in 1..Len(delivered)
          BY <2>2, <4>1
        <5>. QED  BY <1>4, <2>2, <4>1, <5>1 DEF DeliveredRows
      <4>2. CASE i = Len(delivered) + 1
        <5>1. i - 1 = Len(delivered) /\ Len(delivered) \in 1..Len(delivered) /\ delivered # <<>>
          BY <2>2, <3>1, <4>2
        <5>2. more[i - 1].sequence = LastEventId /\ more[i] = events[k]
          BY <2>2, <4>2, <5>1 DEF LastEventId
        <5>. QED  BY <1>2, <1>4, <1>5, <5>2
      <4>. QED  BY <2>2, <3>1, <4>1, <4>2
    <3>2. ASSUME NEW i \in DOMAIN more PROVE \E j \in DOMAIN events : events[j] = more[i]
      <4>1. CASE i \in 1..Len(delivered)
        BY <1>4, <2>2, <4>1 DEF DeliveredRows
      <4>2. CASE i = Len(delivered) + 1
        BY <2>2, <4>2
      <4>. QED  BY <2>2, <4>1, <4>2
    <3>. QED  BY <2>1, <2>2, <3>1, <3>2, Zenon DEF DeliveredRows
  <2>5. ASSUME NEW i \in DOMAIN events, events[i].sequence <= events[k].sequence, ~IsTerminal(events[i])
        PROVE  \E j \in DOMAIN more : more[j] = events[i]
    <3>1. CASE i < k
      <4>1. events[i].sequence <= cursor
        BY <1>1, <3>1
      <4>2. PICK j \in DOMAIN delivered : delivered[j] = events[i]
        BY <1>4, <2>5, <4>1 DEF Received
      <4>. QED  BY <2>2, <4>2
    <3>2. CASE i = k
      BY <2>2, <3>2
    <3>3. i <= k
      BY <1>1, <2>5
    <3>. QED  BY <1>2, <3>1, <3>2, <3>3
  <2>6. Received(LastEventId)' /\ Received(cursor)'
    BY <1>3, <2>1, <2>3, <2>5, Zenon DEF Received
  <2>7. CursorHolds'
    BY <1>1, <1>2, <1>3, <2>3, <2>6 DEF CursorHolds
  <2>. QED  BY <1>6, <2>4, <2>6, <2>7, Zenon DEF StreamOrder, DeliveredRows, CursorHolds, BatchFollows
<1>8. CASE Skip /\ IsTerminal(Head(batch))
  <2>1. UNCHANGED delivered
    BY <1>8 DEF Skip
  <2>2. DeliveredRows' /\ Received(LastEventId)' /\ LastEventId' = LastEventId
    BY <1>4, <2>1 DEF DeliveredRows, Received, LastEventId
  <2>3. ASSUME NEW i \in DOMAIN events, events[i].sequence <= events[k].sequence, ~IsTerminal(events[i])
        PROVE  \E j \in DOMAIN delivered : delivered[j] = events[i]
    <3>1. i # k /\ i <= k
      BY <1>1, <1>8, <2>3
    <3>2. events[i].sequence <= cursor
      BY <1>1, <1>2, <3>1
    <3>. QED  BY <1>4, <2>3, <3>2 DEF Received
  <2>4. Received(cursor)'
    BY <1>3, <2>1, <2>3, Zenon DEF Received
  <2>5. cursor' \in Nat /\ LastEventId' <= cursor'
    BY <1>2, <1>3, <1>4, <1>5, <2>2
  <2>6. CursorHolds'
    BY <1>1, <1>3, <2>4, <2>5, Zenon DEF CursorHolds
  <2>. QED  BY <1>6, <2>2, <2>6, Zenon DEF StreamOrder, DeliveredRows, CursorHolds, BatchFollows
<1>. QED  BY <1>7, <1>8

\* The rows that a poll lists follow the cursor.
LEMMA PollKeepsOrder ==
  ASSUME RowsHold, StreamOrder, Poll
  PROVE  StreamOrder'
<1>1. /\ UNCHANGED <<events, cursor, delivered>> /\ at = "poll"
      /\ batch' = ListedAfter(cursor) /\ at' \in {"idle", "event"}
  BY DEF Poll, vars, ledgerVars
<1>2. cursor \in Nat
  BY DEF StreamOrder
<1>3. /\ batch' \in Seq(Event)
      /\ \E k \in 1..(Len(events) + 1) :
               /\ k + Len(batch') = Len(events) + 1
               /\ \A i \in DOMAIN batch' : batch'[i] = events[k + i - 1]
               /\ \A i \in DOMAIN events : events[i].sequence > cursor <=> i >= k
  BY <1>1, <1>2, ListedRows, Zenon
<1>4. Len(events) \in Nat /\ Len(batch') \in Nat
  BY <1>3 DEF RowsHold, LedgerTypeOK
<1>5. \A k \in 1..(Len(events) + 1) :
         k + Len(batch') = Len(events) + 1 => k + Len(batch') <= Len(events) + 1
  BY <1>4
<1>6. BatchFollows'
  BY <1>1, <1>3, <1>5 DEF BatchFollows
<1>7. /\ DeliveredRows' /\ Received(LastEventId)' /\ Received(cursor)' /\ cursor' \in Nat
      /\ LastEventId' <= cursor'
  BY <1>1, <1>2 DEF StreamOrder, DeliveredRows, Received, LastEventId
<1>. QED  BY <1>3, <1>6, <1>7, Zenon DEF StreamOrder, DeliveredRows, CursorHolds, BatchFollows

LEMMA StreamOrderNext ==
  ASSUME RowsHold, StreamOrder, [StreamNext]_allVars, [LedgerNext]_ledgerVars
  PROVE  StreamOrder'
<1>1. Grown
  BY RowsKept
<1>2. CASE UNCHANGED streamVars
  BY <1>1, <1>2, GeneratorRests DEF streamVars
<1>3. CASE Close
  BY <1>1, <1>3, GeneratorLeaves DEF Close
<1>4. CASE EndBatch /\ at # "closed"
  BY <1>1, <1>3, <1>4, GeneratorLeaves DEF EndBatch
<1>5. CASE Connect
  <2>1. /\ at' = "poll" /\ cursor' = LastEventId
        /\ UNCHANGED <<events, batch, delivered>>
    BY <1>5 DEF Connect, vars, ledgerVars
  <2>2. DeliveredRows' /\ Received(LastEventId)' /\ LastEventId' = LastEventId /\ LastEventId \in Nat
    BY <1>1, <2>1, DeliveredRest, LastIsTyped DEF StreamOrder, DeliveredRows
  <2>3. CursorHolds'
    <3>1. LastEventId' <= cursor'
      BY <2>1, <2>2
    <3>2. Received(cursor)'
      BY <2>1, <2>2 DEF Received
    <3>3. batch' \in Seq(Event)
      BY <2>1 DEF StreamOrder
    <3>. QED  BY <2>1, <2>2, <3>1, <3>2, <3>3, Zenon DEF CursorHolds
  <2>4. BatchFollows'
    BY <2>1 DEF BatchFollows
  <2>. QED  BY <2>2, <2>3, <2>4, Zenon DEF StreamOrder, DeliveredRows, CursorHolds, BatchFollows
<1>6. CASE Poll
  BY <1>6, PollKeepsOrder
<1>7. CASE NextEvent
  <2>1. UNCHANGED events /\ at = "event"
    BY <1>7 DEF NextEvent, vars, ledgerVars
  <2>2. CASE batch # <<>> /\ Deliver
    BY <2>1, <2>2, EventHandled
  <2>3. CASE /\ batch # <<>> /\ IsTerminal(Head(batch)) /\ at' = "decide"
             /\ UNCHANGED <<cursor, batch, delivered>>
    BY <2>1, <2>3 DEF StreamOrder, Received, LastEventId
  <2>. QED  BY <1>4, <1>7, <2>1, <2>2, <2>3 DEF NextEvent
<1>8. CASE Decide
  <2>1. at = "decide"
    BY <1>8 DEF Decide
  <2>2. CASE (Deliver \/ Skip) /\ UNCHANGED vars
    <3>1. batch # <<>> /\ IsTerminal(Head(batch)) /\ UNCHANGED events
      BY <2>1, <2>2 DEF StreamOrder, vars, ledgerVars
    <3>. QED  BY <2>1, <2>2, <3>1, EventHandled
  <2>3. CASE at' = "reconcile" /\ UNCHANGED <<vars, cursor, batch, seen, sent, delivered>>
    BY <2>1, <2>3 DEF StreamOrder, Received, LastEventId, vars, ledgerVars
  <2>. QED  BY <1>3, <1>4, <1>8, <2>1, <2>2, <2>3, Zenon DEF Decide
<1>9. CASE StreamReconciles
  <2>1. at = "reconcile"
    BY <1>9 DEF StreamReconciles
  <2>2. CASE at' = "committing" /\ UNCHANGED <<cursor, batch, delivered>> /\ UNCHANGED events
    BY <2>1, <2>2 DEF StreamOrder, Received, LastEventId
  <2>3. UNCHANGED events
    BY <1>9, StreamStepsOfRun, Zenon DEF StreamSteps, RunRests, ReconcileRead, requestFrame, ledgerVars
  <2>. QED  BY <1>3, <1>4, <1>9, <2>1, <2>2, <2>3 DEF StreamReconciles
<1>10. CASE StreamReconciled
  BY <1>4, <1>10 DEF StreamReconciled
<1>11. CASE ReadIdleRow
  BY <1>11 DEF ReadIdleRow, StreamOrder, Received, LastEventId, vars, ledgerVars
<1>12. CASE CheckIdle
  BY <1>3, <1>4, <1>12 DEF CheckIdle
<1>13. CASE Disconnect
  BY <1>3, <1>13 DEF Disconnect
<1>14. CASE RunSteps
  BY <1>2, <1>3, <1>14 DEF RunSteps
<1>15. CASE UNCHANGED allVars
  BY <1>2, <1>15 DEF allVars
<1>. QED  BY <1>5, <1>6, <1>7, <1>8, <1>9, <1>10, <1>11, <1>12, <1>13, <1>14, <1>15, Zenon
          DEF StreamNext, StreamSteps

(***************************************************************************)
(* The two theorems about the event stream.                                *)
(***************************************************************************)
\* A terminal event is delivered only on the word of the row that was read.
LEMMA DeliveredSteps ==
  ASSUME StreamOrder, [StreamNext]_allVars
  PROVE  \/ delivered' = delivered
         \/ /\ delivered' = Append(delivered, Head(batch)) /\ Head(batch) \in Event
            /\ \/ ~IsTerminal(Head(batch))
               \/ /\ UNCHANGED vars
                  /\ ReceiptlessInterruption(seen) \/ (ReceiptBacked(seen) /\ Ready(seen))
                  /\ Head(batch).type \in TerminalEvents(seen.status)
<1>0. batch # <<>> => Head(batch) \in Event
  BY DEF StreamOrder
<1>1. CASE NextEvent
  BY <1>0, <1>1 DEF NextEvent, EndBatch, Close, Deliver
<1>2. CASE Decide
  <2>1. batch # <<>>
    BY <1>2 DEF Decide, StreamOrder
  <2>2. CASE /\ ReceiptlessInterruption(seen) \/ (ReceiptBacked(seen) /\ Ready(seen))
             /\ IF Head(batch).type \in TerminalEvents(seen.status) THEN Deliver ELSE Skip
             /\ UNCHANGED vars
    BY <1>0, <2>1, <2>2, Zenon DEF Deliver, Skip
  <2>. QED  BY <1>2, <2>2, Zenon DEF Decide, EndBatch, Close
<1>3. CASE Connect \/ Poll \/ StreamReconciles \/ StreamReconciled \/ ReadIdleRow \/ CheckIdle \/ Disconnect
  BY <1>3, Zenon DEF Connect, Poll, StreamReconciles, StreamReconciled, ReadIdleRow, CheckIdle, Disconnect,
     EndBatch, Close
<1>4. CASE RunSteps \/ UNCHANGED allVars
  BY <1>4 DEF RunSteps, Close, streamVars, allVars
<1>. QED  BY <1>1, <1>2, <1>3, <1>4, Zenon DEF StreamNext, StreamSteps

\* When it is delivered the end is settled, and it is the end the row had when it was read, unless
\* the commit of that end raised.
LEMMA SettledWhenTold ==
  ASSUME DamagedInv, SeenHolds, ReceiptlessInterruption(seen) \/ (ReceiptBacked(seen) /\ Ready(seen))
  PROVE  (Settled /\ row.status = seen.status) \/ doubted
<1>0. reconciling # NoReceipt => reconciling.status = receipt.status /\ row.digest # 0
  BY DEF DamagedInv, SealHolds
<1>1. CASE ReceiptlessInterruption(seen)
  <2>1. ReceiptlessInterruption(row) /\ seen.status = "interrupted"
    BY <1>1 DEF SeenHolds, ReceiptlessInterruption
  <2>2. receipt.status \in {"none", "interrupted"} \/ ~receipt.intact
    BY <2>1 DEF DamagedInv, SealHolds, ReceiptlessInterruption
  <2>3. reconciling = NoReceipt
    BY <1>0, <2>1 DEF ReceiptlessInterruption
  <2>. QED  BY <2>1, <2>2, <2>3 DEF Settled, ReceiptlessInterruption, TERMINAL_STATUSES, Statuses, NoReceipt
<1>2. CASE ReceiptBacked(seen) /\ Ready(seen)
  <2>1. seen.status \in TERMINAL_STATUSES /\ receipt.status = seen.status
    BY <1>2 DEF ReceiptBacked, Ready
  <2>2. CASE seen.status # "interrupted"
    BY <2>1, <2>2 DEF SeenHolds, Decided, Settled
  <2>3. CASE seen.status = "interrupted"
    <3>1. row.status = "interrupted"
      BY <2>1, <2>3 DEF SeenHolds, DamagedInv, SealHolds, Decided
    <3>. QED  BY <1>0, <2>1, <2>3, <3>1 DEF Settled, NoReceipt
  <2>. QED  BY <2>2, <2>3
<1>. QED  BY <1>1, <1>2

\* The inductive invariant: the run's part of it, and the generator's.
StreamInv ==
    /\ DamagedInv /\ RowsHold /\ SeenHolds /\ StreamOrder
    /\ EndIsSettled /\ DeliveredEndIsFinal

LEMMA EndStaysTold ==
  ASSUME StreamInv, [StreamNext]_allVars
  PROVE  EndIsSettled' /\ DeliveredEndIsFinal'
<1>. USE DEF StreamInv
<1>. SUFFICES ASSUME ~doubted' PROVE EndIsSettled' /\ DeliveredEndIsFinal'
  BY Zenon DEF EndIsSettled, DeliveredEndIsFinal
<1>0. RunMoves /\ delivered \in Seq(Event) /\ ~doubted
  <2>1. RunMoves
    BY MovesOfRun
  <2>2. ~doubted
    BY <2>1, DoubtStays
  <2>. QED  BY <2>1, <2>2 DEF StreamOrder
<1>1. Informed => Settled' /\ row'.status = row.status
  BY <1>0, SettledKeeps DEF EndIsSettled
<1>2. ASSUME NEW i \in DOMAIN delivered, IsTerminal(delivered[i])
      PROVE  Settled' /\ delivered[i].type \in TerminalEvents(row'.status)
  <2>1. Informed
    BY <1>2 DEF Informed
  <2>. QED  BY <1>0, <1>1, <1>2, <2>1 DEF DeliveredEndIsFinal
<1>3. CASE delivered' = delivered
  BY <1>2, <1>3 DEF EndIsSettled, Informed, DeliveredEndIsFinal
<1>4. CASE delivered' # delivered
  <2>1. /\ delivered' = Append(delivered, Head(batch)) /\ Head(batch) \in Event
        /\ \/ ~IsTerminal(Head(batch))
           \/ /\ UNCHANGED vars
              /\ ReceiptlessInterruption(seen) \/ (ReceiptBacked(seen) /\ Ready(seen))
              /\ Head(batch).type \in TerminalEvents(seen.status)
    BY <1>4, DeliveredSteps
  <2>2. IsTerminal(Head(batch)) => Settled' /\ Head(batch).type \in TerminalEvents(row'.status)
    <3>1. SUFFICES ASSUME IsTerminal(Head(batch))
                   PROVE  Settled' /\ Head(batch).type \in TerminalEvents(row'.status)
      OBVIOUS
    <3>2. UNCHANGED <<row, receipt, reconciling>>
      BY <2>1, <3>1, Zenon DEF vars, durable
    <3>3. Settled /\ row.status = seen.status
      BY <1>0, <2>1, <3>1, SettledWhenTold
    <3>4. Settled'
      BY <3>2, <3>3, Zenon DEF Settled
    <3>. QED  BY <2>1, <3>1, <3>2, <3>3, <3>4
  <2>3. /\ Len(delivered) \in Nat /\ DOMAIN delivered = 1..Len(delivered)
        /\ DOMAIN delivered' = 1..(Len(delivered) + 1)
        /\ \A i \in 1..Len(delivered) : delivered'[i] = delivered[i]
        /\ delivered'[Len(delivered) + 1] = Head(batch)
    BY <1>0, <2>1
  <2>4. ASSUME NEW i \in DOMAIN delivered', IsTerminal(delivered'[i])
        PROVE  Settled' /\ delivered'[i].type \in TerminalEvents(row'.status)
    <3>1. CASE i \in 1..Len(delivered)
      BY <1>2, <2>3, <2>4, <3>1
    <3>2. CASE i = Len(delivered) + 1
      BY <2>2, <2>3, <2>4, <3>2
    <3>. QED  BY <2>3, <3>1, <3>2
  <2>. QED  BY <2>4, Zenon DEF EndIsSettled, Informed, DeliveredEndIsFinal
<1>. QED  BY <1>3, <1>4

LEMMA StreamInvInit == StreamInit => SeenHolds /\ StreamOrder /\ EndIsSettled /\ DeliveredEndIsFinal
<1>. SUFFICES ASSUME StreamInit PROVE SeenHolds /\ StreamOrder /\ EndIsSettled /\ DeliveredEndIsFinal
  OBVIOUS
<1>1. /\ at = "closed" /\ cursor = 0 /\ batch = <<>> /\ delivered = <<>> /\ seen = NoRow /\ events = <<>>
  BY DEF StreamInit, Init, LedgerInit
<1>2. SeenHolds
  BY <1>1 DEF SeenHolds, NoRow, Decided, TERMINAL_STATUSES, Statuses, ReceiptlessInterruption
<1>3. StreamOrder
  BY <1>1 DEF StreamOrder, Received, LastEventId
<1>4. EndIsSettled /\ DeliveredEndIsFinal
  BY <1>1 DEF EndIsSettled, Informed, DeliveredEndIsFinal
<1>. QED  BY <1>2, <1>3, <1>4

THEOREM StreamInvariant == StreamSpec => []StreamInv
<1>1. StreamInit => SeenHolds /\ StreamOrder /\ EndIsSettled /\ DeliveredEndIsFinal
  BY StreamInvInit
<1>2. StreamInv /\ [StreamNext]_allVars /\ [LedgerNext]_ledgerVars
        => SeenHolds' /\ StreamOrder' /\ EndIsSettled' /\ DeliveredEndIsFinal'
  BY SeenHoldsNext, StreamOrderNext, EndStaysTold DEF StreamInv
<1>3. StreamSpec => [][StreamNext]_allVars /\ [][LedgerNext]_ledgerVars
  BY StreamImplementsLedger, PTL DEF StreamSpec, LedgerSpec
<1>. QED  BY <1>1, <1>2, <1>3, AlwaysDamagedInv, AlwaysRowsHold, PTL DEF StreamSpec, StreamInv

\* The end a client was told is the end the run has from then on, although the row it was judged by
\* may be out of date, the receipt may be damaged, unlinked or sealed again, and the process may die
\* at any point.
THEOREM DeliveredEndStaysFinal == StreamSpec => []DeliveredEndIsFinal
BY StreamInvariant, PTL DEF StreamInv

\* Whatever connections are lost and whatever the ledger lost, a client receives the run's events in
\* order, none twice and, but for terminal ones, none left out.
THEOREM DeliveredStaysInOrder == StreamSpec => []DeliveredInOrder
<1>1. StreamInv => DeliveredInOrder
  <2>. SUFFICES ASSUME StreamInv PROVE DeliveredInOrder
    OBVIOUS
  <2>1. delivered \in Seq(Event) /\ Received(LastEventId)
    BY DEF StreamInv, StreamOrder
  <2>2. \A i \in DOMAIN events : events[i].sequence < LastEventId => events[i].sequence <= LastEventId
    BY <2>1, RowsAreTyped, LastIsTyped DEF StreamInv, RowsHold
  <2>3. \A i \in 2..Len(delivered) : delivered[i - 1].sequence < delivered[i].sequence
    BY DEF StreamInv, StreamOrder
  <2>. QED  BY <2>1, <2>2, <2>3, Zenon DEF DeliveredInOrder, Received
<1>. QED  BY <1>1, StreamInvariant, PTL
=============================================================================
