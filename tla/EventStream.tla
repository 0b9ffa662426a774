----------------------------- MODULE EventStream -----------------------------
(***************************************************************************)
(* GET /api/runs/{run_id}/events (main.py run_events) over a run that is   *)
(* being executed, finalized, recovered or reconciled: a generator that    *)
(* polls the ledger from a cursor and must not let a terminal event out    *)
(* before, or against, the durable status of the run; and the client that  *)
(* reconnects with Last-Event-ID until it has received one.                *)
(*                                                                         *)
(* The delay between polls and the back-off after a failed reconciliation  *)
(* only make a step come later, so they are left out.                      *)
(***************************************************************************)
EXTENDS RunLifecycle

VARIABLES
    at,         \* where the generator awaits
    cursor,
    batch,      \* the events of the last poll it has not handled yet
    seen,       \* the row it read, which may be stale by the time it is used (else NoRow)
    sent,       \* terminal_sent
    delivered   \* what the client has received, over all its connections

streamVars == <<at, cursor, batch, seen, sent, delivered>>
allVars == <<vars, streamVars>>

NoRow == [status |-> "queued", digest |-> 0]

\* The client has the run's id from create_run.
StreamInit ==
    /\ Init /\ Entered
    /\ at = "closed" /\ cursor = 0 /\ sent = FALSE
    /\ batch = <<>> /\ delivered = <<>> /\ seen = NoRow

IsTerminal(event) == event.type \in TERMINAL_EVENT_TYPES
LastEventId == IF delivered = <<>> THEN 0 ELSE delivered[Len(delivered)].sequence
Informed == \E i \in DOMAIN delivered : IsTerminal(delivered[i])

(***************************************************************************)
(* _terminal_delivery_state and _receipt_reconciliation_state, the latter  *)
(* judging a row read earlier against the file as it is now.               *)
(***************************************************************************)
ReceiptBacked(r) == r.status \in TERMINAL_STATUSES /\ r.digest # 0
ReceiptlessInterruption(r) == r.status = "interrupted" /\ r.digest = 0
Uncommitted(r) == ~ReceiptBacked(r) /\ ~ReceiptlessInterruption(r)

Invalid(r) == ~receipt.intact \/ receipt.digest # r.digest
\* Mutant: any receipt with the row's digest will do.
ReadyByDigest(r) == ~Invalid(r)
Ready(r) == ~Invalid(r) /\ receipt.status = r.status

(***************************************************************************)
(* The generator.                                                          *)
(***************************************************************************)
\* The generator ends, and its local variables with it.
Close ==
    /\ at' = "closed" /\ cursor' = 0 /\ batch' = <<>> /\ seen' = NoRow /\ sent' = FALSE
    /\ UNCHANGED delivered

\* The loop over the batch ends: after a terminal event so does the stream.
EndBatch ==
    IF sent THEN Close
    ELSE /\ at' = "poll" /\ batch' = <<>> /\ seen' = NoRow
         /\ UNCHANGED <<cursor, sent, delivered>>

Advance == cursor' = Head(batch).sequence /\ batch' = Tail(batch) /\ at' = "event" /\ seen' = NoRow
Deliver ==
    /\ Advance
    /\ delivered' = Append(delivered, Head(batch))
    /\ sent' = IsTerminal(Head(batch))
Skip == Advance /\ UNCHANGED <<delivered, sent>>

\* Mutant: starts at the end of the ledger.
ConnectAtTail ==
    /\ at = "closed" /\ server = "up" /\ ~Informed
    /\ at' = "poll" /\ cursor' = Len(events)
    /\ UNCHANGED <<vars, batch, seen, sent, delivered>>

Connect ==
    /\ at = "closed" /\ server = "up" /\ ~Informed
    /\ at' = "poll" /\ cursor' = LastEventId
    /\ UNCHANGED <<vars, batch, seen, sent, delivered>>

\* list_events: the rows after a number, which are the last ones, the rows being in key order.
ListedAfter(n) ==
    LET first == CHOOSE k \in 1..(Len(events) + 1) :
                     \A i \in DOMAIN events : events[i].sequence > n <=> i >= k
    IN  SubSeq(events, first, Len(events))

\* Mutant: the event at the cursor is listed again.
PollFromCursor ==
    /\ at = "poll"
    /\ batch' = ListedAfter(IF cursor = 0 THEN 0 ELSE cursor - 1)
    /\ at' = IF batch' = <<>> THEN "idle" ELSE "event"
    /\ sent' = FALSE
    /\ UNCHANGED <<vars, cursor, seen, delivered>>

Poll ==
    /\ at = "poll"
    /\ batch' = ListedAfter(cursor)
    /\ at' = IF batch' = <<>> THEN "idle" ELSE "event"
    /\ sent' = FALSE
    /\ UNCHANGED <<vars, cursor, seen, delivered>>

NextEvent ==
    /\ at = "event"
    /\ \/ batch = <<>> /\ EndBatch
       \/ batch # <<>> /\ ~IsTerminal(Head(batch)) /\ Deliver
       \/ /\ batch # <<>> /\ IsTerminal(Head(batch))
          /\ seen' = row /\ at' = "decide"
          /\ UNCHANGED <<cursor, batch, sent, delivered>>
    /\ UNCHANGED vars

\* The file could not be read just now.
ReadFault == Fault /\ UNCHANGED <<ledgerVars, durable, server, pc, intent, snapshot, softTimer,
                                  shield, reconciling, live, history>>

Decide ==
    /\ at = "decide"
    /\ \/ Uncommitted(seen) /\ EndBatch /\ UNCHANGED vars
       \/ ReceiptBacked(seen) /\ ReadFault /\ EndBatch
       \/ ReceiptBacked(seen) /\ Invalid(seen) /\ Close /\ UNCHANGED vars
       \/ /\ ReceiptBacked(seen) /\ ~Invalid(seen) /\ ~Ready(seen)
          /\ at' = "reconcile"
          /\ UNCHANGED <<vars, cursor, batch, seen, sent, delivered>>
       \/ /\ ReceiptlessInterruption(seen) \/ (ReceiptBacked(seen) /\ Ready(seen))
          /\ IF Head(batch).type \in TerminalEvents(seen.status) THEN Deliver ELSE Skip
          /\ UNCHANGED vars

\* service.reconcile_pending_receipt, which reads the row again under its lock.
StreamReconciles ==
    /\ at = "reconcile" /\ reconciling = NoReceipt
    /\ \/ row.status # "interrupted" /\ EndBatch /\ UNCHANGED vars
       \/ row.status = "interrupted" /\ receipt = NoReceipt /\ Close /\ UNCHANGED vars
       \/ ReconcileRead /\ ~Recoverable /\ Close
       \/ /\ ReconcileRead /\ Recoverable
          /\ at' = "committing"
          /\ UNCHANGED <<cursor, batch, seen, sent, delivered>>
       \/ row.status = "interrupted" /\ receipt # NoReceipt /\ ReadFault /\ EndBatch

StreamReconciled == at = "committing" /\ reconciling = NoReceipt /\ EndBatch /\ UNCHANGED vars

\* Nothing new: a stream that is past the end of a settled run closes without another word.
ReadIdleRow ==
    /\ at = "idle"
    /\ seen' = row /\ at' = "check"
    /\ UNCHANGED <<vars, cursor, batch, sent, delivered>>

CheckIdle ==
    /\ at = "check"
    /\ \/ ReceiptlessInterruption(seen) /\ Close /\ UNCHANGED vars
       \/ ReceiptBacked(seen) /\ (Ready(seen) \/ Invalid(seen)) /\ Close /\ UNCHANGED vars
       \/ ReceiptBacked(seen) /\ ~Ready(seen) /\ ~Invalid(seen) /\ EndBatch /\ UNCHANGED vars
       \/ ReceiptBacked(seen) /\ ReadFault /\ EndBatch
       \/ Uncommitted(seen) /\ EndBatch /\ UNCHANGED vars

\* The connection is lost, or the client goes away for a while.
Disconnect ==
    /\ at # "closed" /\ Cancelling /\ Close
    /\ UNCHANGED <<ledgerVars, durable, server, pc, intent, snapshot, softTimer, shield,
                   reconciling, live, history>>

StreamSteps ==
    \/ Connect \/ Poll \/ NextEvent \/ Decide \/ StreamReconciles \/ StreamReconciled
    \/ ReadIdleRow \/ CheckIdle

\* The run goes on meanwhile; when the process dies so does the stream.
RunSteps ==
    /\ Next \/ DamageReceipt
    /\ IF server' = "down" THEN Close ELSE UNCHANGED streamVars

StreamNext == RunSteps \/ StreamSteps \/ Disconnect

StreamSpec == StreamInit /\ [][StreamNext]_allVars
FairStreamSpec == StreamSpec /\ Fairness /\ WF_allVars(StreamSteps)

(***************************************************************************)
(* Properties.                                                             *)
(***************************************************************************)
\* A terminal event that a client has received is the event of the run's durable status, from
\* then on: no stale row, reconciliation, interrupted finalization, crash or restart makes the
\* stream announce an end the run does not keep (main.py:342-392).  A commit that raised although
\* it was durable is the exception: the finalizer interrupts a run that has ended (service.py:769).
DeliveredEndIsFinal ==
    doubted \/ \A i \in DOMAIN delivered :
        IsTerminal(delivered[i]) => delivered[i].type \in TerminalEvents(row.status)

\* Over all its connections a client receives the run's events in order, none twice, and none
\* that precedes one it received is missing but terminal events the run did not keep
\* (main.py:314, 383-390).
DeliveredInOrder ==
    /\ \A i \in 2..Len(delivered) : delivered[i - 1].sequence < delivered[i].sequence
    /\ \A i \in DOMAIN events :
          events[i].sequence < LastEventId /\ ~IsTerminal(events[i]) =>
              \E j \in DOMAIN delivered : delivered[j] = events[i]

\* A client that keeps reconnecting is told how the run ended, unless storage fails or the
\* finalizer is cancelled: a stream that closes without a word does so only for now.
ClientLearnsTheEnd == <>[]Informed \/ <>(faults > 0 \/ shield = 2)

(***************************************************************************)
(* The inductive invariant behind the first two.                           *)
(***************************************************************************)
Decided == TERMINAL_STATUSES \ {"interrupted"}

\* What is left of OneReceipt and RowAgreesWithReceipt when the file can be damaged, and then is
\* unlinked and sealed again as an interruption.
SealHolds ==
    /\ reconciling # NoReceipt =>
          /\ server = "up" /\ reconciling.status = receipt.status
          /\ row.status = "interrupted" /\ row.digest # 0
    /\ pc = "commit" => snapshot # NoReceipt /\ snapshot.status = receipt.status
    /\ server # "up" /\ snapshot # NoReceipt => snapshot.status = "interrupted"
    /\ pc \in TaskPoints \cup {"rehydrate", "list", "terminal", "seal"} => receipt = NoReceipt
    /\ server = "up" /\ pc \in TaskPoints \cup (FinalizerPoints \ {"release"}) =>
          row.status \in {"queued", "running"} \/ (Doubtful /\ row.digest # 0)
    /\ server = "starting" /\ pc \in {"recover", "rehydrate"} \cup (FinalizerPoints \ {"release"}) =>
          row.status \in {"queued", "running", "interrupted"}
    /\ row.status \in Decided => receipt.status = row.status
    /\ row.status = "interrupted" /\ row.digest = 0 =>
          receipt.status \in {"none", "interrupted"} \/ ~receipt.intact
DamagedInv == RunTypeOK /\ Placed /\ Hydrated /\ SealHolds

\* The row's status is the run's end: no receipt that says otherwise can still be committed.
Settled ==
    /\ row.status \in TERMINAL_STATUSES
    /\ row.status = "interrupted" =>
          /\ receipt.status \in {"none", "interrupted"} \/ ~receipt.intact
          /\ reconciling.status \in {"none", "interrupted"}

\* A row that was read is out of date only in that an interruption with a receipt has been
\* reconciled since.
SeenHolds ==
    /\ IF at = "closed" THEN seen = NoRow ELSE server = "up"
    /\ seen.status \in Decided => row.status = seen.status \/ doubted
    /\ seen.status = "interrupted" => row.status \in TERMINAL_STATUSES
    /\ ReceiptlessInterruption(seen) => ReceiptlessInterruption(row)

EndIsSettled == Informed => Settled \/ doubted

\* What the client has are events, and but for terminal ones all up to the last of them; what the
\* generator has passed over, up to its cursor, likewise; and its batch are the next rows.
Received(n) ==
    /\ n = 0 \/ \E i \in DOMAIN events : events[i].sequence = n
    /\ \A i \in DOMAIN events :
          events[i].sequence <= n /\ ~IsTerminal(events[i]) =>
              \E j \in DOMAIN delivered : delivered[j] = events[i]
StreamOrder ==
    /\ delivered \in Seq(Event) /\ batch \in Seq(Event) /\ cursor \in Nat
    /\ \A i \in DOMAIN delivered : \E j \in DOMAIN events : events[j] = delivered[i]
    /\ \A i \in 2..Len(delivered) : delivered[i - 1].sequence < delivered[i].sequence
    /\ Received(LastEventId)
    /\ at # "closed" => Received(cursor) /\ LastEventId <= cursor
    /\ at = "decide" => batch # <<>> /\ IsTerminal(Head(batch))
    /\ at \in {"event", "decide"} =>
          \E k \in 1..(Len(events) + 1) :
              /\ k + Len(batch) <= Len(events) + 1
              /\ \A i \in DOMAIN batch : batch[i] = events[k + i - 1]
              /\ \A i \in DOMAIN events : events[i].sequence > cursor <=> i >= k
=============================================================================
