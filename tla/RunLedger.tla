------------------------------ MODULE RunLedger ------------------------------
(***************************************************************************)
(* The hash-chained ledger of one run: class RunLedger of receipt.py and   *)
(* the two SQLite tables it appends to.  Several coroutines of one run     *)
(* (the guarded task, the soft timer, the finalizer) share one RunLedger;  *)
(* its lock lets one of them write at a time.  An append takes its number  *)
(* BEFORE the insert and advances the chain AFTER it, so an append that is *)
(* cancelled or fails in between leaves the object out of step with the    *)
(* table while the process lives on.                                       *)
(*                                                                         *)
(* An event's hash is identified with its sequence number (0 stands for    *)
(* the 64 zeros that start a chain): _previous_hash only ever takes the    *)
(* hash of a row that was inserted, and sequence is the table's key.       *)
(***************************************************************************)
EXTENDS Naturals, Sequences, FiniteSets

CONSTANT MaxSequence    \* bound on event and call numbers

ASSUME MaxSequenceAssumption == MaxSequence \in Nat

Statuses == {"queued", "running", "completed", "incomplete", "cancelled", "failed", "interrupted"}
TERMINAL_STATUSES == Statuses \ {"queued", "running"}

\* TERMINAL_EVENTS_BY_STATUS, which validate_receipt repeats.
TerminalEvents(status) ==
    CASE status = "completed"   -> {"run.completed"}
      [] status = "incomplete"  -> {"run.incomplete", "run.timeout"}
      [] status = "cancelled"   -> {"run.cancelled"}
      [] status = "failed"      -> {"run.failed"}
      [] status = "interrupted" -> {"run.interrupted"}
      [] OTHER                  -> {}
TERMINAL_EVENT_TYPES == UNION {TerminalEvents(s) : s \in Statuses}

\* Every event of the pipeline between run.started and the end counts as "work".
EventTypes == TERMINAL_EVENT_TYPES \cup {"run.started", "work", "run.soft_timeout"}

\* The coroutines that share a run's ledger.
Writers == {"task", "soft", "finalizer"}

VARIABLES
    events,          \* rows of ledger_events, in sequence order
    calls,           \* the sequence numbers that have a row in openai_calls
    sequence,        \* RunLedger._sequence
    previousHash,    \* RunLedger._previous_hash
    openaiSequence,  \* RunLedger._openai_sequence
    current,         \* the object's counters were read from the tables (a new object over
                     \* empty tables needs no hydrate() for that)
    writing,         \* the insert under RunLedger._lock
    aborted          \* history: an insert was abandoned by a surviving process

memory == <<sequence, previousHash, openaiSequence, current>>
ledgerVars == <<events, calls, sequence, previousHash, openaiSequence, current, writing, aborted>>

Event == [sequence: Nat, type: EventTypes, previous_hash: Nat]
Write == [by: Writers, table: {"events", "calls"}, sequence: Nat, type: EventTypes,
          previous_hash: Nat]
NoWrite == [by |-> "none", table |-> "none", sequence |-> 0, type |-> "none", previous_hash |-> 0]

LedgerTypeOK ==
    /\ events \in Seq(Event)
    /\ calls \in SUBSET Nat /\ IsFiniteSet(calls)
    /\ sequence \in Nat /\ previousHash \in Nat /\ openaiSequence \in Nat
    /\ current \in BOOLEAN /\ aborted \in BOOLEAN
    /\ writing \in Write \cup {NoWrite}

\* A run that was never started: no rows, a RunLedger as its constructor leaves it.
LedgerInit ==
    /\ events = <<>> /\ calls = {}
    /\ sequence = 0 /\ previousHash = 0 /\ openaiSequence = 0
    /\ current = TRUE /\ aborted = FALSE
    /\ writing = NoWrite

(***************************************************************************)
(* What validate_receipt demands of the rows a receipt carries.            *)
(***************************************************************************)
HashBefore(rows, i) == IF i = 1 THEN 0 ELSE rows[i - 1].sequence
ValidChain(rows) ==
    \A i \in DOMAIN rows : rows[i].sequence = i /\ rows[i].previous_hash = HashBefore(rows, i)
ValidCalls(numbers) == numbers = 1..Cardinality(numbers)

(***************************************************************************)
(* The steps of RunLedger.                                                 *)
(***************************************************************************)
\* Mutant: resumes after the first event instead of the last.
HydrateFromFirst ==
    /\ writing = NoWrite
    /\ sequence' = IF events = <<>> THEN sequence ELSE events[1].sequence
    /\ previousHash' = IF events = <<>> THEN previousHash ELSE events[1].sequence
    /\ openaiSequence' = Cardinality(calls)
    /\ current' = TRUE
    /\ UNCHANGED <<events, calls, writing, aborted>>

\* hydrate: resume after the last event, and after as many calls as there are rows.
Hydrate ==
    /\ writing = NoWrite
    /\ sequence' = IF events = <<>> THEN sequence ELSE events[Len(events)].sequence
    /\ previousHash' = IF events = <<>> THEN previousHash ELSE events[Len(events)].sequence
    /\ openaiSequence' = Cardinality(calls)
    /\ current' = TRUE
    /\ UNCHANGED <<events, calls, writing, aborted>>

\* append, up to its await: the lock is taken and the number is spent.
AppendBegin(w, type) ==
    /\ writing = NoWrite
    /\ sequence < MaxSequence
    /\ sequence' = sequence + 1
    /\ writing' = [by |-> w, table |-> "events", sequence |-> sequence + 1, type |-> type,
                   previous_hash |-> previousHash]
    /\ UNCHANGED <<events, calls, previousHash, openaiSequence, current, aborted>>

\* record_openai_call, up to its await.
RecordBegin(w, type) ==
    /\ writing = NoWrite
    /\ openaiSequence < MaxSequence
    /\ openaiSequence' = openaiSequence + 1
    /\ writing' = [by |-> w, table |-> "calls", sequence |-> openaiSequence + 1, type |-> type,
                   previous_hash |-> previousHash]
    /\ UNCHANGED <<events, calls, sequence, previousHash, current, aborted>>

\* The insert of the write in progress, committed; (run_id, sequence) is the tables' key.
KeyFree ==
    IF writing.table = "events"
      THEN \A i \in DOMAIN events : events[i].sequence # writing.sequence
      ELSE writing.sequence \notin calls
Inserted ==
    /\ KeyFree
    /\ IF writing.table = "events"
         THEN /\ events' = Append(events, [sequence |-> writing.sequence, type |-> writing.type,
                                           previous_hash |-> writing.previous_hash])
              /\ calls' = calls
         ELSE /\ calls' = calls \cup {writing.sequence}
              /\ events' = events

\* Mutant: the chain is not advanced.
WriteEndUnlinked(w) ==
    /\ writing # NoWrite /\ writing.by = w
    /\ Inserted
    /\ writing' = NoWrite
    /\ UNCHANGED <<sequence, previousHash, openaiSequence, current, aborted>>

\* The insert returns: an event advances the chain, and the lock is released.
WriteEnd(w) ==
    /\ writing # NoWrite /\ writing.by = w
    /\ Inserted
    /\ previousHash' = IF writing.table = "events" THEN writing.sequence ELSE previousHash
    /\ writing' = NoWrite
    /\ UNCHANGED <<sequence, openaiSequence, current, aborted>>

\* The insert raises or its awaiter is cancelled.  The row may be durable all the same (the
\* cancellation came during the commit); neither counter is taken back, the chain is not advanced.
WriteAbort(w, durable) ==
    /\ writing # NoWrite /\ writing.by = w
    /\ IF durable THEN Inserted ELSE UNCHANGED <<events, calls>>
    /\ writing' = NoWrite
    /\ aborted' = TRUE
    /\ UNCHANGED memory

\* The process dies: a write in progress is durable or not, the object is gone and the next
\* process constructs a new one.
LoseMemory(durable) ==
    /\ IF durable /\ writing # NoWrite THEN Inserted ELSE UNCHANGED <<events, calls>>
    /\ sequence' = 0 /\ previousHash' = 0 /\ openaiSequence' = 0
    /\ current' = (events' = <<>> /\ calls' = {})
    /\ writing' = NoWrite
    /\ UNCHANGED aborted

(***************************************************************************)
(* The ledger on its own, under any caller that keeps its one obligation:  *)
(* hydrate a new object before writing to a run that already has rows.     *)
(***************************************************************************)
Begin(w, type) == current /\ (AppendBegin(w, type) \/ RecordBegin(w, type))
LedgerNext ==
    \/ ~current /\ Hydrate
    \/ \E w \in Writers, type \in EventTypes : Begin(w, type)
    \/ \E w \in Writers : WriteEnd(w)
    \/ \E w \in Writers, durable \in BOOLEAN : WriteAbort(w, durable)
    \/ \E durable \in BOOLEAN : LoseMemory(durable)
LedgerSpec == LedgerInit /\ [][LedgerNext]_ledgerVars

(***************************************************************************)
(* Properties.                                                             *)
(***************************************************************************)
\* Events are in key order: a list that is appended to is what ORDER BY sequence returns,
\* whatever was abandoned, crashed or hydrated in between (receipt.py:341-365, db.py:464).
RowsInKeyOrder == \A i \in 2..Len(events) : events[i - 1].sequence < events[i].sequence

\* A ledger none of whose inserts was abandoned by a surviving process passes
\* validate_receipt, however often the process died in the middle of an insert and the next
\* one took over with hydrate() (receipt.py:333-371, 612-648).
IntactUnlessAborted == ~aborted => ValidChain(events) /\ ValidCalls(calls)

\* Nothing repairs a broken chain: rows are never rewritten, so once there is a hole or a bad
\* link every later receipt of the run is refused (receipt.py:612-635).
BrokenChainIsForever == [][~ValidChain(events) => ~ValidChain(events')]_ledgerVars

(***************************************************************************)
(* The inductive invariant behind the first two.                           *)
(***************************************************************************)
Inserting(table) == writing # NoWrite /\ writing.table = table

\* Rows are numbered upwards, an object that may write has counted them all, and the number it
\* is inserting is above theirs: no insert ever meets a taken key.
Numbered ==
    /\ \A i, j \in DOMAIN events : i < j => events[i].sequence < events[j].sequence
    /\ current => \A i \in DOMAIN events : events[i].sequence <= sequence
    /\ writing # NoWrite => current
    /\ ~current => sequence = 0 /\ previousHash = 0
    /\ Inserting("events") =>
          writing.sequence = sequence /\ \A i \in DOMAIN events : events[i].sequence < sequence

\* Until a surviving process abandons an insert, the counters are one ahead of the tables
\* during an insert and level with them otherwise.
Level ==
    /\ sequence = Len(events) + (IF Inserting("events") THEN 1 ELSE 0)
    /\ previousHash = Len(events)
    /\ openaiSequence = Cardinality(calls) + (IF Inserting("calls") THEN 1 ELSE 0)
    /\ Inserting("events") => writing.previous_hash = Len(events)
    /\ Inserting("calls") => writing.sequence = openaiSequence
InStep == ~aborted => ValidChain(events) /\ ValidCalls(calls) /\ (current => Level)

LedgerInv == LedgerTypeOK /\ Numbered /\ InStep
=============================================================================
