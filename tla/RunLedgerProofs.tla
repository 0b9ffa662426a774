--------------------------- MODULE RunLedgerProofs ---------------------------
(***************************************************************************)
(* Proofs about the ledger on its own, for every MaxSequence: LedgerInv is *)
(* inductive, and from it the rows are always in key order and a ledger    *)
(* none of whose inserts was abandoned always validates.                   *)
(***************************************************************************)
EXTENDS RunLedger, FiniteSetTheorems, SequenceTheorems, TLAPS

\* The row an insert adds.
Row == [sequence |-> writing.sequence, type |-> writing.type,
        previous_hash |-> writing.previous_hash]

LEMMA WriteIsTyped ==
  ASSUME LedgerTypeOK, writing # NoWrite
  PROVE  writing \in Write /\ Row \in Event /\ writing.table \in {"events", "calls"}
BY DEF LedgerTypeOK, Write, Event, Row

LEMMA RowsAreTyped ==
  ASSUME LedgerTypeOK
  PROVE  /\ Len(events) \in Nat /\ DOMAIN events = 1..Len(events)
         /\ \A i \in DOMAIN events : /\ events[i] \in Event
                                    /\ events[i].sequence \in Nat
                                    /\ events[i].previous_hash \in Nat
<1>1. events \in Seq(Event)
  BY DEF LedgerTypeOK
<1>2. Len(events) \in Nat /\ DOMAIN events = 1..Len(events)
  BY <1>1
<1>3. \A i \in 1..Len(events) : events[i] \in Event
  BY <1>1, ElementOfSeq
<1>. QED  BY <1>2, <1>3 DEF Event

\* Appending a row: the old rows keep their places, the new one comes last.
LEMMA AppendedRows ==
  ASSUME events \in Seq(Event), NEW e \in Event
  PROVE  /\ Append(events, e) \in Seq(Event)
         /\ Len(events) \in Nat /\ DOMAIN events = 1..Len(events)
         /\ Len(Append(events, e)) = Len(events) + 1
         /\ DOMAIN Append(events, e) = 1..(Len(events) + 1)
         /\ \A i \in 1..Len(events) : Append(events, e)[i] = events[i]
         /\ Append(events, e)[Len(events) + 1] = e
OBVIOUS

\* What an insert does to the two tables.
LEMMA InsertedTables ==
  ASSUME LedgerTypeOK, writing # NoWrite, Inserted
  PROVE  /\ writing.table = "events" => events' = Append(events, Row) /\ calls' = calls
         /\ writing.table = "calls" =>
              /\ events' = events
              /\ calls' = calls \cup {writing.sequence} /\ writing.sequence \notin calls
         /\ events' \in Seq(Event)
         /\ calls' \in SUBSET Nat /\ IsFiniteSet(calls')
<1>1. writing \in Write /\ Row \in Event /\ writing.table \in {"events", "calls"}
  BY WriteIsTyped
<1>2. CASE writing.table = "events"
  BY <1>1, <1>2, AppendedRows DEF LedgerTypeOK, Inserted, Row
<1>3. CASE writing.table = "calls"
  <2>1. events' = events /\ calls' = calls \cup {writing.sequence} /\ writing.sequence \notin calls
    BY <1>3 DEF Inserted, KeyFree
  <2>2. IsFiniteSet(calls')
    BY <2>1, FS_AddElement DEF LedgerTypeOK
  <2>. QED  BY <1>1, <1>3, <2>1, <2>2 DEF LedgerTypeOK, Write
<1>. QED  BY <1>1, <1>2, <1>3

(***************************************************************************)
(* Type correctness.                                                       *)
(***************************************************************************)
LEMMA TypeInit == LedgerInit => LedgerTypeOK
<1>1. <<>> \in Seq(Event) /\ IsFiniteSet({})
  BY EmptySeq, FS_EmptySet
<1>2. 0 \in Nat
  OBVIOUS
<1>. QED  BY <1>1, <1>2, Zenon DEF LedgerInit, LedgerTypeOK

LEMMA TypeHydrate == LedgerTypeOK /\ Hydrate => LedgerTypeOK'
<1>. SUFFICES ASSUME LedgerTypeOK, Hydrate PROVE LedgerTypeOK'
  OBVIOUS
<1>1. Cardinality(calls) \in Nat
  BY FS_CardinalityType DEF LedgerTypeOK
<1>2. events # <<>> => events[Len(events)] \in Event
  BY DEF LedgerTypeOK
<1>3. sequence' \in Nat /\ previousHash' \in Nat
  BY <1>2 DEF LedgerTypeOK, Hydrate, Event
<1>. QED  BY <1>1, <1>3 DEF LedgerTypeOK, Hydrate, memory

LEMMA TypeBegin ==
  ASSUME LedgerTypeOK, NEW w \in Writers, NEW type \in EventTypes, Begin(w, type)
  PROVE  LedgerTypeOK'
<1>1. CASE AppendBegin(w, type)
  <2>1. sequence + 1 \in Nat /\ previousHash \in Nat
    BY DEF LedgerTypeOK
  <2>2. writing' \in Write
    BY <1>1, <2>1, Zenon DEF AppendBegin, Write
  <2>. QED  BY <1>1, <2>1, <2>2, Zenon DEF LedgerTypeOK, AppendBegin
<1>2. CASE RecordBegin(w, type)
  <2>1. openaiSequence + 1 \in Nat /\ previousHash \in Nat
    BY DEF LedgerTypeOK
  <2>2. writing' \in Write
    BY <1>2, <2>1, Zenon DEF RecordBegin, Write
  <2>. QED  BY <1>2, <2>1, <2>2, Zenon DEF LedgerTypeOK, RecordBegin
<1>. QED  BY <1>1, <1>2, Zenon DEF Begin

LEMMA TypeWriteEnd ==
  ASSUME LedgerTypeOK, NEW w \in Writers, WriteEnd(w)
  PROVE  LedgerTypeOK'
<1>1. /\ events' \in Seq(Event)
      /\ calls' \in SUBSET Nat /\ IsFiniteSet(calls')
      /\ writing \in Write
  BY InsertedTables, WriteIsTyped DEF WriteEnd
<1>. QED  BY <1>1 DEF LedgerTypeOK, WriteEnd, Write

LEMMA TypeWriteAbort ==
  ASSUME LedgerTypeOK, NEW w \in Writers, NEW durable \in BOOLEAN, WriteAbort(w, durable)
  PROVE  LedgerTypeOK'
<1>1. /\ events' \in Seq(Event)
      /\ calls' \in SUBSET Nat /\ IsFiniteSet(calls')
  BY InsertedTables DEF WriteAbort, LedgerTypeOK
<1>. QED  BY <1>1 DEF LedgerTypeOK, WriteAbort, memory

LEMMA TypeLoseMemory ==
  ASSUME LedgerTypeOK, NEW durable \in BOOLEAN, LoseMemory(durable)
  PROVE  LedgerTypeOK'
<1>1. /\ events' \in Seq(Event)
      /\ calls' \in SUBSET Nat /\ IsFiniteSet(calls')
  BY InsertedTables DEF LoseMemory, LedgerTypeOK
<1>. QED  BY <1>1 DEF LedgerTypeOK, LoseMemory

LEMMA TypeNext == LedgerTypeOK /\ [LedgerNext]_ledgerVars => LedgerTypeOK'
<1>. SUFFICES ASSUME LedgerTypeOK, [LedgerNext]_ledgerVars PROVE LedgerTypeOK'
  OBVIOUS
<1>1. CASE Hydrate
  BY <1>1, TypeHydrate
<1>2. ASSUME NEW w \in Writers, NEW type \in EventTypes, Begin(w, type) PROVE LedgerTypeOK'
  BY <1>2, TypeBegin
<1>3. ASSUME NEW w \in Writers, WriteEnd(w) PROVE LedgerTypeOK'
  BY <1>3, TypeWriteEnd
<1>4. ASSUME NEW w \in Writers, NEW durable \in BOOLEAN, WriteAbort(w, durable)
      PROVE  LedgerTypeOK'
  BY <1>4, TypeWriteAbort
<1>5. ASSUME NEW durable \in BOOLEAN, LoseMemory(durable) PROVE LedgerTypeOK'
  BY <1>5, TypeLoseMemory
<1>6. CASE UNCHANGED ledgerVars
  BY <1>6 DEF LedgerTypeOK, ledgerVars
<1>. QED  BY <1>1, <1>2, <1>3, <1>4, <1>5, <1>6 DEF LedgerNext

THEOREM LedgerTypeCorrect == LedgerSpec => []LedgerTypeOK
BY TypeInit, TypeNext, PTL DEF LedgerSpec

(***************************************************************************)
(* Numbered is preserved.                                                  *)
(***************************************************************************)
LEMMA NoWriteInserts == writing = NoWrite => ~Inserting("events") /\ ~Inserting("calls")
BY DEF Inserting

LEMMA NumberedInit == LedgerInit => Numbered
<1>. SUFFICES ASSUME LedgerInit PROVE Numbered
  OBVIOUS
<1>1. events = <<>> /\ writing = NoWrite /\ current = TRUE
  BY DEF LedgerInit
<1>. QED  BY <1>1, NoWriteInserts DEF Numbered

LEMMA NumberedHydrate ==
  ASSUME LedgerTypeOK, Numbered, ~current, Hydrate
  PROVE  Numbered'
<1>1. writing' = NoWrite /\ events' = events /\ current'
  BY DEF Hydrate
<1>2. sequence' = IF events = <<>> THEN sequence ELSE events[Len(events)].sequence
  BY DEF Hydrate
<1>3. \A i \in DOMAIN events : events[i].sequence <= sequence'
  <2>. SUFFICES ASSUME NEW i \in DOMAIN events PROVE events[i].sequence <= sequence'
    OBVIOUS
  <2>1. /\ Len(events) \in Nat /\ DOMAIN events = 1..Len(events)
        /\ \A k \in 1..Len(events) : events[k] \in Event
    BY DEF LedgerTypeOK
  <2>2. Len(events) \in DOMAIN events /\ events # <<>>
    BY <2>1
  <2>3. i < Len(events) => events[i].sequence < events[Len(events)].sequence
    BY <2>2 DEF Numbered
  <2>. QED  BY <1>2, <2>1, <2>2, <2>3 DEF Event
<1>. QED  BY <1>1, <1>3 DEF Numbered, Inserting

LEMMA NumberedBegin ==
  ASSUME LedgerTypeOK, Numbered, NEW w \in Writers, NEW type \in EventTypes, Begin(w, type)
  PROVE  Numbered'
<1>1. current /\ current' /\ events' = events /\ writing = NoWrite
  BY Zenon DEF Begin, AppendBegin, RecordBegin
<1>2. \A i \in DOMAIN events : events[i].sequence \in Nat /\ events[i].sequence <= sequence
  BY <1>1, RowsAreTyped DEF Numbered
<1>3. CASE AppendBegin(w, type)
  <2>1. sequence' = sequence + 1 /\ writing'.sequence = sequence + 1
    BY <1>3 DEF AppendBegin
  <2>2. \A i \in DOMAIN events : events[i].sequence < sequence'
    BY <1>2, <2>1 DEF LedgerTypeOK
  <2>3. \A i \in DOMAIN events : events[i].sequence <= sequence'
    BY <1>2, <2>1 DEF LedgerTypeOK
  <2>. QED  BY <1>1, <2>1, <2>2, <2>3 DEF Numbered
<1>4. CASE RecordBegin(w, type)
  <2>1. sequence' = sequence /\ writing'.table = "calls"
    BY <1>4 DEF RecordBegin
  <2>. QED  BY <1>1, <1>2, <2>1 DEF Numbered, Inserting
<1>. QED  BY <1>3, <1>4, Zenon DEF Begin

\* Rows stay numbered upwards when the insert in progress is committed.
LEMMA NumberedRows ==
  ASSUME LedgerTypeOK, Numbered, writing # NoWrite, Inserted
  PROVE  /\ \A i, j \in DOMAIN events' : i < j => events'[i].sequence < events'[j].sequence
         /\ \A i \in DOMAIN events' : events'[i].sequence <= sequence
<1>1. writing \in Write /\ Row \in Event /\ writing.table \in {"events", "calls"}
  BY WriteIsTyped
<1>2. current
  BY DEF Numbered
<1>3. CASE writing.table = "calls"
  BY <1>2, <1>3, InsertedTables DEF Numbered
<1>4. CASE writing.table = "events"
  <2>1. events' = Append(events, Row)
    BY <1>4, InsertedTables
  <2>2. /\ Len(events) \in Nat /\ DOMAIN events = 1..Len(events)
        /\ DOMAIN events' = 1..(Len(events) + 1)
        /\ \A i \in 1..Len(events) : events'[i] = events[i] /\ events[i].sequence \in Nat
        /\ events'[Len(events) + 1] = Row
    <3>1. events \in Seq(Event)
      BY DEF LedgerTypeOK
    <3>. QED  BY <1>1, <2>1, <3>1, AppendedRows, RowsAreTyped
  <2>3. Row.sequence = sequence /\ \A i \in 1..Len(events) : events[i].sequence < sequence
    BY <1>4, <2>2 DEF Numbered, Inserting, Row
  <2>4. ASSUME NEW i \in DOMAIN events', NEW j \in DOMAIN events', i < j
        PROVE  events'[i].sequence < events'[j].sequence
    <3>1. i \in 1..Len(events)
      BY <2>2, <2>4
    <3>2. CASE j \in 1..Len(events)
      BY <2>2, <2>4, <3>1, <3>2 DEF Numbered
    <3>3. CASE j = Len(events) + 1
      BY <2>2, <2>3, <3>1, <3>3
    <3>. QED  BY <2>2, <3>2, <3>3
  <2>5. ASSUME NEW i \in DOMAIN events' PROVE events'[i].sequence <= sequence
    <3>1. CASE i \in 1..Len(events)
      BY <2>2, <2>3, <3>1 DEF LedgerTypeOK
    <3>2. CASE i = Len(events) + 1
      BY <2>2, <2>3, <3>2 DEF LedgerTypeOK
    <3>. QED  BY <2>2, <3>1, <3>2
  <2>. QED  BY <2>4, <2>5
<1>. QED  BY <1>1, <1>3, <1>4

LEMMA NumberedWriteEnd ==
  ASSUME LedgerTypeOK, Numbered, NEW w \in Writers, WriteEnd(w)
  PROVE  Numbered'
<1>1. writing # NoWrite /\ Inserted /\ writing' = NoWrite /\ sequence' = sequence /\ current'
  BY DEF WriteEnd, Numbered
<1>. QED  BY <1>1, NumberedRows DEF Numbered, Inserting

LEMMA NumberedWriteAbort ==
  ASSUME LedgerTypeOK, Numbered, NEW w \in Writers, NEW durable \in BOOLEAN,
         WriteAbort(w, durable)
  PROVE  Numbered'
<1>1. writing # NoWrite /\ writing' = NoWrite /\ sequence' = sequence /\ current /\ current'
  BY DEF WriteAbort, Numbered, memory
<1>2. Inserted \/ events' = events
  BY DEF WriteAbort
<1>. QED  BY <1>1, <1>2, NumberedRows DEF Numbered, Inserting

LEMMA NumberedLoseMemory ==
  ASSUME LedgerTypeOK, Numbered, NEW durable \in BOOLEAN, LoseMemory(durable)
  PROVE  Numbered'
<1>1. writing' = NoWrite /\ sequence' = 0 /\ previousHash' = 0
      /\ current' = (events' = <<>> /\ calls' = {})
  BY DEF LoseMemory
<1>2. \A i, j \in DOMAIN events' : i < j => events'[i].sequence < events'[j].sequence
  BY NumberedRows DEF LoseMemory, Numbered
<1>3. current' => \A i \in DOMAIN events' : events'[i].sequence <= sequence'
  <2>1. current' => events' = <<>>
    BY <1>1, Zenon
  <2>. QED  BY <2>1
<1>. QED  BY <1>1, <1>2, <1>3 DEF Numbered, Inserting

LEMMA NumberedNext ==
  LedgerTypeOK /\ Numbered /\ [LedgerNext]_ledgerVars => Numbered'
<1>. SUFFICES ASSUME LedgerTypeOK, Numbered, [LedgerNext]_ledgerVars PROVE Numbered'
  OBVIOUS
<1>1. CASE ~current /\ Hydrate
  BY <1>1, NumberedHydrate
<1>2. ASSUME NEW w \in Writers, NEW type \in EventTypes, Begin(w, type) PROVE Numbered'
  BY <1>2, NumberedBegin
<1>3. ASSUME NEW w \in Writers, WriteEnd(w) PROVE Numbered'
  BY <1>3, NumberedWriteEnd
<1>4. ASSUME NEW w \in Writers, NEW durable \in BOOLEAN, WriteAbort(w, durable) PROVE Numbered'
  BY <1>4, NumberedWriteAbort
<1>5. ASSUME NEW durable \in BOOLEAN, LoseMemory(durable) PROVE Numbered'
  BY <1>5, NumberedLoseMemory
<1>6. CASE UNCHANGED ledgerVars
  BY <1>6 DEF Numbered, Inserting, ledgerVars
<1>. QED  BY <1>1, <1>2, <1>3, <1>4, <1>5, <1>6 DEF LedgerNext

\* Whatever was abandoned, crashed or hydrated, the rows are in key order.
THEOREM RowsAlwaysInKeyOrder == LedgerSpec => []RowsInKeyOrder
<1>1. LedgerTypeOK /\ Numbered => RowsInKeyOrder
  <2>. SUFFICES ASSUME LedgerTypeOK, Numbered, NEW i \in 2..Len(events)
                PROVE  events[i - 1].sequence < events[i].sequence
    BY DEF RowsInKeyOrder
  <2>1. i - 1 \in DOMAIN events /\ i \in DOMAIN events /\ i - 1 < i
    BY RowsAreTyped
  <2>. QED  BY <2>1 DEF Numbered
<1>. QED  BY <1>1, TypeInit, TypeNext, NumberedInit, NumberedNext, PTL DEF LedgerSpec

(***************************************************************************)
(* InStep is preserved.                                                    *)
(***************************************************************************)
\* A valid chain is linked to nothing but positions, so extending it takes the next position.
LEMMA ChainExtends ==
  ASSUME LedgerTypeOK, ValidChain(events), NEW e \in Event,
         e.sequence = Len(events) + 1, e.previous_hash = Len(events)
  PROVE  ValidChain(Append(events, e))
<1>. DEFINE rows == Append(events, e)
<1>1. /\ Len(events) \in Nat /\ DOMAIN events = 1..Len(events)
      /\ DOMAIN rows = 1..(Len(events) + 1)
      /\ \A i \in 1..Len(events) : rows[i] = events[i]
      /\ rows[Len(events) + 1] = e
  BY AppendedRows DEF LedgerTypeOK
<1>2. \A i \in 1..Len(events) : events[i].sequence = i
  BY <1>1 DEF ValidChain
<1>. HIDE DEF rows
<1>3. ASSUME NEW i \in 1..Len(events)
      PROVE  rows[i].sequence = i /\ rows[i].previous_hash = HashBefore(rows, i)
  <2>1. events[i].sequence = i /\ events[i].previous_hash = HashBefore(events, i)
    BY <1>1 DEF ValidChain
  <2>2. HashBefore(rows, i) = HashBefore(events, i)
    BY <1>1 DEF HashBefore
  <2>. QED  BY <1>1, <2>1, <2>2
<1>4. ASSUME NEW i \in {Len(events) + 1}
      PROVE  rows[i].sequence = i /\ rows[i].previous_hash = HashBefore(rows, i)
  <2>1. CASE Len(events) = 0
    BY <1>1, <2>1 DEF HashBefore
  <2>2. CASE Len(events) # 0
    BY <1>1, <1>2, <2>2 DEF HashBefore
  <2>. QED  BY <2>1, <2>2
<1>5. ValidChain(rows)
  BY <1>1, <1>3, <1>4 DEF ValidChain
<1>. QED  BY <1>5 DEF rows

LEMMA CallsExtend ==
  ASSUME LedgerTypeOK, ValidCalls(calls)
  PROVE  LET more == calls \cup {Cardinality(calls) + 1}
         IN  ValidCalls(more) /\ Cardinality(more) = Cardinality(calls) + 1
<1>. DEFINE n == Cardinality(calls)
            more == calls \cup {n + 1}
<1>1. n \in Nat /\ calls = 1..n
  BY FS_CardinalityType DEF LedgerTypeOK, ValidCalls
<1>2. more = 1..(n + 1)
  BY <1>1
<1>3. Cardinality(1..(n + 1)) = n + 1
  <2>1. n + 1 \in Int /\ 1 \in Int /\ ~(1 > n + 1) /\ (n + 1) - 1 + 1 = n + 1
    BY <1>1
  <2>. QED  BY <2>1, FS_Interval
<1>. QED  BY <1>2, <1>3, Zenon DEF ValidCalls

LEMMA InStepInit == LedgerInit => InStep
<1>. SUFFICES ASSUME LedgerInit PROVE InStep
  OBVIOUS
<1>1. /\ events = <<>> /\ calls = {} /\ writing = NoWrite
      /\ sequence = 0 /\ previousHash = 0 /\ openaiSequence = 0
  BY DEF LedgerInit
<1>2. ValidChain(events)
  BY <1>1 DEF ValidChain
<1>3. Cardinality(calls) = 0 /\ ValidCalls(calls)
  BY <1>1, FS_EmptySet DEF ValidCalls
<1>4. Level
  BY <1>1, <1>3, NoWriteInserts DEF Level
<1>. QED  BY <1>2, <1>3, <1>4 DEF InStep

\* A hydrated object is level with the tables it read.
LEMMA InStepHydrate ==
  ASSUME LedgerTypeOK, Numbered, InStep, ~current, Hydrate
  PROVE  InStep'
<1>. SUFFICES ASSUME ~aborted, ValidChain(events), ValidCalls(calls) PROVE Level'
  BY DEF InStep, Hydrate
<1>1. /\ writing' = NoWrite /\ events' = events /\ calls' = calls
      /\ openaiSequence' = Cardinality(calls)
      /\ sequence' = IF events = <<>> THEN sequence ELSE events[Len(events)].sequence
      /\ previousHash' = IF events = <<>> THEN previousHash ELSE events[Len(events)].sequence
  BY DEF Hydrate
<1>2. sequence = 0 /\ previousHash = 0
  BY DEF Numbered
<1>3. events = <<>> => Len(events) = 0
  OBVIOUS
<1>4. events # <<>> => events[Len(events)].sequence = Len(events)
  <2>. SUFFICES ASSUME events # <<>> PROVE events[Len(events)].sequence = Len(events)
    OBVIOUS
  <2>1. Len(events) \in DOMAIN events
    BY DEF LedgerTypeOK
  <2>. QED  BY <2>1 DEF ValidChain
<1>5. Len(events) \in Nat /\ Cardinality(calls) \in Nat
  BY RowsAreTyped, FS_CardinalityType DEF LedgerTypeOK
<1>6. ~Inserting("events")' /\ ~Inserting("calls")'
  BY <1>1 DEF Inserting
<1>. QED  BY <1>1, <1>2, <1>3, <1>4, <1>5, <1>6 DEF Level

LEMMA InStepBegin ==
  ASSUME LedgerTypeOK, InStep, NEW w \in Writers, NEW type \in EventTypes, Begin(w, type)
  PROVE  InStep'
<1>1. current /\ writing = NoWrite /\ UNCHANGED <<events, calls, aborted, previousHash>>
  BY Zenon DEF Begin, AppendBegin, RecordBegin
<1>. SUFFICES ASSUME ~aborted, ValidChain(events), ValidCalls(calls), Level PROVE Level'
  BY <1>1, Zenon DEF InStep
<1>2. /\ sequence = Len(events) /\ previousHash = Len(events)
      /\ openaiSequence = Cardinality(calls)
      /\ Len(events) \in Nat /\ Cardinality(calls) \in Nat
  BY <1>1, NoWriteInserts, RowsAreTyped, FS_CardinalityType DEF Level, LedgerTypeOK
<1>3. CASE AppendBegin(w, type)
  <2>1. /\ sequence' = sequence + 1 /\ openaiSequence' = openaiSequence
        /\ writing' = [by |-> w, table |-> "events", sequence |-> sequence + 1, type |-> type,
                       previous_hash |-> previousHash]
    BY <1>3 DEF AppendBegin
  <2>2. writing' # NoWrite /\ writing'.table = "events" /\ writing'.previous_hash = previousHash
    BY <2>1 DEF NoWrite
  <2>. QED  BY <1>1, <1>2, <2>1, <2>2 DEF Level, Inserting
<1>4. CASE RecordBegin(w, type)
  <2>1. /\ openaiSequence' = openaiSequence + 1 /\ sequence' = sequence
        /\ writing' = [by |-> w, table |-> "calls", sequence |-> openaiSequence + 1,
                       type |-> type, previous_hash |-> previousHash]
    BY <1>4 DEF RecordBegin
  <2>2. writing' # NoWrite /\ writing'.table = "calls" /\ writing'.sequence = openaiSequence + 1
    BY <2>1 DEF NoWrite
  <2>. QED  BY <1>1, <1>2, <2>1, <2>2 DEF Level, Inserting
<1>. QED  BY <1>3, <1>4, Zenon DEF Begin

\* A committed insert leaves valid tables, one row longer.
LEMMA InsertedInStep ==
  ASSUME LedgerTypeOK, Numbered, writing # NoWrite, Inserted,
         ValidChain(events), ValidCalls(calls), Level
  PROVE  /\ ValidChain(events') /\ ValidCalls(calls')
         /\ sequence = Len(events') /\ openaiSequence = Cardinality(calls')
         /\ previousHash = Len(events)
         /\ writing.table = "events" => writing.sequence = Len(events')
         /\ writing.table = "calls" => Len(events') = Len(events)
<1>1. writing \in Write /\ Row \in Event /\ writing.table \in {"events", "calls"}
  BY WriteIsTyped
<1>2. Len(events) \in Nat /\ Cardinality(calls) \in Nat
  BY RowsAreTyped, FS_CardinalityType DEF LedgerTypeOK
<1>3. CASE writing.table = "events"
  <2>1. events' = Append(events, Row) /\ calls' = calls
    BY <1>3, InsertedTables
  <2>2. /\ sequence = Len(events) + 1 /\ writing.previous_hash = Len(events)
        /\ previousHash = Len(events) /\ openaiSequence = Cardinality(calls)
    BY <1>2, <1>3 DEF Level, Inserting
  <2>3. Row.sequence = Len(events) + 1 /\ Row.previous_hash = Len(events)
        /\ writing.sequence = Len(events) + 1
    BY <1>3, <2>2 DEF Numbered, Inserting, Row
  <2>4. ValidChain(events')
    BY <1>1, <2>1, <2>3, ChainExtends
  <2>5. Len(events') = Len(events) + 1
    BY <1>1, <2>1, AppendedRows DEF LedgerTypeOK
  <2>. QED  BY <1>3, <2>1, <2>2, <2>3, <2>4, <2>5
<1>4. CASE writing.table = "calls"
  <2>1. events' = events /\ calls' = calls \cup {writing.sequence}
    BY <1>4, InsertedTables
  <2>2. /\ sequence = Len(events) /\ previousHash = Len(events)
        /\ openaiSequence = Cardinality(calls) + 1 /\ writing.sequence = openaiSequence
    BY <1>2, <1>4 DEF Level, Inserting
  <2>3. ValidCalls(calls') /\ Cardinality(calls') = Cardinality(calls) + 1
    BY <2>1, <2>2, CallsExtend
  <2>. QED  BY <1>4, <2>1, <2>2, <2>3
<1>. QED  BY <1>1, <1>3, <1>4

LEMMA InStepWriteEnd ==
  ASSUME LedgerTypeOK, Numbered, InStep, NEW w \in Writers, WriteEnd(w)
  PROVE  InStep'
<1>1. /\ writing # NoWrite /\ Inserted /\ writing' = NoWrite
      /\ previousHash' = IF writing.table = "events" THEN writing.sequence ELSE previousHash
      /\ UNCHANGED <<sequence, openaiSequence, current, aborted>>
  BY DEF WriteEnd
<1>2. current
  BY <1>1 DEF Numbered
<1>. SUFFICES ASSUME ~aborted, ValidChain(events), ValidCalls(calls), Level
              PROVE  ValidChain(events') /\ ValidCalls(calls') /\ Level'
  BY <1>1, <1>2, Zenon DEF InStep
<1>3. ~Inserting("events")' /\ ~Inserting("calls")'
  BY <1>1 DEF Inserting
<1>4. writing.table \in {"events", "calls"} /\ Len(events') \in Nat /\ Cardinality(calls') \in Nat
  BY <1>1, WriteIsTyped, InsertedTables, FS_CardinalityType, LenProperties
<1>5. previousHash' = Len(events')
  BY <1>1, <1>4, InsertedInStep
<1>. QED  BY <1>1, <1>3, <1>4, <1>5, InsertedInStep DEF Level

LEMMA InStepLoseMemory ==
  ASSUME LedgerTypeOK, Numbered, InStep, NEW durable \in BOOLEAN, LoseMemory(durable)
  PROVE  InStep'
<1>1. /\ sequence' = 0 /\ previousHash' = 0 /\ openaiSequence' = 0 /\ writing' = NoWrite
      /\ current' = (events' = <<>> /\ calls' = {})
      /\ aborted' = aborted
      /\ (writing # NoWrite /\ Inserted) \/ (events' = events /\ calls' = calls)
  BY DEF LoseMemory
<1>. SUFFICES ASSUME ~aborted, ValidChain(events), ValidCalls(calls), current => Level
              PROVE  ValidChain(events') /\ ValidCalls(calls') /\ (current' => Level')
  BY <1>1, Zenon DEF InStep
<1>2. writing # NoWrite => current
  BY DEF Numbered
<1>3. ValidChain(events') /\ ValidCalls(calls')
  <2>1. CASE writing # NoWrite /\ Inserted
    BY <1>2, <2>1, InsertedInStep
  <2>2. CASE events' = events /\ calls' = calls
    BY <2>2
  <2>. QED  BY <1>1, <2>1, <2>2
<1>4. current' => Level'
  <2>. SUFFICES ASSUME current' PROVE Level'
    OBVIOUS
  <2>1. events' = <<>> /\ calls' = {}
    BY <1>1, Zenon
  <2>2. Len(events') = 0 /\ Cardinality(calls') = 0
    BY <2>1, FS_EmptySet
  <2>3. ~Inserting("events")' /\ ~Inserting("calls")'
    BY <1>1 DEF Inserting
  <2>. QED  BY <1>1, <2>2, <2>3 DEF Level
<1>. QED  BY <1>3, <1>4

LEMMA InStepNext ==
  LedgerInv /\ [LedgerNext]_ledgerVars => InStep'
<1>. SUFFICES ASSUME LedgerTypeOK, Numbered, InStep, [LedgerNext]_ledgerVars PROVE InStep'
  BY DEF LedgerInv
<1>1. CASE ~current /\ Hydrate
  BY <1>1, InStepHydrate
<1>2. ASSUME NEW w \in Writers, NEW type \in EventTypes, Begin(w, type) PROVE InStep'
  BY <1>2, InStepBegin
<1>3. ASSUME NEW w \in Writers, WriteEnd(w) PROVE InStep'
  BY <1>3, InStepWriteEnd
<1>4. ASSUME NEW w \in Writers, NEW durable \in BOOLEAN, WriteAbort(w, durable) PROVE InStep'
  BY <1>4 DEF WriteAbort, InStep
<1>5. ASSUME NEW durable \in BOOLEAN, LoseMemory(durable) PROVE InStep'
  BY <1>5, InStepLoseMemory
<1>6. CASE UNCHANGED ledgerVars
  BY <1>6 DEF InStep, Level, Inserting, ledgerVars
<1>. QED  BY <1>1, <1>2, <1>3, <1>4, <1>5, <1>6 DEF LedgerNext

THEOREM LedgerInvariant == LedgerSpec => []LedgerInv
<1>1. LedgerInit => LedgerInv
  BY TypeInit, NumberedInit, InStepInit DEF LedgerInv
<1>2. LedgerInv /\ [LedgerNext]_ledgerVars => LedgerInv'
  BY TypeNext, NumberedNext, InStepNext DEF LedgerInv
<1>. QED  BY <1>1, <1>2, PTL DEF LedgerSpec

\* A ledger none of whose inserts was abandoned by a surviving process passes validation,
\* however often the process died.
THEOREM AlwaysIntactUnlessAborted == LedgerSpec => []IntactUnlessAborted
<1>1. LedgerInv => IntactUnlessAborted
  BY DEF LedgerInv, InStep, IntactUnlessAborted
<1>. QED  BY <1>1, LedgerInvariant, PTL

(***************************************************************************)
(* A broken chain stays broken.                                            *)
(***************************************************************************)
LEMMA PrefixOfValidChain ==
  ASSUME LedgerTypeOK, NEW e \in Event, ValidChain(Append(events, e))
  PROVE  ValidChain(events)
<1>. DEFINE rows == Append(events, e)
<1>1. /\ Len(events) \in Nat /\ DOMAIN events = 1..Len(events)
      /\ DOMAIN rows = 1..(Len(events) + 1)
      /\ \A i \in 1..Len(events) : rows[i] = events[i]
  BY AppendedRows DEF LedgerTypeOK
<1>2. ValidChain(rows)
  OBVIOUS
<1>. HIDE DEF rows
<1>3. ASSUME NEW i \in DOMAIN events
      PROVE  events[i].sequence = i /\ events[i].previous_hash = HashBefore(events, i)
  <2>1. rows[i].sequence = i /\ rows[i].previous_hash = HashBefore(rows, i)
    BY <1>1, <1>2, <1>3 DEF ValidChain
  <2>2. HashBefore(rows, i) = HashBefore(events, i)
    BY <1>1, <1>3 DEF HashBefore
  <2>. QED  BY <1>1, <1>3, <2>1, <2>2
<1>. QED  BY <1>3 DEF ValidChain

LEMMA TablesOnlyGrow ==
  ASSUME LedgerTypeOK, [LedgerNext]_ledgerVars
  PROVE  events' = events \/ \E e \in Event : events' = Append(events, e)
<1>1. CASE writing # NoWrite /\ Inserted
  BY <1>1, InsertedTables, WriteIsTyped
<1>2. CASE events' = events
  BY <1>2
<1>3. (writing # NoWrite /\ Inserted) \/ events' = events
  BY Zenon DEF LedgerNext, Hydrate, Begin, AppendBegin, RecordBegin, WriteEnd, WriteAbort,
               LoseMemory, ledgerVars
<1>. QED  BY <1>1, <1>2, <1>3

\* No step of any caller turns a broken chain into a valid one.
THEOREM BrokenChainStaysBroken == LedgerSpec => BrokenChainIsForever
<1>1. LedgerTypeOK /\ [LedgerNext]_ledgerVars
        => [~ValidChain(events) => ~ValidChain(events')]_ledgerVars
  BY TablesOnlyGrow, PrefixOfValidChain
<1>. QED  BY <1>1, TypeInit, TypeNext, PTL DEF LedgerSpec, BrokenChainIsForever
=============================================================================
