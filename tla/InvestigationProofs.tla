-------------------------- MODULE InvestigationProofs --------------------------
(***************************************************************************)
(* Proofs about Investigation.tla, for every library, every set of tool    *)
(* calls and every limit: model calls are recorded exactly once, a draft   *)
(* has a whole record, what was read is accounted for, the results of a    *)
(* search respect its rankings, and every step is one towards the end.     *)
(***************************************************************************)
EXTENDS Investigation, DataTheorems, SequenceTheorems

(***************************************************************************)
(* Model calls.                                                            *)
(***************************************************************************)
\* A call is armed while it is out, and then until its failure is recorded.
CallInv ==
    /\ armed \in BOOLEAN /\ broken \in BOOLEAN
    /\ calls \in [Operations -> Nat] /\ sent \in [Operations -> Nat]
    /\ armed = TRUE => pc \in {"model", "failing"}
    /\ pc = "model" => armed = TRUE
    /\ calls["model"] <= sent["model"]
    /\ armed = TRUE => calls["model"] + 1 <= sent["model"]
    /\ broken = FALSE /\ armed = TRUE => calls["model"] + 1 = sent["model"]
    /\ broken = FALSE /\ armed = FALSE => calls["model"] = sent["model"]

\* Counting a call of one operation.
LEMMA Counting ==
    ASSUME NEW counter \in [Operations -> Nat], NEW o \in Operations
    PROVE  /\ Count(counter, o) \in [Operations -> Nat]
           /\ Count(counter, o)[o] = counter[o] + 1
           /\ \A p \in Operations \ {o} : Count(counter, o)[p] = counter[p]
BY DEF Count

LEMMA CallInit == Init => CallInv
<1>1. "model" \in Operations
  BY DEF Operations
<1> SUFFICES ASSUME Init PROVE CallInv
  OBVIOUS
<1>2. calls["model"] = 0 /\ sent["model"] = 0
  BY <1>1 DEF Init
<1>3. calls \in [Operations -> Nat] /\ sent \in [Operations -> Nat]
  BY DEF Init
<1>4. armed = FALSE /\ broken = FALSE /\ pc = "turn"
  BY DEF Init
<1>5. armed \in BOOLEAN /\ broken \in BOOLEAN /\ (armed = TRUE => pc \in {"model", "failing"})
  BY <1>4
<1>6. pc = "model" => armed = TRUE
  BY <1>4
<1>7. calls["model"] <= sent["model"] /\ calls["model"] = sent["model"]
  BY <1>2
<1>8. armed = TRUE => FALSE
  BY <1>4
<1> QED
  BY <1>3, <1>5, <1>6, <1>7, <1>8 DEF CallInv

\* Every step of a tool leaves the hooks alone, except those of an embedding, and keeps away from
\* the points at which a call may be armed.
LEMMA CallStep == CallInv /\ [Next]_vars => CallInv'
<1>0. "model" \in Operations /\ "embedding" \in Operations /\ "model" # "embedding"
  BY DEF Operations
<1> SUFFICES ASSUME CallInv, [Next]_vars PROVE CallInv'
  OBVIOUS
<1>1. CASE TooManyTurns
  BY <1>1 DEF TooManyTurns, CallInv, Goto, hooks
<1>2. CASE StartModelCall
  <2>1. CASE Goto("model") /\ armed' = TRUE /\ sent' = Count(sent, "model") /\ UNCHANGED broken
    BY <1>0, <1>2, <2>1, Counting DEF StartModelCall, CallInv, Goto
  <2>2. CASE Goto("failing") /\ UNCHANGED <<armed, sent>> /\ (UNCHANGED broken \/ broken' = TRUE)
    BY <1>2, <2>2 DEF StartModelCall, CallInv, Goto
  <2> QED
    BY <1>2, <2>1, <2>2 DEF StartModelCall
<1>3. CASE ModelAnswers
  <2>1. CASE Recorded("model") /\ pc' \in {"tool", "drafted", "failing"}
    BY <1>0, <1>3, <2>1, Counting DEF ModelAnswers, CallInv, Recorded, Disarm
  <2>2. CASE UNCHANGED calls /\ broken' = TRUE /\ Goto("failing")
    BY <1>3, <2>2 DEF ModelAnswers, CallInv, Disarm, Goto
  <2>3. CASE calls' = Count(calls, "model") /\ broken' = TRUE /\ Goto("failing")
    BY <1>0, <1>3, <2>3, Counting DEF ModelAnswers, CallInv, Disarm, Goto
  <2> QED
    BY <1>3, <2>1, <2>2, <2>3 DEF ModelAnswers, RecordBreaks, Goto
<1>4. CASE LimitReached
  BY <1>4 DEF LimitReached, CallInv, Goto, hooks, Appended, AppendBreaks
<1>5. CASE RecordToolFailure
  BY <1>5 DEF RecordToolFailure, CallInv, Goto, hooks, Appended, AppendBreaks
<1>6. CASE BeginSearch
  BY <1>6 DEF BeginSearch, Calls, Refused, Started, CallInv, Goto, hooks, Appended, AppendBreaks
<1>7. CASE EmbedQuery
  BY <1>0, <1>7, Counting DEF EmbedQuery, CallInv, Goto
<1>8. CASE EmbeddingAnswers
  <2>1. CASE Recorded("embedding")
    BY <1>0, <1>8, <2>1, Counting DEF EmbeddingAnswers, CallInv, Recorded, Goto
  <2>2. CASE RecordBreaks("embedding")
    BY <1>0, <1>8, <2>2, Counting DEF EmbeddingAnswers, CallInv, RecordBreaks, Goto
  <2> QED
    BY <1>8, <2>1, <2>2 DEF EmbeddingAnswers
<1>9. CASE Rank
  BY <1>9 DEF Rank, CallInv, Goto, hooks, Appended, AppendBreaks
<1>10. CASE BeginRead
  BY <1>10 DEF BeginRead, Calls, Started, CallInv, Goto, hooks, Appended, AppendBreaks
<1>11. CASE Read
  BY <1>11 DEF Read, Hand, Refused, CallInv, Goto, hooks, Appended, AppendBreaks
<1>12. CASE BeginInspect
  BY <1>12 DEF BeginInspect, Calls, Refused, Started, CallInv, Goto, hooks, Appended, AppendBreaks
<1>13. CASE Inspect
  BY <1>13 DEF Inspect, Hand, Refused, CallInv, Goto, hooks, Appended, AppendBreaks
<1>14. CASE BeginVerify
  BY <1>14 DEF BeginVerify, Calls, Started, CallInv, Goto, hooks, Appended, AppendBreaks
<1>15. CASE Verify
  BY <1>15 DEF Verify, CallInv, Goto, hooks, Appended, AppendBreaks
<1>16. CASE ModelFails
  BY <1>16 DEF ModelFails, CallInv, Goto, hooks
<1>17. CASE ToolFails
  BY <1>17 DEF ToolFails, Working, CallInv, Goto, hooks
<1>18. CASE RecordFailedCall
  <2>1. CASE armed = FALSE
    BY <1>18, <2>1 DEF RecordFailedCall, CallInv, Goto
  <2>2. CASE armed = TRUE /\ Recorded("model")
    BY <1>0, <1>18, <2>2, Counting DEF RecordFailedCall, CallInv, Recorded, Disarm, Goto
  <2>3. CASE armed = TRUE /\ broken' = TRUE /\ UNCHANGED calls
    BY <1>18, <2>3 DEF RecordFailedCall, CallInv, Disarm, Goto
  <2>4. CASE armed = TRUE /\ broken' = TRUE /\ calls' = Count(calls, "model")
    BY <1>0, <1>18, <2>4, Counting DEF RecordFailedCall, CallInv, Disarm, Goto
  <2>5. armed = TRUE \/ armed = FALSE
    BY DEF CallInv
  <2> QED
    BY <1>18, <2>1, <2>2, <2>3, <2>4, <2>5 DEF RecordFailedCall, RecordBreaks
<1>19. CASE Close
  BY <1>19 DEF Close, CallInv, Goto, hooks
<1>20. CASE UNCHANGED vars
  BY <1>20 DEF vars, hooks, CallInv
<1> QED
  BY <1>1, <1>2, <1>3, <1>4, <1>5, <1>6, <1>7, <1>8, <1>9, <1>10, <1>11, <1>12, <1>13, <1>14,
     <1>15, <1>16, <1>17, <1>18, <1>19, <1>20 DEF Next, Runner, Providers

\* Wherever an investigation is broken off, each of its model calls is in the receipt once.
THEOREM CallsAlwaysRecordedOnce == Spec => []ModelCallsRecordedOnce
<1>1. CallInv => ModelCallsRecordedOnce
  BY DEF CallInv, ModelCallsRecordedOnce, Operations
<1> QED
  BY <1>1, CallInit, CallStep, PTL DEF Spec

(***************************************************************************)
(* The record of the tools: between two tool calls the ledger has a pair   *)
(* of events for each, and during one the first of its pair as well.       *)
(***************************************************************************)
Steps == {"started", "completed", "failed", "limit_reached"}
ToolEvents == [tool : Tools, step : Steps]

Pair(log, i) ==
    /\ log[2 * i - 1] = [tool |-> log[2 * i].tool, step |-> "started"]
    /\ log[2 * i].step = "completed"
Paired(log, n) ==
    /\ log \in Seq(ToolEvents) /\ Len(log) = 2 * n
    /\ \A i \in 1..n : Pair(log, i)
Opened(log, n, tool) ==
    /\ log \in Seq(ToolEvents) /\ n >= 1 /\ Len(log) = 2 * n - 1
    /\ \A i \in 1..(n - 1) : Pair(log, i)
    /\ log[2 * n - 1] = [tool |-> tool, step |-> "started"]

LEMMA Opens ==
    ASSUME NEW log, NEW n \in Nat, NEW tool \in Tools, Paired(log, n)
    PROVE  Opened(Append(log, [tool |-> tool, step |-> "started"]), n + 1, tool)
<1> DEFINE e == [tool |-> tool, step |-> "started"]
<1>1. log \in Seq(ToolEvents) /\ e \in ToolEvents
  BY DEF Paired, ToolEvents, Steps
<1>2. Append(log, e) \in Seq(ToolEvents) /\ Len(Append(log, e)) = 2 * n + 1
  BY <1>1 DEF Paired
<1>3. \A i \in 1..(2 * n) : Append(log, e)[i] = log[i]
  BY <1>1 DEF Paired
<1>4. Append(log, e)[2 * n + 1] = e
  BY <1>1 DEF Paired
<1>5. ASSUME NEW i \in 1..n PROVE Pair(Append(log, e), i)
  <2>1. 2 * i - 1 \in 1..(2 * n) /\ 2 * i \in 1..(2 * n)
    OBVIOUS
  <2> QED
    BY <1>3, <2>1 DEF Paired, Pair
<1> QED
  BY <1>2, <1>4, <1>5 DEF Opened

LEMMA Closes ==
    ASSUME NEW log, NEW n \in Nat, NEW tool \in Tools, Opened(log, n, tool)
    PROVE  Paired(Append(log, [tool |-> tool, step |-> "completed"]), n)
<1> DEFINE e == [tool |-> tool, step |-> "completed"]
<1>1. log \in Seq(ToolEvents) /\ e \in ToolEvents
  BY DEF Opened, ToolEvents, Steps
<1>2. Append(log, e) \in Seq(ToolEvents) /\ Len(Append(log, e)) = 2 * n
  BY <1>1 DEF Opened
<1>3. \A i \in 1..(2 * n - 1) : Append(log, e)[i] = log[i]
  BY <1>1 DEF Opened
<1>4. Append(log, e)[2 * n] = e
  BY <1>1 DEF Opened
<1>5. ASSUME NEW i \in 1..n PROVE Pair(Append(log, e), i)
  <2>1. CASE i = n
    <3>1. 2 * n - 1 \in 1..(2 * n - 1)
      BY DEF Opened
    <3> QED
      BY <1>3, <1>4, <2>1, <3>1 DEF Opened, Pair
  <2>2. CASE i # n
    <3>1. i \in 1..(n - 1) /\ 2 * i - 1 \in 1..(2 * n - 1) /\ 2 * i \in 1..(2 * n - 1)
      BY <2>2
    <3> QED
      BY <1>3, <3>1 DEF Opened, Pair
  <2> QED
    BY <2>1, <2>2
<1> QED
  BY <1>2, <1>5 DEF Paired

\* How many calls of a tool a log has completed.
EndsOf(log, tool) == {i \in DOMAIN log : log[i].tool = tool /\ log[i].step = "completed"}
Done(log, tool) == Cardinality(EndsOf(log, tool))

LEMMA EndsAreFinite ==
    ASSUME NEW log \in Seq(ToolEvents), NEW tool
    PROVE  IsFiniteSet(EndsOf(log, tool)) /\ Done(log, tool) \in Nat
<1>1. IsFiniteSet(1..Len(log))
  BY FS_Interval
<1>2. EndsOf(log, tool) \subseteq 1..Len(log)
  BY DEF EndsOf
<1> QED
  BY <1>1, <1>2, FS_Subset, FS_CardinalityType DEF Done

LEMMA StartIsNoEnd ==
    ASSUME NEW log \in Seq(ToolEvents), NEW tool \in Tools, NEW other
    PROVE  Done(Append(log, [tool |-> tool, step |-> "started"]), other) = Done(log, other)
<1>1. EndsOf(Append(log, [tool |-> tool, step |-> "started"]), other) = EndsOf(log, other)
  BY DEF EndsOf, ToolEvents, Steps
<1> QED
  BY <1>1 DEF Done

LEMMA EndCounts ==
    ASSUME NEW log \in Seq(ToolEvents), NEW tool \in Tools, NEW other
    PROVE  Done(Append(log, [tool |-> tool, step |-> "completed"]), other)
              = Done(log, other) + (IF tool = other THEN 1 ELSE 0)
<1> DEFINE longer == Append(log, [tool |-> tool, step |-> "completed"])
<1>1. CASE tool = other
  <2>1. EndsOf(longer, other) = EndsOf(log, other) \cup {Len(log) + 1}
    BY <1>1 DEF EndsOf, ToolEvents, Steps
  <2>2. Len(log) + 1 \notin EndsOf(log, other)
    BY DEF EndsOf
  <2> QED
    BY <1>1, <2>1, <2>2, EndsAreFinite, FS_AddElement DEF Done
<1>2. CASE tool # other
  <2>1. EndsOf(longer, other) = EndsOf(log, other)
    BY <1>2 DEF EndsOf, ToolEvents, Steps
  <2> QED
    BY <1>2, <2>1, EndsAreFinite DEF Done
<1> QED
  BY <1>1, <1>2

(***************************************************************************)
(* The invariant behind DraftIsEarned.                                     *)
(***************************************************************************)
Between == {"turn", "model", "tool", "drafted", "draft"}
During == Working \cup {"embedding"}

\* Whether the call in progress is of the tool, as a number.
Now(tool) == IF request.tool = tool THEN 1 ELSE 0

CountersOK ==
    /\ toolCalls \in Nat /\ attemptedSearches \in Nat /\ completedSearches \in Nat
    /\ documentInspections \in Nat /\ events \in Seq(ToolEvents)
RequestOK ==
    /\ pc \in During \cup {"tool", "toolfailed"} => request.tool \in Tools
    /\ pc \in {"searching", "embedding", "ranking"} => request.tool = "search"
    /\ pc = "reading" => request.tool = "read"
    /\ pc = "inspecting" => request.tool = "inspect"
    /\ pc = "verifying" => request.tool = "verify"
Settled ==
    /\ Paired(events, toolCalls)
    /\ attemptedSearches = Done(events, "search") /\ completedSearches = Done(events, "search")
    /\ documentInspections = Done(events, "inspect")
Unsettled ==
    /\ Opened(events, toolCalls, request.tool)
    /\ attemptedSearches = Done(events, "search") + Now("search")
    /\ completedSearches = Done(events, "search")
    /\ documentInspections = Done(events, "inspect") + Now("inspect")

DraftInv ==
    /\ CountersOK /\ RequestOK
    /\ pc \in Between => Settled
    /\ pc \in During => Unsettled

LEMMA RequestTools == \A r \in Requests : r.tool \in Tools
BY ArgumentsAssumption DEF Requests, Verification, Tools

LEMMA DraftInit == Init => DraftInv
<1> SUFFICES ASSUME Init PROVE DraftInv
  OBVIOUS
<1>1. Done(<<>>, "search") = 0 /\ Done(<<>>, "inspect") = 0
  BY FS_EmptySet DEF Done, EndsOf
<1>2. Paired(<<>>, 0)
  BY DEF Paired
<1>3. CountersOK /\ RequestOK
  BY DEF Init, CountersOK, RequestOK, During, Working
<1>4. Settled
  BY <1>1, <1>2 DEF Init, Settled
<1> QED
  BY <1>3, <1>4 DEF Init, DraftInv, During, Working

\* An event of the call in progress keeps the ledger well typed.
LEMMA EventTyped ==
    ASSUME CountersOK, request.tool \in Tools, NEW step \in Steps,
           Appended(step) \/ AppendBreaks(step)
    PROVE  events' \in Seq(ToolEvents)
<1>1. Event(step) \in ToolEvents
  BY DEF Event, ToolEvents
<1>2. events \in Seq(ToolEvents) /\ Append(events, Event(step)) \in Seq(ToolEvents)
  BY <1>1 DEF CountersOK
<1>3. events' = events \/ events' = Append(events, Event(step))
  BY DEF Appended, AppendBreaks
<1> QED
  BY <1>2, <1>3

\* What is left to show of a step after which nothing is claimed of the record, and of one that
\* counts nothing and writes no event.
LEMMA GivingUp ==
    ASSUME CountersOK', pc' \notin Between \cup During,
           pc' = "toolfailed" => request'.tool \in Tools
    PROVE  DraftInv'
BY DEF DraftInv, RequestOK, Between, During, Working

LEMMA NothingCounted ==
    ASSUME DraftInv, UNCHANGED <<counted, events>>,
           pc' \in During => pc \in During /\ request' = request,
           pc' \in Between => pc \in Between, RequestOK'
    PROVE  DraftInv'
<1>1. CountersOK'
  BY DEF DraftInv, CountersOK, counted
<1>2. pc' \in Between => Settled'
  BY DEF DraftInv, Settled, counted
<1>3. ASSUME pc' \in During PROVE Unsettled'
  BY <1>3 DEF DraftInv, Unsettled, Now, counted
<1> QED
  BY <1>1, <1>2, <1>3 DEF DraftInv

\* A tool that is started, and one that is completed.
LEMMA Starting ==
    ASSUME CountersOK, Settled, request.tool \in Tools, Appended("started"),
           toolCalls' = toolCalls + 1, request' = request,
           attemptedSearches' = attemptedSearches + Now("search"),
           completedSearches' = completedSearches,
           documentInspections' = documentInspections + Now("inspect")
    PROVE  Unsettled'
<1>1. events' = Append(events, [tool |-> request.tool, step |-> "started"])
  BY DEF Appended, Event
<1>2. Opened(events', toolCalls', request.tool)
  BY <1>1, Opens DEF CountersOK, Settled
<1>3. Done(events', "search") = Done(events, "search") /\ Done(events', "inspect") = Done(events, "inspect")
  BY <1>1, StartIsNoEnd DEF CountersOK
<1> QED
  BY <1>2, <1>3 DEF Settled, Unsettled, Now

LEMMA Completing ==
    ASSUME CountersOK, Unsettled, request.tool \in Tools, Appended("completed"),
           toolCalls' = toolCalls, attemptedSearches' = attemptedSearches,
           completedSearches' = completedSearches + Now("search"),
           documentInspections' = documentInspections
    PROVE  Settled'
<1>1. events' = Append(events, [tool |-> request.tool, step |-> "completed"])
  BY DEF Appended, Event
<1>2. Paired(events', toolCalls')
  BY <1>1, Closes DEF CountersOK, Unsettled
<1>3. /\ Done(events', "search") = Done(events, "search") + Now("search")
      /\ Done(events', "inspect") = Done(events, "inspect") + Now("inspect")
  BY <1>1, EndCounts DEF CountersOK, Now
<1> QED
  BY <1>2, <1>3 DEF Settled, Unsettled

\* A tool call begins with its count, and its first event or a refusal.
LEMMA Beginning ==
    ASSUME DraftInv, NEW tool \in Tools, NEW point, Calls(tool), request' = request,
           attemptedSearches' \in Nat, documentInspections' \in Nat,
           completedSearches' = completedSearches,
           \/ Refused
           \/ /\ Started(point)
              /\ attemptedSearches' = attemptedSearches + Now("search")
              /\ documentInspections' = documentInspections + Now("inspect"),
           point \in Working, point = "searching" <=> tool = "search",
           point = "reading" <=> tool = "read", point = "inspecting" <=> tool = "inspect",
           point = "verifying" <=> tool = "verify", point # "ranking"
    PROVE  DraftInv'
<1>1. CountersOK /\ Settled /\ request.tool = tool /\ request'.tool = tool /\ toolCalls' = toolCalls + 1
  BY DEF DraftInv, Calls, Between
<1>2. events' \in Seq(ToolEvents)
  <2>1. CASE Refused
    BY <1>1, <2>1 DEF Refused, CountersOK
  <2>2. CASE Started(point)
    BY <1>1, <2>2, EventTyped DEF Started, Steps
  <2> QED
    BY <2>1, <2>2
<1>3. CountersOK'
  BY <1>1, <1>2 DEF CountersOK
<1>4. CASE pc' = "toolfailed"
  BY <1>1, <1>3, <1>4, GivingUp DEF Between, During, Working
<1>5. CASE Appended("started") /\ pc' = point /\ ~Refused
  <2>1. Unsettled'
    BY <1>1, <1>5, Starting
  <2>2. RequestOK'
    BY <1>1, <1>5 DEF RequestOK, Working, Tools, During
  <2>3. pc' \notin Between
    BY <1>5 DEF Between, Working
  <2> QED
    BY <1>3, <2>1, <2>2, <2>3 DEF DraftInv
<1> QED
  BY <1>4, <1>5 DEF Refused, Started, Goto

\* A tool call ends with its last event, or fails.
LEMMA Ending ==
    ASSUME DraftInv, pc \in Working, UNCHANGED <<request, toolCalls, attemptedSearches, documentInspections>>,
           completedSearches' = completedSearches + Now("search"),
           (Appended("completed") /\ Goto("turn")) \/ (AppendBreaks("completed") /\ Goto("toolfailed"))
    PROVE  DraftInv'
<1>1. CountersOK /\ Unsettled /\ request.tool \in Tools
  BY DEF DraftInv, RequestOK, During
<1>2. events' \in Seq(ToolEvents)
  BY <1>1, EventTyped DEF Steps
<1>3. CountersOK'
  BY <1>1, <1>2 DEF CountersOK, Now
<1>4. CASE Goto("toolfailed")
  BY <1>1, <1>3, <1>4, GivingUp DEF Goto, Between, During, Working
<1>5. CASE Appended("completed") /\ Goto("turn")
  <2>1. Settled'
    BY <1>1, <1>5, Completing
  <2> QED
    BY <1>3, <1>5, <2>1 DEF DraftInv, RequestOK, Goto, During, Working
<1> QED
  BY <1>4, <1>5

\* A tool call fails after it has begun: an event of it may be written.
LEMMA Failing ==
    ASSUME DraftInv, pc \in {"tool", "toolfailed"} \cup During, UNCHANGED <<counted, request>>,
           NEW step \in Steps, UNCHANGED events \/ Appended(step) \/ AppendBreaks(step),
           pc' \in {"toolfailed", "failing"}
    PROVE  DraftInv'
<1>1. CountersOK /\ request.tool \in Tools
  BY DEF DraftInv, RequestOK
<1>2. events' \in Seq(ToolEvents)
  BY <1>1, EventTyped DEF CountersOK
<1>3. CountersOK'
  BY <1>1, <1>2 DEF CountersOK, counted
<1> QED
  BY <1>1, <1>3, GivingUp DEF Between, During, Working

LEMMA DraftStep == DraftInv /\ [Next]_vars => DraftInv'
<1> SUFFICES ASSUME DraftInv, [Next]_vars PROVE DraftInv'
  OBVIOUS
<1>0. CountersOK /\ RequestOK
  BY DEF DraftInv
<1>1. CASE TooManyTurns
  BY <1>1, NothingCounted DEF TooManyTurns, Goto, RequestOK, Between, During, Working
<1>2. CASE StartModelCall
  BY <1>2, NothingCounted DEF StartModelCall, Goto, RequestOK, Between, During, Working
<1>3. CASE ModelAnswers
  <2>1. pc = "model" /\ UNCHANGED <<counted, events>> /\ pc' \in {"tool", "drafted", "failing"}
    BY <1>3 DEF ModelAnswers, Goto
  <2>2. pc' = "tool" => request'.tool \in Tools
    BY <1>3, RequestTools DEF ModelAnswers, Goto
  <2> QED
    BY <2>1, <2>2, NothingCounted DEF RequestOK, Between, During, Working
<1>4. CASE LimitReached
  BY <1>4, Failing DEF LimitReached, Goto, Steps
<1>5. CASE RecordToolFailure
  BY <1>5, Failing DEF RecordToolFailure, Goto, Steps
<1>6. CASE BeginSearch
  <2>1. request' = request /\ Calls("search") /\ completedSearches' = completedSearches
        /\ documentInspections' = documentInspections
    BY <1>6 DEF BeginSearch
  <2>2. Now("search") = 1 /\ Now("inspect") = 0
    BY <2>1 DEF Calls, Now
  <2>3. \/ Refused /\ attemptedSearches' \in {attemptedSearches, attemptedSearches + 1}
        \/ Started("searching") /\ attemptedSearches' = attemptedSearches + 1
    BY <1>6 DEF BeginSearch
  <2>4. attemptedSearches' \in Nat /\ documentInspections' = documentInspections + Now("inspect")
        /\ documentInspections' \in Nat
    BY <1>0, <2>1, <2>2, <2>3 DEF CountersOK
  <2>5. "search" \in Tools /\ "searching" \in Working
    BY DEF Tools, Working
  <2> QED
    BY <2>1, <2>2, <2>3, <2>4, <2>5, Beginning
<1>7. CASE EmbedQuery
  <2>1. pc = "searching" /\ pc' \in {"ranking", "embedding"} /\ request' = request
        /\ UNCHANGED <<counted, events>>
    BY <1>7 DEF EmbedQuery, Goto
  <2>2. RequestOK'
    BY <1>0, <2>1 DEF RequestOK, During, Working
  <2> QED
    BY <2>1, <2>2, NothingCounted DEF Between, During, Working
<1>8. CASE EmbeddingAnswers
  <2>1. pc = "embedding" /\ pc' \in {"ranking", "toolfailed"} /\ request' = request
        /\ UNCHANGED <<counted, events>>
    BY <1>8 DEF EmbeddingAnswers, Goto
  <2>2. RequestOK'
    BY <1>0, <2>1 DEF RequestOK, During, Working
  <2> QED
    BY <2>1, <2>2, NothingCounted DEF Between, During, Working
<1>9. CASE Rank
  <2>1. Now("search") = 1
    BY <1>0, <1>9 DEF Rank, RequestOK, Now
  <2>2. /\ pc \in Working /\ UNCHANGED <<request, toolCalls, attemptedSearches, documentInspections>>
        /\ completedSearches' = completedSearches + 1
    BY <1>9 DEF Rank, Working
  <2>3. (Appended("completed") /\ Goto("turn")) \/ (AppendBreaks("completed") /\ Goto("toolfailed"))
    BY <1>9 DEF Rank
  <2> QED
    BY <2>1, <2>2, <2>3, Ending
<1>10. CASE BeginRead
  <2>1. request' = request /\ Calls("read") /\ completedSearches' = completedSearches
        /\ attemptedSearches' = attemptedSearches /\ documentInspections' = documentInspections
        /\ Started("reading")
    BY <1>10 DEF BeginRead
  <2>2. Now("search") = 0 /\ Now("inspect") = 0
    BY <2>1 DEF Calls, Now
  <2>3. /\ attemptedSearches' = attemptedSearches + Now("search") /\ attemptedSearches' \in Nat
        /\ documentInspections' = documentInspections + Now("inspect") /\ documentInspections' \in Nat
    BY <1>0, <2>1, <2>2 DEF CountersOK
  <2>4. "read" \in Tools /\ "reading" \in Working
    BY DEF Tools, Working
  <2> QED
    BY <2>1, <2>3, <2>4, Beginning
<1>11. CASE Read
  <2>1. pc = "reading" /\ UNCHANGED <<counted, request>> /\ Now("search") = 0
    BY <1>0, <1>11 DEF Read, RequestOK, Now
  <2>2. CASE Refused
    BY <2>1, <2>2, Failing DEF Refused, Goto, During, Working, Steps
  <2>3. CASE (Appended("completed") /\ Goto("turn")) \/ (AppendBreaks("completed") /\ Goto("toolfailed"))
    <3>1. completedSearches' = completedSearches + Now("search")
      BY <1>0, <2>1 DEF counted, CountersOK
    <3> QED
      BY <2>1, <2>3, <3>1, Ending DEF counted, Working
  <2>4. \/ Refused
        \/ (Appended("completed") /\ Goto("turn")) \/ (AppendBreaks("completed") /\ Goto("toolfailed"))
    BY <1>11 DEF Read, Hand
  <2> QED
    BY <2>2, <2>3, <2>4
<1>12. CASE BeginInspect
  <2>1. request' = request /\ Calls("inspect") /\ completedSearches' = completedSearches
        /\ attemptedSearches' = attemptedSearches
    BY <1>12 DEF BeginInspect
  <2>2. Now("search") = 0 /\ Now("inspect") = 1
    BY <2>1 DEF Calls, Now
  <2>3. \/ Refused /\ documentInspections' \in {documentInspections, documentInspections + 1}
        \/ Started("inspecting") /\ documentInspections' = documentInspections + 1
    BY <1>12 DEF BeginInspect
  <2>4. documentInspections' \in Nat /\ attemptedSearches' = attemptedSearches + Now("search")
        /\ attemptedSearches' \in Nat
    BY <1>0, <2>1, <2>2, <2>3 DEF CountersOK
  <2>5. "inspect" \in Tools /\ "inspecting" \in Working
    BY DEF Tools, Working
  <2> QED
    BY <2>1, <2>2, <2>3, <2>4, <2>5, Beginning
<1>13. CASE Inspect
  <2>1. pc = "inspecting" /\ UNCHANGED <<counted, request>> /\ Now("search") = 0
    BY <1>0, <1>13 DEF Inspect, RequestOK, Now
  <2>2. CASE Refused
    BY <2>1, <2>2, Failing DEF Refused, Goto, During, Working, Steps
  <2>3. CASE (Appended("completed") /\ Goto("turn")) \/ (AppendBreaks("completed") /\ Goto("toolfailed"))
    <3>1. completedSearches' = completedSearches + Now("search")
      BY <1>0, <2>1 DEF counted, CountersOK
    <3> QED
      BY <2>1, <2>3, <3>1, Ending DEF counted, Working
  <2>4. \/ Refused
        \/ (Appended("completed") /\ Goto("turn")) \/ (AppendBreaks("completed") /\ Goto("toolfailed"))
    BY <1>13 DEF Inspect, Hand
  <2> QED
    BY <2>2, <2>3, <2>4
<1>14. CASE BeginVerify
  <2>1. request' = request /\ Calls("verify") /\ completedSearches' = completedSearches
        /\ attemptedSearches' = attemptedSearches /\ documentInspections' = documentInspections
        /\ Started("verifying")
    BY <1>14 DEF BeginVerify
  <2>2. Now("search") = 0 /\ Now("inspect") = 0
    BY <2>1 DEF Calls, Now
  <2>3. /\ attemptedSearches' = attemptedSearches + Now("search") /\ attemptedSearches' \in Nat
        /\ documentInspections' = documentInspections + Now("inspect") /\ documentInspections' \in Nat
    BY <1>0, <2>1, <2>2 DEF CountersOK
  <2>4. "verify" \in Tools /\ "verifying" \in Working
    BY DEF Tools, Working
  <2> QED
    BY <2>1, <2>3, <2>4, Beginning
<1>15. CASE Verify
  <2>1. Now("search") = 0
    BY <1>0, <1>15 DEF Verify, RequestOK, Now
  <2>2. pc \in Working /\ UNCHANGED <<request, counted>>
    BY <1>15 DEF Verify, Working
  <2>3. /\ UNCHANGED <<request, toolCalls, attemptedSearches, documentInspections>>
        /\ completedSearches' = completedSearches + Now("search") /\ pc \in Working
    BY <1>0, <2>1, <2>2 DEF counted, CountersOK
  <2>4. (Appended("completed") /\ Goto("turn")) \/ (AppendBreaks("completed") /\ Goto("toolfailed"))
    BY <1>15 DEF Verify
  <2> QED
    BY <2>2, <2>3, <2>4, Ending
<1>16. CASE ModelFails
  BY <1>16, NothingCounted DEF ModelFails, Goto, RequestOK, Between, During, Working
<1>17. CASE ToolFails
  BY <1>17, Failing DEF ToolFails, Goto, During, Working, Steps
<1>18. CASE RecordFailedCall
  BY <1>18, NothingCounted DEF RecordFailedCall, Goto, RequestOK, Between, During, Working
<1>19. CASE Close
  BY <1>19, NothingCounted DEF Close, Goto, RequestOK, Between, During, Working
<1>20. CASE UNCHANGED vars
  BY <1>0, <1>20, NothingCounted DEF vars, RequestOK
<1> QED
  BY <1>1, <1>2, <1>3, <1>4, <1>5, <1>6, <1>7, <1>8, <1>9, <1>10, <1>11, <1>12, <1>13, <1>14,
     <1>15, <1>16, <1>17, <1>18, <1>19, <1>20 DEF Next, Runner, Providers

\* Whatever the model asks for and whatever fails, a draft comes only with a whole record of the
\* tool calls behind it.
THEOREM DraftsAreEarned == Spec => []DraftIsEarned
<1>1. DraftInv => DraftIsEarned
  <2> SUFFICES ASSUME DraftInv, pc = "draft" PROVE DraftIsEarned
    BY DEF DraftIsEarned
  <2>1. Settled
    BY DEF DraftInv, Between
  <2>2. Of("search") = EndsOf(events, "search") /\ Of("inspect") = EndsOf(events, "inspect")
    BY DEF Of, EndsOf
  <2> QED
    BY <2>1, <2>2 DEF Settled, Paired, Pair, Done, DraftIsEarned
<1> QED
  BY <1>1, DraftInit, DraftStep, PTL DEF Spec

(***************************************************************************)
(* What was read.  The accounting is inductive by itself: what it rests on *)
(* is that the chunks are finitely many, and how a sum over chunks grows.  *)
(***************************************************************************)
TokenCounts == [c \in Chunks |-> Tokens(c)]

\* There are finitely many chunks, each with a number of tokens.
LEMMA ChunksAreFinite == IsFiniteSet(Chunks) /\ \A c \in Chunks : TokenCounts[c] \in Nat
<1> DEFINE Named(d) == {d} \X DOMAIN Library[d].chunks
           f == [d \in Documents |-> Named(d)]
           All == {Named(d) : d \in Documents}
<1>1. \A d \in Documents : IsFiniteSet(Named(d))
  <2> TAKE d \in Documents
  <2>1. Library[d].chunks \in Seq([page : DOMAIN Library[d].pages, tokens : Nat])
    BY LibraryAssumption
  <2>2. DOMAIN Library[d].chunks = 1..Len(Library[d].chunks) /\ Len(Library[d].chunks) \in Nat
    BY <2>1
  <2>3. IsFiniteSet(DOMAIN Library[d].chunks)
    BY <2>2, FS_Interval
  <2> QED BY <2>3, FS_Singleton, FS_Product
<1>2. f \in Surjection(Documents, All)
  BY DEF Surjection
<1>3. IsFiniteSet(All)
  BY <1>2, LibraryAssumption, FS_Surjection
<1>4. \A T \in All : IsFiniteSet(T)
  BY <1>1
<1>5. IsFiniteSet(UNION All)
  <2> HIDE DEF All
  <2> QED BY <1>3, <1>4, FS_UNION
<1>6. ASSUME NEW c \in Chunks PROVE TokenCounts[c] \in Nat
  <2>1. PICK d \in Documents : c \in {d} \X DOMAIN Library[d].chunks
    BY DEF Chunks
  <2>2. c[1] = d /\ c[2] \in DOMAIN Library[d].chunks
    BY <2>1
  <2>3. Library[d].chunks \in Seq([page : DOMAIN Library[d].pages, tokens : Nat])
    BY LibraryAssumption
  <2>4. Library[d].chunks[c[2]] \in [page : DOMAIN Library[d].pages, tokens : Nat]
    <3> DEFINE records == [page : DOMAIN Library[d].pages, tokens : Nat]
               chunks == Library[d].chunks
    <3>1. c[2] \in DOMAIN chunks /\ chunks \in Seq(records)
      BY <2>2, <2>3
    <3> HIDE DEF records, chunks
    <3>2. chunks[c[2]] \in records
      BY <3>1, SeqDef
    <3> QED BY <3>2 DEF records, chunks
  <2>5. Tokens(c) \in Nat
    BY <2>2, <2>4 DEF Tokens
  <2> QED BY <2>5 DEF TokenCounts
<1>7. Chunks = UNION All
  BY Zenon DEF Chunks
<1> HIDE DEF All
<1>8. IsFiniteSet(Chunks)
  BY <1>5, <1>7, Zenon
<1>9. \A c \in Chunks : TokenCounts[c] \in Nat
  BY <1>6, Zenon
<1> QED BY <1>8, <1>9, Zenon

\* TokensOf is a sum over the chunks' counts.
LEMMA TokensAreSummed ==
  ASSUME NEW ids \in SUBSET Chunks
  PROVE  TokensOf(ids) = SumFunctionOnSet(TokenCounts, ids)
<1> DEFINE Folds(k) == k = [s \in SUBSET ids |-> IF s = {} THEN 0
                             ELSE LET x == CHOOSE x \in s : TRUE IN Tokens(x) + k[s \ {x}]]
           g == CHOOSE k : Folds(k)
           h == CHOOSE k : PartialSums(k, TokenCounts, ids)
<1>1. TokensOf(ids) = g[ids]
  BY DEF TokensOf, MapThenSumSet, MapThenFoldSet
<1>2. ASSUME NEW k PROVE Folds(k) <=> PartialSums(k, TokenCounts, ids)
  <2> DEFINE A(s) == IF s = {} THEN 0 ELSE LET x == CHOOSE x \in s : TRUE IN Tokens(x) + k[s \ {x}]
             B(s) == IF s = {} THEN 0 ELSE LET x == CHOOSE x \in s : TRUE IN TokenCounts[x] + k[s \ {x}]
  <2>1. \A s \in SUBSET ids : A(s) = B(s)
    BY DEF TokenCounts
  <2>2. Folds(k) <=> k = [s \in SUBSET ids |-> A(s)]
    OBVIOUS
  <2>3. PartialSums(k, TokenCounts, ids) <=> k = [s \in SUBSET ids |-> B(s)]
    BY DEF PartialSums
  <2> HIDE DEF A, B, Folds
  <2> QED BY <2>1, <2>2, <2>3
<1>3. IsFiniteSet(ids)
  BY ChunksAreFinite, FS_Subset
<1>4. \E k : PartialSums(k, TokenCounts, ids)
  BY <1>3, SumsExist
<1> HIDE DEF Folds
<1>5. PartialSums(g, TokenCounts, ids) /\ PartialSums(h, TokenCounts, ids)
  BY <1>2, <1>4
<1>6. SumFunctionOnSet(TokenCounts, ids) = h[ids]
  BY SumIsItsFold
<1> HIDE DEF g, h
<1>7. g[ids] = h[ids]
  BY <1>3, <1>5, SumsAgree
<1> QED BY <1>1, <1>6, <1>7

\* What an accounting of more chunks adds up to.
LEMMA TokensAddUp ==
  ASSUME NEW had, NEW ids
  PROVE  /\ TokensOf(GetChunks(had)) \in Nat
         /\ TokensOf(GetChunks(had \cup ids)) = TokensOf(GetChunks(had)) + TokensOf(GetChunks(ids) \ had)
<1> DEFINE all == GetChunks(had \cup ids)
           old == GetChunks(had)
<1>1. all \in SUBSET Chunks /\ old \in SUBSET all /\ all \ old = GetChunks(ids) \ had
  BY DEF GetChunks
<1>2. IsFiniteSet(all) /\ IsFiniteSet(old) /\ all \ old \in SUBSET Chunks /\ old \in SUBSET Chunks
  BY <1>1, ChunksAreFinite, FS_Subset
<1> HIDE DEF all, old
<1>3. \A c \in all : TokenCounts[c] \in Nat
  BY <1>1, ChunksAreFinite
<1>4. SumFunctionOnSet(TokenCounts, all)
        = SumFunctionOnSet(TokenCounts, old) + SumFunctionOnSet(TokenCounts, all \ old)
  BY <1>1, <1>2, <1>3, SumSplit
<1>5. SumFunctionOnSet(TokenCounts, old) \in Nat
  BY <1>1, <1>2, <1>3, SumRemove
<1>6. TokensOf(all) = TokensOf(old) + TokensOf(all \ old) /\ TokensOf(old) \in Nat
  BY <1>1, <1>2, <1>4, <1>5, TokensAreSummed
<1> QED BY <1>1, <1>6 DEF all, old

\* Chunks that are handed out within the limits are accounted for.
LEMMA HandingAccounts ==
  ASSUME ReadIsAccounted, NEW ids, FitsOpened(ids), Hand(ids)
  PROVE  ReadIsAccounted'
<1>1. openedChunks' = openedChunks \cup ids /\ openedTokens' = TokensWith(ids)
  BY DEF Hand
<1>2. handed' \subseteq openedChunks'
  BY <1>1 DEF Hand, ReadIsAccounted, GetChunks
<1>3. openedTokens' = TokensOf(GetChunks(openedChunks'))
  BY <1>1, TokensAddUp DEF TokensWith, ReadIsAccounted
<1>4. Cardinality(openedChunks') <= MaxOpenedChunks /\ openedTokens' <= MaxOpenedTokens
  BY <1>1 DEF FitsOpened
<1> QED BY <1>2, <1>3, <1>4 DEF ReadIsAccounted

\* However reads and inspections overlap, and wherever the investigation is broken off, what the
\* model was given to read is accounted for once and within both limits.
THEOREM ReadsAreAccounted == Spec => []ReadIsAccounted
<1>1. Init => ReadIsAccounted
  <2> SUFFICES ASSUME Init PROVE ReadIsAccounted
    OBVIOUS
  <2>1. openedChunks = {} /\ handed = {} /\ openedTokens = 0
    BY DEF Init
  <2>2. GetChunks({}) = {} /\ TokensOf({}) = 0
    BY TokensAreSummed, SumOfNothing DEF GetChunks
  <2> QED BY <2>1, <2>2, FS_EmptySet, LimitsAssumption DEF ReadIsAccounted
<1>2. ReadIsAccounted /\ [Next]_vars => ReadIsAccounted'
  <2> SUFFICES ASSUME ReadIsAccounted, [Next]_vars PROVE ReadIsAccounted'
    OBVIOUS
  <2>1. ASSUME UNCHANGED opened PROVE ReadIsAccounted'
    BY <2>1 DEF opened, ReadIsAccounted
  <2>2. CASE Read
    BY <2>1, <2>2, HandingAccounts DEF Read
  <2>3. CASE Inspect
    BY <2>1, <2>3, HandingAccounts DEF Inspect
  <2>4. CASE ModelAnswers \/ EmbeddingAnswers \/ TooManyTurns \/ StartModelCall \/ LimitReached
             \/ RecordToolFailure \/ BeginSearch \/ EmbedQuery \/ Rank \/ BeginRead \/ BeginInspect
             \/ BeginVerify \/ Verify \/ ModelFails \/ ToolFails \/ RecordFailedCall \/ Close
    BY <2>1, <2>4, Zenon DEF ModelAnswers, EmbeddingAnswers, TooManyTurns, StartModelCall, LimitReached,
       RecordToolFailure, BeginSearch, EmbedQuery, Rank, BeginRead, BeginInspect, BeginVerify, Verify,
       ModelFails, ToolFails, RecordFailedCall, Close
  <2>5. CASE UNCHANGED vars
    BY <2>1, <2>5 DEF vars
  <2> QED BY <2>2, <2>3, <2>4, <2>5 DEF Next, Runner, Providers
<1> QED BY <1>1, <1>2, PTL DEF Spec

(***************************************************************************)
(* Rankings.                                                               *)
(***************************************************************************)
\* A sequence of all elements of a finite set.
LEMMA PermutationOf ==
  ASSUME NEW S, IsFiniteSet(S), NEW q \in SetToSeqs(S)
  PROVE  q \in Seq(S) /\ Range(q) = S
<1> DEFINE n == Cardinality(S)
           D == 1..n
<1>1. n \in Nat
  BY FS_CardinalityType
<1>2. q \in [D -> S] /\ \A i, j \in D : i # j => q[i] # q[j]
  BY DEF SetToSeqs
<1>3. q \in Injection(D, S)
  BY <1>2 DEF Injection, IsInjective
<1>4. IsFiniteSet(D) /\ Cardinality(D) = n
  BY <1>1, FS_Interval
<1>5. q \in Surjection(D, S)
  BY <1>3, <1>4, FS_Injection
<1>6. q \in Seq(S)
  BY <1>1, <1>2
<1> QED BY <1>2, <1>5, <1>6 DEF Surjection, Range

\* The beginning of a sequence.
LEMMA BestOf ==
  ASSUME NEW S, NEW q \in Seq(S), NEW k \in Nat
  PROVE  /\ Best(k, q) \in Seq(S) /\ Len(Best(k, q)) \in Nat
         /\ Len(Best(k, q)) <= k /\ Len(Best(k, q)) <= Len(q)
         /\ \A i \in 1..Len(Best(k, q)) : Best(k, q)[i] = q[i]
         /\ \A i \in 1..Len(q) : i <= k => i <= Len(Best(k, q))
<1> DEFINE m == Min({k, Len(q)})
<1>1. m = k \/ m = Len(q)
  <2>1. \E x \in {k, Len(q)} : \A y \in {k, Len(q)} : x =< y
    OBVIOUS
  <2> QED BY <2>1 DEF Min
<1>2. m <= k /\ m <= Len(q) /\ m \in Nat
  <2>1. \E x \in {k, Len(q)} : \A y \in {k, Len(q)} : x =< y
    OBVIOUS
  <2> QED BY <2>1 DEF Min
<1>3. Best(k, q) = SubSeq(q, 1, m)
  BY DEF Best
<1> HIDE DEF m
<1>4. \A i \in 1..m : q[i] \in S
  BY <1>2
<1>5. /\ SubSeq(q, 1, m) \in Seq(S) /\ Len(SubSeq(q, 1, m)) = m
      /\ \A i \in 1..m : SubSeq(q, 1, m)[i] = q[i]
  BY <1>2, <1>4, SubSeqProperties
<1> QED BY <1>1, <1>2, <1>3, <1>5

\* A scope is a finite set of chunks.
LEMMA ScopesAreFinite ==
  ASSUME NEW filter
  PROVE  IsFiniteSet(InDocuments(filter)) /\ IsFiniteSet(Scope(filter))
BY ChunksAreFinite, FS_Subset DEF InDocuments, Scope

(***************************************************************************)
(* What the rankings have to do with the fused scores.                     *)
(***************************************************************************)
Fraction(s) == s.above \in Nat /\ s.below \in Nat /\ s.below > 0

LEMMA ReciprocalIsFraction ==
  ASSUME NEW S, NEW ranking \in Seq(S), NEW c
  PROVE  /\ Fraction(Reciprocal(ranking, c))
         /\ Contains(ranking, c) => /\ RankIn(ranking, c) \in Nat
                                    /\ Reciprocal(ranking, c).above = 1
                                    /\ Reciprocal(ranking, c).below = 60 + RankIn(ranking, c)
         /\ ~Contains(ranking, c) => Reciprocal(ranking, c).above = 0 /\ Reciprocal(ranking, c).below = 1
<1>1. CASE Contains(ranking, c)
  <2>1. RankIn(ranking, c) \in DOMAIN ranking
    BY <1>1 DEF RankIn, Contains
  <2>2. RankIn(ranking, c) \in Nat
    BY <2>1
  <2> QED BY <1>1, <2>2 DEF Reciprocal, Fraction
<1>2. CASE ~Contains(ranking, c)
  BY <1>2 DEF Reciprocal, Fraction
<1> QED BY <1>1, <1>2

\* One ranking: a chunk ahead has more from it, and one that is not behind no less.
LEMMA AheadHasMore ==
  ASSUME NEW S, NEW ranking \in Seq(S), NEW c, NEW d
  PROVE  /\ Ahead(ranking, c, d) => Higher(Reciprocal(ranking, c), Reciprocal(ranking, d))
         /\ NotBehind(ranking, c, d) => ~Higher(Reciprocal(ranking, d), Reciprocal(ranking, c))
<1> DEFINE s == Reciprocal(ranking, c)
           t == Reciprocal(ranking, d)
<1>1. Fraction(s) /\ Fraction(t)
  BY ReciprocalIsFraction
<1>2. ASSUME Ahead(ranking, c, d) PROVE Higher(s, t)
  <2>1. s.above = 1 /\ s.below = 60 + RankIn(ranking, c) /\ RankIn(ranking, c) \in Nat
    BY <1>2, ReciprocalIsFraction DEF Ahead
  <2>2. CASE Contains(ranking, d)
    <3>1. t.above = 1 /\ t.below = 60 + RankIn(ranking, d) /\ RankIn(ranking, d) \in Nat
      BY <2>2, ReciprocalIsFraction
    <3>2. RankIn(ranking, c) < RankIn(ranking, d)
      BY <1>2, <2>2 DEF Ahead
    <3> HIDE DEF s, t
    <3> QED BY <2>1, <3>1, <3>2 DEF Higher
  <2>3. CASE ~Contains(ranking, d)
    <3>1. t.above = 0 /\ t.below = 1
      BY <2>3, ReciprocalIsFraction
    <3> HIDE DEF s, t
    <3> QED BY <2>1, <3>1 DEF Higher
  <2> QED BY <2>2, <2>3
<1>3. ASSUME ~Contains(ranking, d) PROVE ~Higher(t, s)
  <2>1. t.above = 0 /\ t.below = 1
    BY <1>3, ReciprocalIsFraction
  <2> HIDE DEF s, t
  <2> QED BY <1>1, <2>1 DEF Higher, Fraction
<1>4. Higher(s, t) => ~Higher(t, s)
  <2> HIDE DEF s, t
  <2>1. s.above * t.below \in Nat /\ t.above * s.below \in Nat
    BY <1>1 DEF Fraction
  <2> QED BY <2>1 DEF Higher
<1> QED BY <1>2, <1>3, <1>4 DEF NotBehind

\* The arithmetic of sums of fractions.
LEMMA CrossMultiplied ==
  ASSUME NEW a \in Nat, NEW b \in Nat, NEW c \in Nat, NEW d \in Nat, NEW f \in Nat, NEW h \in Nat
  PROVE  (a * d + c * b) * (f * h) = (a * f) * (d * h) + (c * h) * (b * f)
OBVIOUS

LEMMA MoreTimes ==
  ASSUME NEW m \in Nat, NEW n \in Nat, NEW p \in Nat, m <= n
  PROVE  /\ m * p \in Nat /\ n * p \in Nat /\ m * p <= n * p
         /\ m < n /\ p > 0 => m * p < n * p
OBVIOUS

LEMMA Positive ==
  ASSUME NEW m \in Nat, NEW n \in Nat, m > 0, n > 0
  PROVE  m * n \in Nat /\ m * n > 0
OBVIOUS

\* Two rankings: what is ahead in one and not behind in the other has the higher score.
LEMMA AheadScoresHigher ==
  ASSUME NEW S, NEW dense \in Seq(S), NEW lexical \in Seq(S), NEW c, NEW d,
         NotBehind(dense, c, d), NotBehind(lexical, c, d),
         Ahead(dense, c, d) \/ Ahead(lexical, c, d)
  PROVE  Higher(Score(dense, lexical, c), Score(dense, lexical, d))
<1> DEFINE s == Reciprocal(dense, c)
           t == Reciprocal(lexical, c)
           u == Reciprocal(dense, d)
           v == Reciprocal(lexical, d)
<1>1. Fraction(s) /\ Fraction(t) /\ Fraction(u) /\ Fraction(v)
  BY ReciprocalIsFraction
<1>2. ~Higher(u, s) /\ ~Higher(v, t) /\ (Higher(s, u) \/ Higher(t, v))
  BY AheadHasMore
<1>3. /\ Score(dense, lexical, c).above = s.above * t.below + t.above * s.below
      /\ Score(dense, lexical, c).below = s.below * t.below
      /\ Score(dense, lexical, d).above = u.above * v.below + v.above * u.below
      /\ Score(dense, lexical, d).below = u.below * v.below
  BY DEF Score
<1> HIDE DEF s, t, u, v
<1>4. PICK a \in Nat, b \in Nat, f \in Nat, h \in Nat :
         a = s.above /\ b = s.below /\ f = t.above /\ h = t.below /\ b > 0 /\ h > 0
  BY <1>1 DEF Fraction
<1>5. PICK p \in Nat, q \in Nat, x \in Nat, y \in Nat :
         p = u.above /\ q = u.below /\ x = v.above /\ y = v.below /\ q > 0 /\ y > 0
  BY <1>1 DEF Fraction
<1>6. /\ a * q \in Nat /\ p * b \in Nat /\ f * y \in Nat /\ x * h \in Nat
      /\ h * y \in Nat /\ h * y > 0 /\ b * q \in Nat /\ b * q > 0
  <2>1. h * y \in Nat /\ h * y > 0
    BY <1>4, <1>5, Positive
  <2>2. b * q \in Nat /\ b * q > 0
    BY <1>4, <1>5, Positive
  <2>3. a * q \in Nat /\ p * b \in Nat /\ f * y \in Nat /\ x * h \in Nat
    OBVIOUS
  <2> QED BY <2>1, <2>2, <2>3
<1>7. p * b <= a * q /\ x * h <= f * y /\ (p * b < a * q \/ x * h < f * y)
  <2>1. ~(u.above * s.below > s.above * u.below) /\ ~(v.above * t.below > t.above * v.below)
    BY <1>2, Zenon DEF Higher
  <2>2. s.above * u.below > u.above * s.below \/ t.above * v.below > v.above * t.below
    BY <1>2, Zenon DEF Higher
  <2>3. ~(p * b > a * q) /\ ~(x * h > f * y)
    BY <1>4, <1>5, <2>1, Zenon
  <2>4. a * q > p * b \/ f * y > x * h
    BY <1>4, <1>5, <2>2, Zenon
  <2>5. PICK m1 \in Nat, n1 \in Nat, m2 \in Nat, n2 \in Nat :
           m1 = p * b /\ n1 = a * q /\ m2 = x * h /\ n2 = f * y
    BY <1>6
  <2> QED BY <2>3, <2>4, <2>5
<1>8. (a * h + f * b) * (q * y) = (a * q) * (h * y) + (f * y) * (b * q)
  BY CrossMultiplied
<1>9. (p * y + x * q) * (b * h) = (p * b) * (y * h) + (x * h) * (q * b)
  BY CrossMultiplied
<1>10. y * h = h * y /\ q * b = b * q
  OBVIOUS
<1>11. PICK m1 \in Nat, n1 \in Nat, m2 \in Nat, n2 \in Nat, k1 \in Nat, k2 \in Nat :
          m1 = p * b /\ n1 = a * q /\ m2 = x * h /\ n2 = f * y /\ k1 = h * y /\ k2 = b * q
  BY <1>6
<1>12. n1 * k1 + n2 * k2 > m1 * k1 + m2 * k2
  <2>1. m1 <= n1 /\ m2 <= n2 /\ (m1 < n1 \/ m2 < n2) /\ k1 > 0 /\ k2 > 0
    BY <1>6, <1>7, <1>11
  <2>2. m1 * k1 \in Nat /\ n1 * k1 \in Nat /\ m1 * k1 <= n1 * k1 /\ (m1 < n1 => m1 * k1 < n1 * k1)
    BY <2>1, MoreTimes
  <2>3. m2 * k2 \in Nat /\ n2 * k2 \in Nat /\ m2 * k2 <= n2 * k2 /\ (m2 < n2 => m2 * k2 < n2 * k2)
    BY <2>1, MoreTimes
  <2> QED BY <2>1, <2>2, <2>3
<1>13. (a * h + f * b) * (q * y) > (p * y + x * q) * (b * h)
  BY <1>8, <1>9, <1>10, <1>11, <1>12
<1> QED BY <1>3, <1>4, <1>5, <1>13 DEF Higher


(***************************************************************************)
(* The results of a search.                                                *)
(***************************************************************************)
\* What a ranking of the index or of the words has is in the scope, and as many as were asked for.
LEMMA DenseInScope ==
  ASSUME NEW filter, NEW k \in Nat, NEW r \in DenseRankings(filter, k)
  PROVE  r \in Seq(Scope(filter)) /\ Len(r) <= k
<1>1. PICK q \in SetToSeqs(Scope(filter)) : r = Best(k, q)
  BY DEF DenseRankings
<1>2. q \in Seq(Scope(filter))
  BY ScopesAreFinite, PermutationOf
<1> QED BY <1>1, <1>2, BestOf

LEMMA LexicalInScope ==
  ASSUME NEW filter, NEW k \in Nat, NEW r \in LexicalRankings(filter, k)
  PROVE  r \in Seq(Scope(filter)) /\ Len(r) <= k
<1>1. PICK all, q : q \in Kept(all, Scope(filter)) /\ r = Best(k, q)
  BY DEF LexicalRankings
<1> DEFINE kept == Range(all) \cap Scope(filter)
<1>2. q \in SetToSeqs(kept) /\ IsFiniteSet(kept)
  BY <1>1, ScopesAreFinite, FS_Subset DEF Kept
<1> HIDE DEF kept
<1>3. q \in Seq(kept)
  BY <1>2, PermutationOf
<1>4. q \in Seq(Scope(filter))
  BY <1>3 DEF kept
<1> QED BY <1>1, <1>4, BestOf

\* Of one ranking nothing is left out.
LEMMA OneRankingIsKept ==
  ASSUME NEW filter, NEW k \in Nat, NEW answer,
         answer.results \in Seq(Scope(filter)), Len(answer.results) <= k,
         Range(answer.dense) \cup Range(answer.lexical) \subseteq Range(answer.results)
  PROVE  RespectsRankings(answer, filter, k)
<1>1. Range(answer.results) \subseteq Scope(filter)
  BY DEF Range
<1> QED BY <1>1 DEF RespectsRankings

\* Of two, the fusion leaves out nothing that both put before something it has.
LEMMA FusionsAreKept ==
  ASSUME NEW filter, NEW k \in Nat, NEW r \in Seq(Scope(filter)), NEW s \in Seq(Scope(filter)),
         NEW t \in Fusions(r, s, k)
  PROVE  RespectsRankings([dense |-> r, lexical |-> s, results |-> t], filter, k)
<1> DEFINE found == Range(r) \cup Range(s)
           score == [c \in found |-> Score(r, s, c)]
<1>1. PICK q \in SetToSeqs(found) :
         /\ \A i, j \in DOMAIN q : i < j => ~Higher(score[q[j]], score[q[i]])
         /\ t = Best(k, q)
  BY DEF Fusions
<1>2. found \subseteq Scope(filter)
  BY DEF Range
<1>3. IsFiniteSet(found)
  BY <1>2, ScopesAreFinite, FS_Subset
<1>4. \A c \in found : score[c] = Score(r, s, c)
  OBVIOUS
<1>5. q \in Seq(found) /\ Range(q) = found
  <2> HIDE DEF found
  <2> QED BY <1>3, PermutationOf
<1> HIDE DEF found, score
<1>6. /\ t \in Seq(found) /\ Len(t) \in Nat /\ Len(t) <= k /\ Len(t) <= Len(q)
      /\ \A i \in 1..Len(t) : t[i] = q[i]
      /\ \A i \in 1..Len(q) : i <= k => i <= Len(t)
  BY <1>1, <1>5, BestOf
<1>7. Range(t) \subseteq found
  BY <1>6 DEF Range
<1>8. ASSUME NEW d \in Range(t), NEW c \in found \ Range(t),
             NotBehind(r, c, d), NotBehind(s, c, d), Ahead(r, c, d) \/ Ahead(s, c, d)
      PROVE  FALSE
  <2>1. PICK i \in 1..Len(t) : d = t[i]
    BY <1>6 DEF Range
  <2>2. PICK j \in 1..Len(q) : c = q[j]
    BY <1>5 DEF Range
  <2>3. Len(q) \in Nat /\ DOMAIN q = 1..Len(q) /\ i \in DOMAIN q /\ j \in DOMAIN q /\ d = q[i]
    BY <1>5, <1>6, <2>1
  <2>4. ~(j <= Len(t))
    <3>1. j \in 1..Len(t) => c \in Range(t)
      BY <1>6, <2>2 DEF Range
    <3> QED BY <1>6, <3>1
  <2>5. i < j
    BY <1>6, <2>4
  <2>6. ~Higher(score[c], score[d])
    BY <1>1, <2>2, <2>3, <2>5
  <2>7. score[c] = Score(r, s, c) /\ score[d] = Score(r, s, d)
    BY <1>4, <1>7
  <2>8. Higher(Score(r, s, c), Score(r, s, d))
    BY <1>8, AheadScoresHigher
  <2> QED BY <2>6, <2>7, <2>8
<1> DEFINE answer == [dense |-> r, lexical |-> s, results |-> t]
<1>9. answer.dense = r /\ answer.lexical = s /\ answer.results = t
  OBVIOUS
<1> HIDE DEF answer
<1>10. RespectsRankings(answer, filter, k)
  BY <1>2, <1>6, <1>7, <1>8, <1>9 DEF RespectsRankings, found
<1> QED BY <1>10 DEF answer

\* Whatever a search may answer respects its rankings.
LEMMA FindsRespectRankings ==
  ASSUME NEW filter, NEW k \in Nat, NEW mode \in {"dense", "lexical", "hybrid"},
         NEW answer \in Finds(mode, filter, k)
  PROVE  RespectsRankings(answer, filter, k)
<1>1. CASE mode = "dense"
  <2>1. PICK r \in DenseRankings(filter, k) : answer = [dense |-> r, lexical |-> <<>>, results |-> r]
    BY <1>1 DEF Finds, Width
  <2>2. r \in Seq(Scope(filter)) /\ Len(r) <= k
    BY DenseInScope
  <2> QED BY <2>1, <2>2, OneRankingIsKept DEF Range
<1>2. CASE mode = "lexical"
  <2>1. PICK r \in LexicalRankings(filter, k) : answer = [dense |-> <<>>, lexical |-> r, results |-> r]
    BY <1>2 DEF Finds, Width
  <2>2. r \in Seq(Scope(filter)) /\ Len(r) <= k
    BY LexicalInScope
  <2> QED BY <2>1, <2>2, OneRankingIsKept DEF Range
<1>3. CASE mode = "hybrid"
  <2> DEFINE width == Width(mode, k)
  <2>1. width \in Nat
    <3>1. k * 3 \in Nat /\ FusionWidth \in Nat
      BY LibraryAssumption
    <3>2. \E x \in {k * 3, FusionWidth} : \A y \in {k * 3, FusionWidth} : x >= y
      BY <3>1
    <3>3. Max({k * 3, FusionWidth}) \in {k * 3, FusionWidth}
      BY <3>2 DEF Max
    <3> QED BY <1>3, <3>1, <3>3 DEF Width
  <2> HIDE DEF width
  <2>2. PICK r \in DenseRankings(filter, width), s \in LexicalRankings(filter, width) :
           \E t \in Fusions(r, s, k) : answer = [dense |-> r, lexical |-> s, results |-> t]
    BY <1>3 DEF Finds, width
  <2>3. PICK t \in Fusions(r, s, k) : answer = [dense |-> r, lexical |-> s, results |-> t]
    BY <2>2
  <2>4. r \in Seq(Scope(filter)) /\ s \in Seq(Scope(filter))
    BY <2>1, DenseInScope, LexicalInScope
  <2> QED BY <2>3, <2>4, FusionsAreKept
<1> QED BY <1>1, <1>2, <1>3

\* A tool call that the model may make, a search while one goes on, and what the last one found.
FindInv ==
    /\ pc = "tool" => request \in Requests
    /\ pc \in {"searching", "embedding", "ranking"} => request \in Searches
    /\ ResultsRespectRankings

LEMMA RankFinds ==
  ASSUME FindInv, Rank
  PROVE  ResultsRespectRankings'
<1>1. request \in Searches
  BY DEF FindInv, Rank
<1>2. PICK found \in FoundBy[request] : find' = [request |-> request, found |-> found]
  BY DEF Rank
<1>3. request.mode \in {"dense", "lexical", "hybrid"} /\ request.top_k \in Nat
  BY <1>1, ArgumentsAssumption
<1>4. found \in Finds(request.mode, request.filter, request.top_k)
  BY <1>1, <1>2, Zenon DEF FoundBy
<1>5. RespectsRankings(found, request.filter, request.top_k)
  BY <1>3, <1>4, FindsRespectRankings
<1> QED BY <1>2, <1>5 DEF ResultsRespectRankings

\* Whatever the two rankings are, and whatever the filter, what a search returned is in its scope,
\* no more than was asked for, and never instead of something that both rankings put before it.
THEOREM ResultsAlwaysRespectRankings == Spec => []ResultsRespectRankings
<1>1. Init => FindInv
  BY DEF Init, FindInv, ResultsRespectRankings
<1>2. FindInv /\ [Next]_vars => FindInv'
  <2> SUFFICES ASSUME FindInv, [Next]_vars PROVE FindInv'
    OBVIOUS
  <2>1. ASSUME find' = find \/ find' = NoFind, request' = request,
               pc' = "tool" => pc = "tool",
               pc' \in {"searching", "embedding", "ranking"} =>
                  pc \in {"searching", "embedding", "ranking"}
        PROVE  FindInv'
    BY <2>1 DEF FindInv, ResultsRespectRankings
  <2>2. CASE Rank
    BY <2>2, RankFinds DEF FindInv, Rank, Goto
  <2>3. CASE BeginSearch
    <3>1. request \in Searches
      BY <2>3, ArgumentsAssumption DEF BeginSearch, Calls, FindInv, Requests, Verification
    <3>2. request' = request /\ find' = find /\ pc' # "tool"
      BY <2>3 DEF BeginSearch, Started, Refused, Goto
    <3> QED BY <3>1, <3>2 DEF FindInv, ResultsRespectRankings
  <2>4. CASE ModelAnswers
    <3>1. find' = find /\ (pc' = "tool" => request' \in Requests)
          /\ pc' \notin {"searching", "embedding", "ranking"}
      BY <2>4 DEF ModelAnswers, Recorded, RecordBreaks, Goto
    <3> QED BY <3>1 DEF FindInv, ResultsRespectRankings
  <2>5. CASE EmbedQuery \/ EmbeddingAnswers
    BY <2>1, <2>5 DEF EmbedQuery, EmbeddingAnswers, Goto
  <2>6. CASE TooManyTurns \/ StartModelCall \/ LimitReached \/ RecordToolFailure
    BY <2>1, <2>6 DEF TooManyTurns, StartModelCall, LimitReached, RecordToolFailure, Goto
  <2>7. CASE BeginRead \/ BeginInspect \/ BeginVerify \/ Verify
    BY <2>1, <2>7 DEF BeginRead, BeginInspect, BeginVerify, Verify, Started, Refused, Goto
  <2>8. CASE Read \/ Inspect
    BY <2>1, <2>8 DEF Read, Inspect, Hand, Refused, Goto
  <2>9. CASE ModelFails \/ ToolFails \/ RecordFailedCall \/ Close
    BY <2>1, <2>9 DEF ModelFails, ToolFails, RecordFailedCall, Close, Goto
  <2>10. CASE UNCHANGED vars
    BY <2>1, <2>10 DEF vars
  <2> QED BY <2>2, <2>3, <2>4, <2>5, <2>6, <2>7, <2>8, <2>9, <2>10 DEF Next, Runner, Providers
<1>3. FindInv => ResultsRespectRankings
  BY DEF FindInv
<1> QED BY <1>1, <1>2, <1>3, PTL DEF Spec

(***************************************************************************)
(* Progress.  A call of the model takes one of the turns that are left,    *)
(* and every other step takes the turn on.                                 *)
(***************************************************************************)
TurnInv == turnsLeft \in Nat

LEMMA TurnInit == Init => TurnInv
BY LimitsAssumption DEF Init, TurnInv

\* Of the steps only StartModelCall touches the turns that are left.
LEMMA TurnKept == Next /\ ~StartModelCall => UNCHANGED turnsLeft
<1>1. TooManyTurns \/ LimitReached \/ RecordToolFailure \/ BeginSearch \/ EmbedQuery \/ Rank
        => UNCHANGED turnsLeft
  BY DEF TooManyTurns, LimitReached, RecordToolFailure, BeginSearch, EmbedQuery, Rank
<1>2. BeginRead \/ Read \/ BeginInspect \/ Inspect \/ BeginVerify \/ Verify => UNCHANGED turnsLeft
  BY DEF BeginRead, Read, BeginInspect, Inspect, BeginVerify, Verify
<1>3. ModelFails \/ ToolFails \/ RecordFailedCall \/ Close \/ ModelAnswers \/ EmbeddingAnswers
        => UNCHANGED turnsLeft
  BY DEF ModelFails, ToolFails, RecordFailedCall, Close, ModelAnswers, EmbeddingAnswers
<1> QED
  BY <1>1, <1>2, <1>3 DEF Next, Runner, Providers

LEMMA TurnStep == TurnInv /\ [Next]_vars => TurnInv'
<1>1. TurnInv /\ StartModelCall => TurnInv'
  BY DEF TurnInv, StartModelCall, TakeTurn
<1>2. TurnInv /\ UNCHANGED vars => TurnInv'
  BY DEF TurnInv, vars
<1> QED
  BY <1>1, <1>2, TurnKept DEF TurnInv

LEMMA TurnIsBounded == StepsOfTurn \in 0..8
BY DEF StepsOfTurn

\* Within a turn, fewer steps are enough.
LEMMA Nearer ==
    ASSUME TurnInv, UNCHANGED turnsLeft, StepsOfTurn' \in 0..(StepsOfTurn - 1)
    PROVE  StepsLeft' \in 0..(StepsLeft - 1)
<1>1. turnsLeft \in Nat /\ turnsLeft' = turnsLeft
  BY DEF TurnInv
<1>2. PICK before \in Nat : before = StepsOfTurn
  BY TurnIsBounded
<1>3. PICK after \in Nat : after = StepsOfTurn' /\ after <= before - 1
  BY <1>2
<1>4. PICK turns \in Nat : turns = 9 * turnsLeft
  BY <1>1
<1>5. StepsLeft = turns + before
  BY <1>2, <1>4 DEF StepsLeft
<1>6. StepsLeft' = turns + after
  BY <1>1, <1>3, <1>4 DEF StepsLeft
<1>7. turns + after \in 0..((turns + before) - 1)
  BY <1>2, <1>3, <1>4
<1> QED
  BY <1>5, <1>6, <1>7

\* Each action by the points it leads from and to.
LEMMA StepAdvances == TurnInv /\ Next => StepsLeft' \in 0..(StepsLeft - 1)
<1> SUFFICES ASSUME TurnInv, Next PROVE StepsLeft' \in 0..(StepsLeft - 1)
  OBVIOUS
<1>1. CASE StartModelCall
  <2>1. StepsOfTurn = 3 /\ StepsOfTurn' \in {2, 8}
    BY <1>1 DEF StartModelCall, Goto, StepsOfTurn
  <2>2. turnsLeft' = turnsLeft - 1 /\ turnsLeft \in Nat /\ turnsLeft > 0
    BY <1>1 DEF StartModelCall, TakeTurn, TurnInv
  <2>3. StepsLeft = 9 * turnsLeft + 3
    BY <2>1 DEF StepsLeft
  <2>4. StepsLeft' = 9 * (turnsLeft - 1) + 2 \/ StepsLeft' = 9 * (turnsLeft - 1) + 8
    BY <2>1, <2>2 DEF StepsLeft
  <2> QED
    BY <2>2, <2>3, <2>4
<1>2. CASE TooManyTurns
  BY <1>2, Nearer DEF TooManyTurns, Goto, StepsOfTurn
<1>3. CASE ModelAnswers
  BY <1>3, Nearer DEF ModelAnswers, Goto, StepsOfTurn
<1>4. CASE LimitReached
  BY <1>4, Nearer DEF LimitReached, Goto, StepsOfTurn
<1>5. CASE RecordToolFailure
  BY <1>5, Nearer DEF RecordToolFailure, Goto, StepsOfTurn
<1>6. CASE BeginSearch
  BY <1>6, Nearer DEF BeginSearch, Calls, Refused, Started, Goto, StepsOfTurn
<1>7. CASE EmbedQuery
  BY <1>7, Nearer DEF EmbedQuery, Goto, StepsOfTurn
<1>8. CASE EmbeddingAnswers
  BY <1>8, Nearer DEF EmbeddingAnswers, Goto, StepsOfTurn
<1>9. CASE Rank
  BY <1>9, Nearer DEF Rank, Goto, StepsOfTurn
<1>10. CASE BeginRead
  BY <1>10, Nearer DEF BeginRead, Calls, Started, Goto, StepsOfTurn
<1>11. CASE Read
  BY <1>11, Nearer DEF Read, Hand, Refused, Goto, StepsOfTurn
<1>12. CASE BeginInspect
  BY <1>12, Nearer DEF BeginInspect, Calls, Refused, Started, Goto, StepsOfTurn
<1>13. CASE Inspect
  BY <1>13, Nearer DEF Inspect, Hand, Refused, Goto, StepsOfTurn
<1>14. CASE BeginVerify
  BY <1>14, Nearer DEF BeginVerify, Calls, Started, Goto, StepsOfTurn
<1>15. CASE Verify
  BY <1>15, Nearer DEF Verify, Goto, StepsOfTurn
<1>16. CASE ModelFails
  BY <1>16, Nearer DEF ModelFails, Goto, StepsOfTurn
<1>17. CASE ToolFails
  BY <1>17, Nearer DEF ToolFails, Working, Goto, StepsOfTurn
<1>18. CASE RecordFailedCall
  BY <1>18, Nearer DEF RecordFailedCall, Goto, StepsOfTurn
<1>19. CASE Close
  BY <1>19, Nearer DEF Close, Goto, StepsOfTurn
<1> QED
  BY <1>1, <1>2, <1>3, <1>4, <1>5, <1>6, <1>7, <1>8, <1>9, <1>10, <1>11, <1>12, <1>13, <1>14,
     <1>15, <1>16, <1>17, <1>18, <1>19 DEF Next, Runner, Providers

\* No call, failure or refusal takes an investigation back to where it was: it makes no more than
\* 9 * max_turns + 3 steps, whatever the model asks for.
THEOREM InvestigationsAdvance == Spec => InvestigationAdvances
<1>1. TurnInv /\ [Next]_vars => [StepsLeft' \in 0..(StepsLeft - 1)]_vars
  BY StepAdvances
<1> QED
  BY <1>1, TurnInit, TurnStep, PTL DEF Spec, InvestigationAdvances
=============================================================================
