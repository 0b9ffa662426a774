----------------------------- MODULE Investigation -----------------------------
(***************************************************************************)
(* One investigation: the agent's turns, its four tools and what they      *)
(* count, and the hooks that record model calls (agent.py; retrieval.py    *)
(* search, embed_query).                                                   *)
(*                                                                         *)
(* One response of the model asks for one tool call or is the draft        *)
(* (parallel_tool_calls=False).  A step ends with an await, and has one    *)
(* case for each way the await may end.  Of the ledger's rows the tool     *)
(* events and the numbers of recorded calls are kept; RunLedger.tla has    *)
(* the rest.  An append that raises, or is cancelled, may have left its    *)
(* row behind.                                                             *)
(***************************************************************************)
EXTENDS Retrieval

CONSTANTS
    Searches, Reads, Inspections,     \* the arguments of the tool calls the model may make
    TurnLimits,                       \* the settings of max_turns considered
    MaxToolCalls, MaxSearches, MaxTopK,
    MaxOpenedChunks, MaxOpenedTokens,
    MaxInspections, MaxInspectionPages, MaxInspectionCharacters

Unsaid == 0     \* an optional page that was left out

ASSUME LimitsAssumption ==
    /\ TurnLimits \subseteq Nat /\ MaxToolCalls \in Nat /\ MaxSearches \in Nat /\ MaxTopK \in Nat
    /\ MaxOpenedChunks \in Nat /\ MaxOpenedTokens \in Nat
    /\ MaxInspections \in Nat /\ MaxInspectionPages \in Nat \ {0} /\ MaxInspectionCharacters \in Nat

ASSUME ArgumentsAssumption ==
    /\ \A s \in Searches : s.tool = "search" /\ s.mode \in {"dense", "lexical", "hybrid"} /\ s.top_k \in Nat
    /\ \A r \in Reads : r.tool = "read" /\ IsFiniteSet(r.ids) /\ r.radius \in 0..2
    /\ \A i \in Inspections : i.tool = "inspect" /\ i.from \in Nat /\ i.to \in Nat

Tools == {"search", "read", "inspect", "verify"}
Verification == [tool |-> "verify"]
Requests == Searches \cup Reads \cup Inspections \cup {Verification}
NoRequest == [tool |-> "none"]
Operations == {"model", "embedding"}

VARIABLES
    pc,              \* where the investigation awaits, or how it ended
    turnsLeft,       \* of the runner's max_turns
    request,         \* the tool call in progress
    toolCalls, attemptedSearches, completedSearches, signatures,   \* InvestigationContext
    openedChunks, openedTokens, openedPages, documentInspections,
    armed,           \* ReceiptHooks._llm_started is set
    events,          \* the tool events in the ledger
    calls,           \* how many calls of an operation are recorded
    sent,            \* how many were made
    handed,          \* the chunks whose text the model was given
    find,            \* the search that was completed last, its rankings and results
    broken           \* some write of the ledger raised or was cancelled

counted == <<toolCalls, attemptedSearches, completedSearches, signatures, documentInspections>>
opened == <<openedChunks, openedTokens, openedPages, handed>>
hooks == <<armed, calls, sent>>
vars == <<pc, turnsLeft, request, counted, opened, hooks, events, find, broken>>

NoFind == [request |-> NoRequest]

Init ==
    /\ pc = "turn" /\ turnsLeft \in TurnLimits /\ request = NoRequest
    /\ toolCalls = 0 /\ attemptedSearches = 0 /\ completedSearches = 0 /\ signatures = {}
    /\ documentInspections = 0
    /\ openedChunks = {} /\ openedTokens = 0 /\ openedPages = {} /\ handed = {}
    /\ armed = FALSE /\ calls = [o \in Operations |-> 0] /\ sent = [o \in Operations |-> 0]
    /\ events = <<>> /\ find = NoFind /\ broken = FALSE

Goto(point) == pc' = point
Count(counter, o) == [counter EXCEPT ![o] = @ + 1]

\* ledger.append of a tool's event, and record_openai_call.
Event(step) == [tool |-> request.tool, step |-> step]
Appended(step) == events' = Append(events, Event(step)) /\ UNCHANGED broken
AppendBreaks(step) == (UNCHANGED events \/ events' = Append(events, Event(step))) /\ broken' = TRUE
Recorded(o) == calls' = Count(calls, o) /\ UNCHANGED broken
RecordBreaks(o) == (UNCHANGED calls \/ calls' = Count(calls, o)) /\ broken' = TRUE

(***************************************************************************)
(* Turns and model calls.                                                  *)
(***************************************************************************)
TooManyTurns ==
    /\ pc = "turn" /\ turnsLeft = 0 /\ Goto("failing")
    /\ UNCHANGED <<turnsLeft, request, counted, opened, hooks, events, find, broken>>

\* Runner.run counts max_turns down.
\* Mutant: a call that is made again takes no turn.
FreeTurn == turnsLeft > 0 /\ UNCHANGED turnsLeft
TakeTurn == turnsLeft > 0 /\ turnsLeft' = turnsLeft - 1

\* on_llm_start: a call that is refused its tokens, or whose start cannot be told, is not made.
StartModelCall ==
    /\ pc = "turn" /\ TakeTurn
    /\ \/ /\ Goto("model") /\ armed' = TRUE /\ sent' = Count(sent, "model")
          /\ UNCHANGED broken
       \/ Goto("failing") /\ UNCHANGED <<armed, sent, broken>>
       \/ Goto("failing") /\ broken' = TRUE /\ UNCHANGED <<armed, sent>>
    /\ find' = NoFind
    /\ UNCHANGED <<request, counted, opened, calls, events>>

\* Mutant: a call that was recorded is not forgotten.
StayArmed == UNCHANGED armed
Disarm == armed' = FALSE

\* on_llm_end, and what the response is: a tool call, the draft, or neither.
ModelAnswers ==
    /\ pc = "model" /\ Disarm
    /\ \/ /\ Recorded("model")
          /\ \/ \E r \in Requests : request' = r /\ Goto("tool")
             \/ Goto("drafted") /\ UNCHANGED request
             \/ Goto("failing") /\ UNCHANGED request
       \/ RecordBreaks("model") /\ Goto("failing") /\ UNCHANGED request
    /\ UNCHANGED <<turnsLeft, counted, opened, sent, events, find>>

(***************************************************************************)
(* What all tools have in common.                                          *)
(***************************************************************************)
Calls(tool) == pc = "tool" /\ request.tool = tool /\ toolCalls < MaxToolCalls /\ toolCalls' = toolCalls + 1

\* The started event is written, or the tool fails.
Started(point) ==
    \/ Appended("started") /\ Goto(point)
    \/ AppendBreaks("started") /\ Goto("toolfailed")
Refused == Goto("toolfailed") /\ UNCHANGED <<events, broken>>

\* use_tool at its limit, which it tells the ledger.
LimitReached ==
    /\ pc = "tool" /\ toolCalls = MaxToolCalls /\ Goto("toolfailed")
    /\ Appended("limit_reached") \/ AppendBreaks("limit_reached")
    /\ UNCHANGED <<turnsLeft, request, counted, opened, hooks, find>>

\* record_tool_failures: the failure is written, or not, and ends the investigation.
\* Mutant: the model is told of the failure and goes on.
FailureAnswered ==
    /\ pc = "toolfailed" /\ Goto("turn")
    /\ Appended("failed") \/ AppendBreaks("failed")
    /\ UNCHANGED <<turnsLeft, request, counted, opened, hooks, find>>
RecordToolFailure ==
    /\ pc = "toolfailed" /\ Goto("failing")
    /\ Appended("failed") \/ AppendBreaks("failed")
    /\ UNCHANGED <<turnsLeft, request, counted, opened, hooks, find>>

(***************************************************************************)
(* search_corpus.                                                          *)
(***************************************************************************)
BeginSearch ==
    /\ Calls("search")
    /\ IF attemptedSearches = MaxSearches THEN Refused /\ UNCHANGED attemptedSearches
       ELSE /\ attemptedSearches' = attemptedSearches + 1
            /\ IF request.top_k > MaxTopK THEN Refused ELSE Started("searching")
    /\ UNCHANGED <<turnsLeft, request, completedSearches, signatures, documentInspections, opened, hooks, find>>

\* embed_query is sent, unless the search is by words only.
EmbedQuery ==
    /\ pc = "searching"
    /\ IF request.mode = "lexical" THEN Goto("ranking") /\ UNCHANGED sent
       ELSE Goto("embedding") /\ sent' = Count(sent, "embedding")
    /\ UNCHANGED <<turnsLeft, request, counted, opened, armed, calls, events, find, broken>>

\* An answer or an error is recorded; the search goes on after an answer.
EmbeddingAnswers ==
    /\ pc = "embedding"
    /\ \/ Recorded("embedding") /\ (Goto("ranking") \/ Goto("toolfailed"))
       \/ RecordBreaks("embedding") /\ Goto("toolfailed")
    /\ UNCHANGED <<turnsLeft, request, counted, opened, armed, sent, events, find>>

FoundBy == [s \in Searches |-> Finds(s.mode, s.filter, s.top_k)]

\* The rankings are fused, and the search is completed before its end is written.
Rank ==
    /\ pc = "ranking"
    /\ \E found \in FoundBy[request] : find' = [request |-> request, found |-> found]
    /\ completedSearches' = completedSearches + 1
    /\ signatures' = signatures \cup {request}
    /\ \/ Appended("completed") /\ Goto("turn")
       \/ AppendBreaks("completed") /\ Goto("toolfailed")
    /\ UNCHANGED <<turnsLeft, request, toolCalls, attemptedSearches, documentInspections, opened, hooks>>

(***************************************************************************)
(* read_chunks and inspect_document.                                       *)
(***************************************************************************)
TokensOf(ids) == MapThenSumSet(Tokens, ids)

\* Mutant: chunks that were read before are counted again.
CountAgain(ids) == openedTokens + TokensOf(GetChunks(ids))
TokensWith(ids) == openedTokens + TokensOf(GetChunks(ids) \ openedChunks)

FitsOpened(ids) ==
    /\ Cardinality(openedChunks \cup ids) <= MaxOpenedChunks
    /\ TokensWith(ids) <= MaxOpenedTokens

\* The accounting is done when the text is put together, before the end is written: the model is
\* given the text after that.
Hand(ids) ==
    /\ openedChunks' = openedChunks \cup ids
    /\ openedTokens' = TokensWith(ids)
    /\ \/ Appended("completed") /\ Goto("turn") /\ handed' = handed \cup GetChunks(ids)
       \/ AppendBreaks("completed") /\ Goto("toolfailed") /\ UNCHANGED handed

BeginRead ==
    /\ Calls("read") /\ Started("reading")
    /\ UNCHANGED <<turnsLeft, request, attemptedSearches, completedSearches, signatures,
                   documentInspections, opened, hooks, find>>

\* An id that names no chunk is opened like one that does.
Read ==
    /\ pc = "reading"
    /\ LET ids == Resolved(request.ids, request.radius)
       IN IF FitsOpened(ids) THEN Hand(ids) /\ UNCHANGED openedPages
          ELSE Refused /\ UNCHANGED opened
    /\ UNCHANGED <<turnsLeft, request, counted, hooks, find>>

From == IF request.from = Unsaid THEN 1 ELSE request.from
To == IF request.to = Unsaid THEN From + MaxInspectionPages - 1 ELSE request.to

BeginInspect ==
    /\ Calls("inspect")
    /\ IF documentInspections = MaxInspections THEN Refused /\ UNCHANGED documentInspections
       ELSE /\ documentInspections' = documentInspections + 1
            /\ IF To < From \/ To + 1 - From > MaxInspectionPages THEN Refused
               ELSE Started("inspecting")
    /\ UNCHANGED <<turnsLeft, request, attemptedSearches, completedSearches, signatures, opened, hooks, find>>

Inspect ==
    /\ pc = "inspecting"
    /\ LET d == request.document
           ids == ChunksIn(d, From, To)
       IN IF /\ d \in Documents /\ FitsOpened(ids)
             /\ MapThenSumSet(LAMBDA p : Library[d].pages[p], PagesIn(d, From, To)) <= MaxInspectionCharacters
            THEN Hand(ids) /\ openedPages' = openedPages \cup ({d} \X PagesIn(d, From, To))
          ELSE Refused /\ UNCHANGED opened
    /\ UNCHANGED <<turnsLeft, request, counted, hooks, find>>

(***************************************************************************)
(* verify_evidence: ClaimVerification.tla says what it answers.            *)
(***************************************************************************)
BeginVerify ==
    /\ Calls("verify") /\ Started("verifying")
    /\ UNCHANGED <<turnsLeft, request, attemptedSearches, completedSearches, signatures,
                   documentInspections, opened, hooks, find>>

Verify ==
    /\ pc = "verifying"
    /\ \/ Appended("completed") /\ Goto("turn")
       \/ AppendBreaks("completed") /\ Goto("toolfailed")
    /\ UNCHANGED <<turnsLeft, request, counted, opened, hooks, find>>

(***************************************************************************)
(* Errors, timeouts and cancellation; and the end.                         *)
(***************************************************************************)
Working == {"searching", "ranking", "reading", "inspecting", "verifying"}

\* The timeouts of the client and of the tools; an answer that is awaited may never come.
\* Mutant: the client has none.
TimedTools == Working \cup {"embedding"}
Timed == Working \cup {"embedding", "model"}

\* A model call fails, is timed out or is cancelled.
ModelFails ==
    /\ pc = "model" /\ pc \in Timed /\ Goto("failing")
    /\ UNCHANGED <<turnsLeft, request, counted, opened, hooks, events, find, broken>>

\* A tool raises, is timed out or is cancelled: what it has counted stays, and a query that was
\* sent is not recorded.
ToolFails ==
    /\ pc \in Working \cup {"embedding"} /\ pc \in Timed /\ Goto("toolfailed")
    /\ UNCHANGED <<turnsLeft, request, counted, opened, hooks, events, find, broken>>

\* record_failed_model_call.
RecordFailedCall ==
    /\ pc = "failing" /\ Goto("closing")
    /\ IF armed THEN Disarm /\ (Recorded("model") \/ RecordBreaks("model"))
       ELSE UNCHANGED <<armed, calls, broken>>
    /\ UNCHANGED <<turnsLeft, request, counted, opened, sent, events, find>>

\* The session is cleared and the client closed; an error of that replaces the draft.
Close ==
    /\ \/ pc = "closing" /\ Goto("raised")
       \/ pc = "drafted" /\ (Goto("draft") \/ Goto("raised"))
    /\ UNCHANGED <<turnsLeft, request, counted, opened, hooks, events, find, broken>>

Providers == ModelAnswers \/ EmbeddingAnswers
Runner ==
    \/ TooManyTurns \/ StartModelCall \/ LimitReached \/ RecordToolFailure
    \/ BeginSearch \/ EmbedQuery \/ Rank
    \/ BeginRead \/ Read \/ BeginInspect \/ Inspect \/ BeginVerify \/ Verify
    \/ ModelFails \/ ToolFails \/ RecordFailedCall \/ Close

Next == Runner \/ Providers

\* Nobody makes the provider answer.
Spec == Init /\ [][Next]_vars /\ WF_vars(Runner)

(***************************************************************************)
(* Properties.                                                             *)
(***************************************************************************)
\* All that the model was given to read is accounted for, once, and within both limits, however
\* its reads and inspections overlap and whichever of them failed on the way (agent.py:316-331,
\* 382-403).
ReadIsAccounted ==
    /\ handed \subseteq openedChunks
    /\ openedTokens = TokensOf(GetChunks(openedChunks))
    /\ Cardinality(openedChunks) <= MaxOpenedChunks /\ openedTokens <= MaxOpenedTokens

\* Every model call that was made is recorded exactly once, as a success or as a failure, wherever
\* the investigation was broken off, unless the ledger could not be written (agent.py:544-640, 690).
ModelCallsRecordedOnce ==
    /\ calls["model"] <= sent["model"]
    /\ ~broken => calls["model"] + (IF armed THEN 1 ELSE 0) = sent["model"]

\* A draft has a whole record: every counted tool call is in the ledger, started and then
\* completed, the searches and inspections among them are those that were counted, and nothing
\* failed (agent.py:117-149, 233-474; README.md:98).
Of(tool) == {i \in DOMAIN events : events[i].tool = tool /\ events[i].step = "completed"}
DraftIsEarned ==
    pc = "draft" =>
        /\ Len(events) = 2 * toolCalls
        /\ \A i \in 1..toolCalls :
              /\ events[2 * i - 1] = [tool |-> events[2 * i].tool, step |-> "started"]
              /\ events[2 * i].step = "completed"
        /\ attemptedSearches = Cardinality(Of("search")) /\ completedSearches = attemptedSearches
        /\ documentInspections = Cardinality(Of("inspect"))

\* What a search returned is in its scope, is no more than was asked for, and leaves nothing out
\* that both rankings put before something it has (retrieval.py:345-373).
ResultsRespectRankings ==
    find # NoFind => RespectsRankings(find.found, find.request.filter, find.request.top_k)

\* An investigation ends, with a draft or without one, whether or not a provider ever answers
\* (agent.py:233-426, 660-690).
InvestigationEnds == <>(pc \in {"draft", "raised"})

\* Nothing is tried twice: whatever succeeds, fails, is refused or breaks off at a limit, each step
\* takes the investigation nearer to its end, fair scheduling or not; at the start that is at most
\* 9 * max_turns + 3 steps away (agent.py:117-149, 216-231, 544-690).
StepsOfTurn ==
    CASE pc = "model" -> 8
      [] pc = "tool" -> 7
      [] pc = "searching" -> 6
      [] pc = "embedding" -> 5
      [] pc \in {"ranking", "reading", "inspecting", "verifying"} -> 4
      [] pc \in {"turn", "toolfailed"} -> 3
      [] pc = "failing" -> 2
      [] pc \in {"closing", "drafted"} -> 1
      [] OTHER -> 0
StepsLeft == 9 * turnsLeft + StepsOfTurn
InvestigationAdvances == [][StepsLeft' \in 0..(StepsLeft - 1)]_vars

\* As the documentation has it: the receipt has all model and embedding calls (README.md:107).
CallsAreRecorded ==
    pc \in {"draft", "raised"} /\ ~broken => calls = sent
=============================================================================
