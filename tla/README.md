# NeedleProof: models, model checking and proofs

NeedleProof answers a question over a fixed corpus of financial documents and seals what it did in
a receipt: a hash-chained ledger of events, the model calls, the verified claims and the outcome.
What makes it right is seldom one function. A run is a coroutine with a soft timer, a hard timeout
and a shielded finalizer; it can be cancelled at every await, its process can die between any two
writes, storage can fail, a restart repairs what was left behind, requests repair more, and a
client watches all that through an event stream it keeps reconnecting to. What a receipt says is decided
by an agent that may be broken off between any two of its calls, and by a deterministic verifier
that reads text cut into chunks and cut again into quotations. These modules model those parts of
the code, check them with TLC on small instances and prove what matters most for every value of the
constants.

Paths below are relative to `apps/api/src/needleproof_api/` unless they say otherwise.

## 1. The system

| component | state | operations | talks to |
|---|---|---|---|
| run ledger (`receipt.py` RunLedger, `db.py`) | `_sequence`, `_previous_hash`, `_openai_sequence`, the lock; tables `ledger_events`, `openai_calls` | hydrate, append, record_openai_call, seal, reserve_model_call_capacity | called by the task, the soft timer, the finalizer, every tool and hook |
| run lifecycle (`service.py`) | row of `runs`, receipt file, task, soft timer, finalizer, terminal state | _run_guarded, _soft_timeout, _finalize_run, _commit_terminal, cancel, reconcile_abandoned_runs, reconcile_pending_receipt | ledger, usage limiter, corpus |
| event stream (`main.py` run_events) | cursor, batch, back-off | one generator per connection | polls the ledger and the row, calls reconcile_pending_receipt |
| admission and shutdown (`service.py`, `security.py`, `main.py` lifespan) | admitted runs, live session per run, tasks, release events, attempt windows | create_run, _finish_task, shutdown, admit, release, rollback | semaphore, limiter, token budget, corpus.close |
| token budget (`db.py`, `security.py`, `agent.py` hooks) | table `model_token_reservations`, token usage in `openai_calls` | reserve, expand, record, release, start-up cleanup | admission, agent hooks, finalizer |
| corpus publication (`corpus.py`) | version directories, the current pointer | build, load_corpus_manifest, load_current_manifest | receipts, service |
| investigation agent (`agent.py`) | `InvestigationContext`: tool calls, searches, inspections, opened chunks and tokens; `ReceiptHooks`: the call in flight | search_corpus, read_chunks, inspect_document, verify_evidence, on_llm_start/end, record_failed_model_call | ledger, retrieval, verifier, OpenAI |
| claim verification (`verification.py`, `binding.py`, `absence.py`, `exact_scan.py`, `util.py`) | a probe's record; otherwise none | probe_metric_absence, bind_observation, verify_claims, derive_absence_conclusion_against_corpus; the pipelines of a live run and of a rehearsal | retrieval, ledger |
| retrieval (`retrieval.py`, `vector_index.py`) | SQLite index, vectors | search, resolve_chunk_ids, get_chunks, inspect_document, find_exact_metric_chunks | corpus files, OpenAI embeddings |
| readiness (`readiness.py`) | availability, time of the last probe | refresh, require | create_run route |
| receipts (`receipt.py` outside RunLedger, `legacy.py`, routes) | sealed files | validate, render, download, quote challenge | row |
| web client (`apps/web/src/scripts/investigation.ts`) | last event id, polling state | connectStream, fetchUntilTerminal, pollUntilTerminal | the API |

What is hard, and what has to hold:

* **Ledger.** An append takes its number before its insert and advances the chain after it. Three
  coroutines share the object. Rows must stay in order and no insert may meet a taken key; a
  ledger must validate unless an append was really abandoned.
* **Lifecycle.** Terminal event, receipt file and row are three writes. Whatever is cancelled,
  times out, fails or crashes, there is at most one receipt, the row leads to that receipt and
  agrees with it, what was announced is never taken back, and the run comes to an end.
* **Stream.** It reads the row, then a file, then decides about an event it listed earlier. A
  client must never be told an end the run does not keep, must miss no event, and must be told.
* **Admission.** At most `max_concurrent_runs` runs, one live run per session, an admission that
  fails must leave the windows as they were, a slot must come back with its task and not before.
* **Token budget.** Concurrent runs and processes must not commit more than a window's limit, a
  call in flight must be funded, and what was reserved must come back.
* **Corpus.** A reader must find a complete version whatever the builder was doing when it died.
* **Verification.** A model proposes quotations and values; nothing it chooses may turn a text into
  a statement it does not make. Absence is concluded from a text that was searched, scanned and
  opened in pieces, any of which can fail or not fit. A rehearsal must decide again as the run did.
* **Investigation.** Every await of a tool or of a hook can fail, time out or be cancelled, between
  what it has counted and what it has written. Whatever happens, model calls are recorded once,
  what was read is accounted for, a failed tool never leads to a draft, and the agent stops.
* **Retrieval.** Fused rankings must not prefer a chunk to one that both rankings put before it.

The hazards, each at its line, are in `PROJECT.json`.

## 2. The modules

| module | models | kind |
|---|---|---|
| `RunLedger` | RunLedger and its two tables, under any caller that hydrates a new object before it writes | component, with its own `LedgerSpec` |
| `RunOutcome` | what a run promises: one decision, announced as decided | abstract specification |
| `RunLifecycle` | one run, from the return of create_run to the sealed receipt; EXTENDS `RunLedger`, implements `RunOutcome` and `LedgerSpec` | component |
| `EventStream` | the event stream and its client over `RunLifecycle` | composition |
| `Admission` | several runs between create_run and the end of their tasks: slots, sessions, windows, reservations, shutdown | component |
| `TokenBudget` | the reservations and the recorded usage of several runs over moving windows | component |
| `CorpusPublication` | builders that race to publish versions, and servers that open them | component |
| `Retrieval` | what one version of the corpus answers: neighbours, pages, scopes, rankings and their fusion | operators |
| `Investigation` | the agent's turns, tools and hooks; EXTENDS `Retrieval` | component |
| `EvidenceText` | text as the closed regular expressions read it: classes of tokens, sentences, occurrences | operators |
| `AbsenceProbe` | the absence probe, step by step, and its re-derivation from the corpus | component |
| `EvidenceBinding` | whether a quotation of a chunk proves a value, and may be read out of its context | operators |
| `ClaimVerdict` | periods, explicit conflicts and the status of a claim | operators |
| `ClaimVerification` | a draft through its probes to its verdicts, and the rehearsal; EXTENDS `AbsenceProbe` and `ClaimVerdict` | composition |
| `MCRunLifecycle`, `MCEventStream`, `MCAdmission`, `MCTokenBudget`, `MCCorpusPublication`, `MCInvestigation`, `MCClaimVerification` | instances for TLC | model checking |
| `RunLedgerProofs`, `RunLifecycleProofs` (with `EventStream`), `AdmissionProofs`, `TokenBudgetProofs`, `CorpusPublicationProofs`, `InvestigationProofs` (with `Retrieval`), `ClaimVerificationProofs` | theorems about the components | proofs |
| `DataTheorems` | induction over finite sets, and sums over them | lemmas |

`RunLifecycle` and `EventStream` follow one run in depth; `Admission` and `TokenBudget` follow
several, each at the granularity its own state needs. Runs meet only in what these two model.
`CorpusPublication` is about other processes: the builder's command line and the servers.
`Investigation` and `ClaimVerification` open up the step that `RunLifecycle` calls work: the first
how the agent comes to a draft, the second what the verifier makes of one.

### RunLedger

`sequence`, `previousHash` and `openaiSequence` are the object's three counters, `events` and
`calls` the tables. An event's hash is identified with its sequence number: the chain only ever
continues from the hash of a row that was inserted. An append or a recorded call is two steps,
`AppendBegin`/`RecordBegin` up to the await and `WriteEnd` after it; `writing` holds the lock. In
between an insert can be abandoned (`WriteAbort`): its awaiter is cancelled, and the row may be
there or not, because aiosqlite runs the commit in a thread of its own; or it raises. `LoseMemory`
is the death of the process. `aborted` is a history variable: a surviving process abandoned an
insert. `current` says that the object's counters were read from the tables, which is the caller's
one obligation.

### RunLifecycle

`pc` is the await at which the task, its finalizer or start-up recovery stands:

| `pc` | code |
|---|---|
| `hydrate`, `admit`, `start`, `work` | `_run_guarded` up to the pipeline (service.py:409-428) |
| `failing` | the except and finally clauses inside a live investigation (agent.py:690-706) |
| `unwind` | the finally clause, up to the finalizer (service.py:474-499) |
| `list`, `terminal`, `seal`, `commit` | `_finalize_run` (service.py:724-740) |
| `mark`, `interrupt` | its except clause (service.py:741-778) |
| `release` | its finally clause (service.py:779-782) |
| `recover`, `rehydrate`, `cleanup` | `reconcile_abandoned_runs` (service.py:343-387) |
| `unstarted` | the row exists, but `create_run` was cancelled before it made the task (service.py:189) |
| `done` | no coroutine of the run |

Each action is the code between two awaits. A cancellation (`CancelTask`, `CancelShieldedTask`,
`CancelFinalizer`, `ReconcileCancelled`), the hard timeout, a storage fault (the `Fault` disjuncts)
and a crash can strike at every one of them. A write that raises may be durable all the same, since
the connection is closed after the commit (db.py:80, 150): `BreakOff` for the ledger's inserts, and a
choice of the row or the reservation in the other faults and cancellations. `doubted` is a history
variable: the terminal commit raised although it was durable, after which the finalizer interrupts a
run that has ended (service.py:769), until reconciliation commits its receipt again; `RunOutcome`
has that as `Withdraw`. `receipt` is the file: writing it is one step because
`atomic_write_text` renames it into place, and sealing it is one step because nothing is awaited
between the last check and the write. What happens between `run.started` and the end is a bounded
number of ledger writes (`RecordWork`). `row.digest` stands for `receipt_path` and `receipt_sha256`,
which are always written together.

### EventStream

`at` is the await of the generator, `seen` the row it read, which may be stale by the time it is
used, `batch` what is left of the last poll. `delivered` is what the client has received over all
its connections, and the client reconnects from the last of it until it has seen a terminal event.
A crash closes the stream. `DamageReceipt` is something outside the program breaking the sealed
file, which the stream must survive and the lifecycle's own properties do not allow for.

### Admission

One event loop, so a handler is one step from await to await; the admission and limiter locks guard
code that never awaits and are always free. `pc` is where create_run, then the run's task, stands:

| `pc` | code |
|---|---|
| `reserve`, `unreserve` | `admit` awaits reserve_model_tokens, or its handler the release (security.py:131, 150) |
| `persist` | `create_run` awaits the insert of the row (service.py:189) |
| `rollback` | its handler awaits the limiter's rollback (service.py:207) |
| `waiting`, `running` | the task before and inside the semaphore |
| `finalizing` | from the release event to the end of the finalizer |
| `ended`, `gone` | the task is done; `_finish_task` has run |
| `refused`, `failed`, `abandoned` | create_run raised: before taking a slot, after giving it back, cancelled while rolling back |

`admitted` and `live` are `_admitted_run_ids` and the keys of `_live_session_by_run` (their values
are in `request`). `attempts` gives for each session and address how many entries of each time its
deque has: the clock never runs back, so that a deque is sorted, grows at its new end, and what is
pruned at the old one is what is too old. A key without entries stands for a key that is not there. `reserved` is the set of runs with a reservation; whether the
budget allows one is a choice here, and `TokenBudget`'s subject. An await of the database answers,
fails, or is cancelled, and a broken insert or delete may have happened or not. The handler of
create_run has a branch for a run that was persisted already; nothing after the insert awaits or
fails, so it has no action. `Shutdown` runs when no request is being handled, as the ASGI server
ends its requests first; the cancelled tasks need no step of their own, because `LetGo` is possible
at any time anyway. `Shutdown` and `ShutdownEnds` contain `_close_corpus_after_shutdown`.

### TokenBudget

Each of the operations of `db.py` is one `BEGIN IMMEDIATE` transaction, so one step. The cut-offs
of the windows are computed by the caller before the transaction gets its lock, hence `CutOffs`.
`used[r][t]` sums the usage of the run's recorded calls that started at `t`, which is all the sums
read of them; `call` is the request in flight with the ceiling it was funded for, and the provider
may use any number of tokens up to that ceiling. `lost` is a history variable: tokens that were, or
may have been, spent on calls recorded without usage or not at all. `Start` is a process start:
the runs of its predecessor are dead, reconcile_abandoned_runs ends the live rows (all of them,
unless storage fails), and the clean-up removes the other reservations. A transaction that breaks
off, by an error or because its caller was cancelled, is one kind of fault, durable or not. With `Processes` of two
elements a process can start while the other one works. `owner` is fixed in `Init`.

### CorpusPublication

A builder's `at` is the next read or write that others can see or disturb: `idle` (it has yet to
hash the source), `copy`, `extract`, `embed`, `look` (does the version exist?), `publish`
(os.replace) and `point` (current.json); an error or a crash takes it back to `idle`. `draft` and
`copied` are its build directory. A manifest also stands for the version, which is its digest, and
for SQLite and the index, which are written from the same data; the copied document is read
separately, so `versions` maps a manifest to the document its directory holds. One document stands
for all. A reader is a server that opens a `CorpusStore`: the pointer is read twice, for `path` and
for `manifest`, then everything is checked. `bound` is the corpus versions in the rows of runs,
which recovery and receipts open again. `Edit` is somebody changing the source.

### Retrieval and Investigation

`Library` is a version of the corpus: documents with a date, the sizes of their pages, and chunks
with a page and a number of tokens. The dense and the lexical ranking are the index's and SQLite's,
so any ranking they may return is possible; what the code does with them (the filter before the
one and after the other, the lexical LIMIT, the widths, reciprocal rank fusion with its sums as
fractions) is modelled as it is. What the loop over the lexical rows keeps, `Kept`, is the sequence
of those in the scope in the order of their ranks.

In `Investigation` a step ends with an await and has one disjunct for each way that await may end:

| `pc` | awaits |
|---|---|
| `turn`, `model` | the runner between two turns; the model's response |
| `tool` | `use_tool`, before the body of a tool |
| `searching`, `embedding`, `ranking` | search_corpus: after its started event; the embedding call; the index |
| `reading`, `inspecting`, `verifying` | the other tools, after their started event |
| `toolfailed` | `record_tool_failures` writes the failure |
| `failing`, `closing` | the except and finally clauses of `investigate` |
| `drafted`, `draft`, `raised` | the final output, and the two ends |

`parallel_tool_calls=False`, so a response asks for one call. `events` keeps the tool events of the
ledger, `calls` the numbers of recorded calls; `sent`, `handed` and `broken` are history: calls made,
chunks whose text the model was given, and whether a write of the ledger ever raised. An append that
raises may have left its row.

### EvidenceText, AbsenceProbe, EvidenceBinding, ClaimVerdict, ClaimVerification

A text is a sequence of tokens, one for each class of words that the closed regular expressions of
the code tell apart: the metric and a token that differs from it in kind only (`kin`), two values,
six periods, the ends of sentences, the connector (`is`), a qualitative predicate (`stated`), a
pronoun with its connector (`it`), `,and`, the attribution before a date (`note`), a rubric word
(`label`), the conflict bridge and the collective remark, and a word that is none of these. The
regular expressions become conditions on these sequences; a document is a sequence of chunks.

`AbsenceProbe` has one action for each await of `probe_metric_absence` and one for a round of
following links. A probe records an excerpt of every mention (`Window` tokens on either side) but
judges its whole context, as far as its neighbours are open. `Derive` is
`derive_absence_conclusion`, from the record; `DeriveAgain` the verifier's derivation, which scans
and analyses the corpus again. `EvidenceBinding` has `bind_observation` and `verify_reference`: a
citation matches with case folded, may match in several places, and must respect the context of
quotation and chunk. `ClaimVerdict` is `verify_claim` from there on. `ClaimVerification` follows
`_run_live` from the draft to the outcome, `_run_rehearsal` on a completed run, and
`_draft_verification_feedback`. The claims of a draft are about one metric, whose probes replace
each other in `absence_probes`.

## 3. What is checked

Every run's bounds are in its `.cfg`. `MaxSequence` never stops a write (`EnoughNumbers`).
CHECK_DEADLOCK is FALSE everywhere: a finished run has nothing left to do, and neither have the
other modules' runs when their bounds are used up.

| run | bounds | asks |
|---|---|---|
| `lifecycle` | 1 piece of work, 2 cancellations, 1 fault, 2 crashes | the ten properties of the run |
| `stream` | no work, 1 cancellation or disconnection, 2 faults, 1 crash | the three properties of the stream |
| `admission` | 3 runs of 2 browsers at 1 address, 2 slots, limits 1 and 2 per hour, 3 instants, 1 error or cancellation | the eight properties of admission |
| `budget` | 2 runs, calls of up to 2 tokens, reservations of 2, limits 4 and 5, 3 instants, 1 fault, 1 restart | the three properties of the budget |
| `corpus` | 2 builders, 1 server, 2 contents, 1 edit, 1 error or crash | the three properties of publication |
| `investigation` | 3 or 4 turns, 3 tool calls, 2 searches, 2 inspections, 3 chunks and 7 tokens to open, 2 documents of 4 chunks | the six properties of an investigation |
| `verification` | 2 searches of 1 result, a scan of at most 2 chunks, 3 chunks to open, excerpts of 1 token, 1 error | the seven properties of verification |
| `cancelled_unsealed`, `second_cancel`, `second_process`, `misread_text`, `unrecorded_embedding` | the least that shows it | what the documentation says and the code does not keep |

One piece of work is enough because the properties only tell apart whether an insert is in flight,
durable or abandoned; two cancellations because the first is shielded and the second is not; two
crashes because recovery itself must survive one; two faults in the stream because one of them can
damage the receipt. With 2 faults and 2 crashes the lifecycle has more than 400,000 states and passes too.

One edit is enough to make any two of a builder's three reads disagree, and two builders enough to
race for the same version or for the pointer. Builders and the server go on for ever, so that
versions are looked for, found intact, found corrupt, opened and reopened in every order.

Three runs over two slots are enough for a third to be refused, or admitted in the middle of the
rollback of another, behind one address that all three share; a session limit of 1 and an address
limit of 2 make both windows full and free again; an hour of one instant and three instants let
attempts be inside, on the boundary and outside. In the budget an hour of 0 and a day of 1 over
three instants do the same for calls. A reservation of 2 and ceilings of up to 2 make a second call
outgrow it, and limits of 4 and 5 let one run's expansion take what the other needs.

In `investigation` every limit can be reached in three tool calls: the arguments include a search
above `MaxTopK`, reads that overlap, reach beyond the token limit or name a chunk that is not there,
and inspections with and without page numbers, backwards, too long or of no document. A
limit of 3 turns ends the runner after its third tool call, a limit of 4 lets the model ask for a
fourth one or draft an answer.

`verification` starts from three families of cases. *Citations*: twelve chunks whose statement is
taken back, continued, put in question, attributed once or twice, dated, negated by a word in front,
or said of a namesake instead or as well, with every quotation of the chunk and every assertion of the quotation,
for each value and period; what
the model could choose is enumerated, not sampled. *Variants*: three observations at every
combination of six periods and none. *Absences*: a document of three chunks taken from six pieces,
so that statements are cut at every place, and a second document, under an absence request alone,
beside a claim, or mixed with evidence. `ScanLimit` 2 and `OpenLimit` 3 are exceeded by some. The one
error may strike any search, scan or read of a probe, and the verifier's own scan or reads, in the
run or in its rehearsal.

`misread_text` verifies one draft with four claims, each of which cites a document of its own. All four
are verified, and each of them violates the property by itself.

* `RowsInKeyOrder`, `IntactUnlessAborted`: the ledger, under the real caller.
* `RowAgreesWithReceipt`: the row never names a receipt that is not the one on disk, and only an
  interruption is committed without one.
* `SealedOnce`: recovery unlinks receipts that do not match; it never meets one of its own.
* `EndsTerminal`, `EventuallyFinal`: a task that has ended leaves a terminal row and no
  reservation, and a run is brought to an announced end, unless storage failed or the finalizer
  itself was cancelled. Both exceptions are real: see the findings. A row whose creation was
  cancelled after its insert had been committed stays queued until a restart, which ends it.
* `ReceiptlessOnlyIfUnsealable`: with healthy storage a run ends without a receipt only because an
  abandoned append broke its ledger.
* `ImplementsOutcome`, `ImplementsLedger`: refinement of `RunOutcome` and of `LedgerSpec`.
* `DeliveredEndIsFinal`, `DeliveredInOrder`, `ClientLearnsTheEnd`: the stream. An end that was
  delivered can be taken back in one case, which the first of them names: the commit of the row
  raised and was durable.
* `NoTaskWaits`, `OneLiveRunPerSession`, `SlotsComeBack`: slots and sessions are taken and come
  back at the right moments, so that a run with a slot never queues and a browser is never locked
  out, nor let in twice.
* `WindowsAreExact`, `HourlyLimit`: what is rolled back among concurrent admissions is exactly the
  failed run's attempt. An attempt of exactly an hour ago still counts.
* `ReservationsAreOwned`: no live run investigates without a reservation, and no reservation is
  left to a run that is over or was never made.
* `CorpusClosedAfterUse`: the corpus is closed after its last user, grace period or not.
* `CommittedWithinBudget`: usage in a window plus what reservations have left never exceeds it.
* `SpendingWithinBudget`: what the provider is actually asked for never exceeds it either, the
  calls in flight included, as long as no call ended without its usage being recorded.
* `NothingHeldAtRest`: with healthy storage a reservation ends with its run or with the restart
  after a crash at any point, also before the run had a row.
* `PointerLeadsToVersion`, `VersionsAreImmutable`, `BoundVersionsStay`: whatever builders do or
  fail to do, the pointer never dangles, a version never changes, and what a server has opened or
  a run is bound to is valid and stays so, also when the pointer moves between two reads.
* `AbsenceIsSound`: absence is not concluded from a corpus whose documents, read from end to end,
  state a value for the metric, whatever failed, did not fit or was ranked first.
* `ProbeDecides`: a probe in which nothing failed decides as the documents read from end to end
  would, wherever they were cut; and the verifier always comes to the probe's own conclusion.
* `VerifiedIsStated`: an authoritative value is stated by the cited chunk as a reader of the whole
  chunk would take it: exactly these words, in a clause of its own, after at most one attribution,
  not in a question, with nothing after them that takes them back. `Stated` is written from the
  documentation, without quotations, assertions or boundaries. The code does not keep it in general:
  the property excepts chunks of three forms (`Misreadable`: a namesake, an attribution of an
  attribution, a number in a question), and `misread_text` shows for each of them that it must.
* `DateVariantsDisjoint`: date variants are of periods that share no quarter, in any year.
* `AuthoritiesAgree`: not found and reported are never concluded of one metric in one run.
* `RehearsalConfirms`: a rehearsal is refused only if one of its own probes was cut short, or if a
  scan by which the verifier confirms an absence failed (`unconfirmed`). That the searches rank
  differently is never the reason. A read that raises, in the probe or in the verifier, fails it too,
  before there are verdicts to refuse (`Fail`, `VerifyRaises`).
* `FeedbackHolds`: the agent was told of a claim what the verdict then says.
* `ReadIsAccounted`, `ModelCallsRecordedOnce`, `DraftIsEarned`: counters, calls and tool events
  agree with what happened, wherever the investigation was broken off.
* `InvestigationEnds`: with a draft or without one, whether or not a provider ever answers.
* `InvestigationAdvances`: every step lowers what is left of the investigation, on its failing
  branches too, so that nothing is tried for ever.
* `ResultsRespectRankings`: a search leaves nothing out that both rankings put first.

**Fairness.** Weak fairness of the task's, the finalizer's and start-up's steps: the event loop
runs what is ready, awaits of SQLite return or raise, and a supervisor restarts a dead process.
Weak fairness of reconciliation and of the stream's steps: a client asks again. Nobody has to
cancel, nothing has to fail, and the bounds on faults and crashes say that they stop some time.
In `Admission`, weak fairness of every run's own progress, for the same reason; requests, the clock
and shutdown have none. In `Investigation`, weak fairness of the runner: its awaits of SQLite and of the index
return or raise, and the client's and the tools' timeouts fire. The provider has none: a call that
is never answered is ended by a timeout or not at all. `TokenBudget`, `CorpusPublication` and
`ClaimVerification` state safety only.

**Findings.** Five runs refute statements of the documentation. A cancellation that lands inside an
append costs the run its receipt, though README.md:98 promises one. A second cancellation during
finalization cancels the finalizer. A second process that starts over the same database ends the live
runs of the first and removes their reservations, while the document speaks of a budget across
concurrent processes; with one process the budget is sound. An embedding call that is cancelled in
flight, by the tool's timeout or the run's, is not recorded. And the verifier verifies four things
that docs/verification-boundary.md says it does not (`misread_text`):

* a question. "Revenue was $2 million?" is a report, because a question mark ends an assertion as a
  full stop does (binding.py:90, verification.py:226); the document says that questions fail closed.
* an attribution of an attribution. Of "My note from our report from Q1 revenue was $5 million" a
  quotation that begins at "our" is accepted, since one attribution is taken off at the quotation and
  one at the chunk; the document says that the prefix must match the entire omitted prefix.
* a value that its chunk qualifies, when a namesake of the metric has a sentence of its own. Of
  "Forecast IT was $5 million. It was $5 million." the first sentence is verified, because the text of
  the quotation is looked for again, with case folded, and the second one may stand in for its context
  (verification.py:273); the comment at verification.py:201 says that spans cannot be mixed.
* a value that its source puts in conflict with another one, when the quotation ends right before the
  remark: the remark is an accepted boundary, and conflicts are looked for in the quotation only.

Observations that have no run: an error of the soft timer's append skips the finalizer
(service.py:478); a creation that fails because storage is down stays charged when the release of
its reservation fails as well (security.py:164); a model call that fails is recorded without usage,
and then its reservation is released (agent.py:615), so `SpendingWithinBudget` speaks of the other
calls; the builder hashes a source before it copies it, and so publishes a version that no server
will open when the source is replaced in between (corpus.py:324), which is why `BoundVersionsStay`
speaks of opened versions; a commit that raises although it is durable makes the finalizer interrupt
a run whose end was announced (service.py:769). In the verifier: a follow-up that takes a value back is
seen only if it begins with the pronoun or a period; the binder does not look into the next chunk; and
a metric whose own words are cut by a chunk boundary is not found by the scan.

## 4. What is proved

TLAPS proves the following for every value of the bounds. The proofs about the ledger and the run
use no assumption about theirs; the others name the assumption they use. Every safety property
that a passing run checks is a theorem.

| module | theorems about properties of the runs |
|---|---|
| `RunLedgerProofs` | types, `RowsInKeyOrder`, `IntactUnlessAborted` |
| `RunLifecycleProofs` | types, `ImplementsLedger`, `ImplementsOutcome`, `RowAgreesWithReceipt`, `SealedOnce`, `EndsTerminal`, `ReceiptlessOnlyIfUnsealable`; of the stream `DeliveredEndIsFinal`, `DeliveredInOrder` |
| `AdmissionProofs` | types, `NoTaskWaits`, `OneLiveRunPerSession`, `ReservationsAreOwned`, `CorpusClosedAfterUse`, `WindowsAreExact`, `HourlyLimit` |
| `TokenBudgetProofs` | `CommittedWithinBudget`, `SpendingWithinBudget`, `NothingHeldAtRest` |
| `CorpusPublicationProofs` | `PointerLeadsToVersion`, `VersionsAreImmutable`, `BoundVersionsStay` |
| `InvestigationProofs` | `ModelCallsRecordedOnce`, `DraftIsEarned`, `ReadIsAccounted`, `ResultsRespectRankings`, `InvestigationAdvances` |
| `ClaimVerificationProofs` | `ProbeDecides`, `AbsenceIsSound`, `AuthoritiesAgree`, `RehearsalConfirms`, `VerifiedIsStated`, `DateVariantsDisjoint`, `FeedbackHolds` |

**Ledger.** `LedgerInv == LedgerTypeOK /\ Numbered /\ InStep` is inductive under
`LedgerNext`. `RowsInKeyOrder` is not inductive by itself: one has to know that an object that
may write has counted all rows and that the number it is inserting is above theirs (`Numbered`).
`IntactUnlessAborted` needs the counters to be level with the tables, or one ahead during an
insert (`Level`), until an insert is abandoned. A further theorem says that nothing turns a broken
chain into a valid one.

**Run.** `LifecycleInv` is inductive. `Placed` says where the run can be and what it
is ending as, `Hydrated` that whoever may append has an object that knows the rows, `OneReceipt`
that the copies of the receipt are copies of the one on disk and that until the finalizer commits
the row is open, unless the commit was durable and raised (`Doubtful`). From it follow
`RowAgreesWithReceipt`, `SealedOnce`, that every step of a run is a step of the ledger or leaves it alone (`ImplementsLedger`), and that
the run implements `RunOutcome`: a seal is `Decide`, a commit or an interruption is `Announce` or
a stutter, and the interruption after a doubted commit is `Withdraw`. Because the run implements `LedgerSpec`, the ledger's theorems hold in every run.

The end of a run needs more, `EndingInv`. `EndsTerminal` speaks of the row, but whether the row gets
its end depends on whether the finalizer can seal, and that on the ledger: a receipt is refused when
the terminal event is missing or not the last. So `EndIsLast` follows the terminal events through
every append, abandoned ones included, and `EndsWell` says of each point after the finalizer's
failure that the ledger was broken by an abandoned append, as long as no storage fault occurred and
nobody cancelled the finalizer itself.

**Stream.** The run underneath may find its receipt damaged, which `LifecycleInv` does not allow
for. `DamagedInv` is what is left of it, and `RowsHold` what holds of the ledger in any case. The
generator judges a row it has read earlier by the file as it is now: `SeenHolds` says in which one
way such a row can be out of date, and `Settled` when no receipt that says otherwise can still be
committed, so that the end a client is told is the run's, as long as no commit was doubted. For the order of what is delivered,
`StreamOrder` relates four sequences: the ledger's rows, the batch, which is a stretch of them, the
cursor, and what the client has. Their numbers may have gaps, since a ledger may be broken.

**Admission**, from `AdmissionAssumption` (run numbers, finitely many runs, at least one slot):
`AdmissionInv` is inductive. `Slots` says that a run is in `admitted` exactly while it holds a
slot, and that sessions in `live` are distinct; counting gives `NoTaskWaits`, because a waiting run
is one of at most `MaxConcurrent` and not one of the running ones. Neither property is inductive:
one has to know of every run that is being created, finalized or finished that its slot is still
counted. `Reservations` says at which points a run must, and may, have a reservation. `Closing`
says that once shutdown has begun nobody is being created and everyone who can use the corpus is
awaited; it gives `CorpusClosedAfterUse`. The windows have an invariant of their own, `WindowInv`.
`Known` says that `_attempt_by_run` still has the attempt of a run that is being created, unless it
is too old to matter, so that a rollback takes that attempt and no other. The windows then hold
exactly the charged runs of the last hour. The limit is stated of every hour, also one that began
before the last: `HourKept` follows because the latest of the runs in it was let in when the window
held all the others (`CountByClass`: a sum of counts per time is the number of runs).

**Token budget**, from `BudgetAssumption`. `SecondProcess` shows that the budget does not hold when a
process starts beside another one. The theorems therefore have `[][StartsAlone]_vars` as a
hypothesis, which says just that, and `OneProcessKeepsBudget` shows that with one process it is no
hypothesis at all. `NothingHeldAtRest` needs neither. In `BudgetInv`, `CallIsFunded` says that a
call in flight may use no more than its run has reserved and not used, and it
is what keeps `CommittedWithinBudget` when the answer comes. That time passes can only
lower a commitment (`CommittedLater`), and a cut-off taken before a transaction got its lock only
raises it. The sums are over functions that change in one place.

**Corpus publication**, from `CorpusAssumption`, for any builders, readers, contents and embeddings:
`CorpusInv` adds to
the properties that a builder about to advance the pointer has seen its version in place, and that
a pointer once found is always found. Everything rests on one lemma, `StepVersions`: versions only
grow. It is also `VersionsAreImmutable`.

**Investigation**, from `ArgumentsAssumption`, `LimitsAssumption` and `LibraryAssumption`, for every
library, limit and set of arguments.
`ModelCallsRecordedOnce` needs to know where a call can be in flight (`CallInv`): `armed` only while
the model is awaited or the failure handler has yet to run, so that what the handler records is
exactly a call that was sent and not recorded. `DraftIsEarned` rests on `DraftInv`: at every point
from which a draft can still be reached the events are pairs of a started and a completed event, one
for each counted call, with one more started event inside a tool (`Settled`, `Unsettled`), and the
numbers of completed searches and inspections are the counters. A step that breaks this leads to
`toolfailed` or `failing`, from which no draft is reached. An appended event adds one index to the
set `Of(tool)`, whose cardinality the counters are. `ReadIsAccounted` is inductive as it stands; its
proof is the sum over a union (`TokensAddUp`). `ResultsRespectRankings` is about the fusion: a chunk
ahead of another in a ranking has the larger reciprocal there, one that is not behind no smaller a
one, and cross-multiplied sums keep both (`AheadScoresHigher`); a chunk that was left out comes
behind all results in an order that never puts a higher score later. The rankings are arbitrary.

A last theorem, `InvestigationsAdvance`, is what `InvestigationEnds` rests on without any fairness:
each step lowers what is left of an investigation (`StepsLeft`: nine for each turn left, then how far
the turn is), on its failing branches too (`StepAdvances`). Nothing is tried twice, and there are at
most `9 * max_turns + 3` steps. It needs only `turnsLeft \in Nat`.

**Claim verification**, from `CasesAssumption` and `ProbeAssumption`, for every corpus and every
draft over the token classes. `VerdictInv` says that the verdicts are those of
the draft there is, in a corpus that nothing changes, and that a claim with a request is not found
or unverified. `FeedbackHolds` follows by cases. For `DateVariantsDisjoint` one has to know that a
value was not given a period that another has: a status of date variants says only that each value
has one period and that there are as many periods as values, so the map from the ones to the others
is injective (`OnePeriodEach`); and periods that are provably distinct share no quarter in any year
(`DistinctShareNoQuarter`).

The probe has `ProbeInv`: its record is that of the corpus, and unless a limit was met its opened
chunks are closed under links. Then a document is open as a whole or not at all (`ClosedIsWhole`), and
the context of a mention reaches as far as it would in the whole document; and whatever is evidence
in a recorded excerpt is evidence in the context it was cut from (`ExcerptIsCut`, `CutEvidence`). So
nothing is decided by where a document was cut (`CompleteRecord`), which is `ProbeDecides`. For
`AbsenceIsSound` a mention in the text of a whole document is located in its chunk (`LocatedIn`,
`WholeInDocument`), and a value that is stated of it there is a number the analysis finds
(`ValueIsEvidence`). For `AuthoritiesAgree` the binder's reading of a quotation is compared with the
analysis of the mention it is about: what binds goes on in one of a few ways (`BoundSpeaks`), also in
the chunk around the quotation, and a mention that goes on like that has evidence
(`SpeakingIsEvidence`). `RehearsalConfirms` needs that, when nothing was cut short, the verdict of
absence is a function of the corpus (`ProbeIsJudged`): what the searches ranked first is not looked at.
`RehearsalHolds` carries that from the first run to its rehearsal. The verifier's own scan, when it does
not fail, finds what the probe's did, and a claim whose scan fails is named by `unconfirmed`.

`VerifiedIsStated` compares two readers of one text. What the binder accepts of an assertion is first
put in terms of places (`Parts`: metric, value, period and the end of the report; `Antecedent`: the
sentence a pronoun goes back to). An assertion so divided is a clause or a pair of sentences that
`Stated` knows (`DirectIsClause`, `PronounIsStated`), and it stays one in any text it stands in letter
for letter (`ClauseShift`, `PronounShift`). What stands around it is known from two checks, one of
the assertion in its quotation and one of the quotation in its chunk, each of which sees the other's
edge only. `ReportStarts` and `ReportStands` put them together, for a report that ends with its
sentence or before it, in the middle or at the end of the quotation; case folding loses nothing
there, because only the metric has a namesake (`FoldSame`). What they arrive at (`MayStart`, `MayStand`) is
all that the checks give for any text. In a text that is not `Misreadable` it is enough: without a
namesake the place that was checked is the one where the words stand, two attributions in a row do not
occur, and what is said ends with a number (`StatesToNumber`), which is not in a question
(`ReadableIsStated`).

**Induction over data.** The library states induction for an operator parameter, which the provers
do not instantiate. `DataTheorems` and the proofs about texts use a set of good elements in its
place and take a least bad one, whose existence follows from the library's well-founded relations
(`LeastNatural`, `SubsetInduction`). That is enough for sums, counts and chains of links; nothing
recursive is declared in the models.

**Only model-checked.** The four liveness properties, since TLAPS has no liveness under fairness.
Of `InvestigationEnds` the measure is proved to fall with every step (`InvestigationsAdvance`); that
a step is always possible before the end, and is taken, is left to TLC.

## 5. What is not modelled

The rest of the table in section 1, for the reasons `PROJECT.json` gives. Retention at start-up
deletes whole runs before any is recovered; in the budget it would take old usage away, which only
lowers the sums. The contents of events, envelopes and receipts are left out: no property is about
them. The model availability probe, which the route awaits before create_run, only delays a request
or refuses it; it is sequential under one lock. Threads of a cancelled search, which may go on
reading the index, are below these models.

In the texts of the verifier: qualitative values and their negation; events, months, dates and fiscal
years; units, per-share values and rates other than as a kind that never binds; metrics spelled in
capitals that a compact spelling makes ambiguous; limits on the number of words between two parts;
connectors that differ in wording only, which are the one token `is`; periods that contain the words
of another one, whose tokens are distinct here; the overlap of neighbouring chunks; more than one
metric in a draft. The events of the pipeline between draft and outcome are one step, as nothing is
decided between them.

## 6. Plan

Done: `RunLedger`, `RunOutcome`, `RunLifecycle`, `EventStream`, `Admission`, `TokenBudget`,
`CorpusPublication`, `Retrieval`, `Investigation`, `EvidenceText`, `AbsenceProbe`,
`EvidenceBinding`, `ClaimVerdict`, `ClaimVerification`.

1. Chunking of a page (`chunk_page`, `_split_oversized_paragraph`) as an algorithm over word counts:
   no word lost, overlap bounded, chunks within the maximum; then the overlap in `AbsenceProbe`.
2. The web client's connect and poll fallback over `EventStream`; the readiness cache.
3. An abstract budget that only reserving and expanding may draw on, which `TokenBudget` implements,
   and an abstract pool of slots for `Admission`.
