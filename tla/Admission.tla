------------------------------ MODULE Admission ------------------------------
(***************************************************************************)
(* Admission of runs, and the end of the service (service.py create_run,   *)
(* _finish_task, shutdown; security.py PublicUsageLimiter; main.py         *)
(* _close_corpus_after_shutdown): a slot out of a bounded number, one live *)
(* run per browser session, hourly windows per session and address, and a  *)
(* model-token reservation, each given back on every path that ends the    *)
(* run or fails to create it.                                              *)
(*                                                                         *)
(* All this is one event loop.  The admission and limiter locks guard code *)
(* that never awaits, so between two awaits a handler is one step; what    *)
(* may fail or be cancelled is an await of the database.  How many tokens  *)
(* are left is decided elsewhere: a reservation is granted or refused.     *)
(***************************************************************************)
EXTENDS Naturals, FiniteSets, Functions

CONSTANTS
    Runs,               \* run identifiers, numbered in the order they are made
    Sessions, Addresses,
    Requests,           \* the kinds of request that arrive
    MaxConcurrent,      \* settings.max_concurrent_runs
    PerSession,         \* settings.max_runs_per_session_per_hour
    PerAddress,         \* settings.max_runs_per_ip_per_hour
    Hour,               \* the 3600 seconds of the windows
    Nobody,             \* no attempt is remembered
    MaxTime,            \* bounds of the checked instance: of the clock,
    MaxMishaps          \* of database errors and cancellations together

ASSUME AdmissionAssumption ==
    /\ Runs \subseteq Nat /\ IsFiniteSet(Runs)
    /\ Sessions # {} /\ Addresses # {} /\ Sessions \cap Addresses = {}
    /\ Requests # {}
    /\ Requests \subseteq [session : Sessions, address : Addresses, rehearsal : BOOLEAN]
    /\ MaxConcurrent \in Nat \ {0} /\ Hour \in Nat
    /\ PerSession \in Nat \ {0} /\ PerAddress \in Nat \ {0}
    /\ MaxTime \in Nat /\ MaxMishaps \in Nat
    /\ Nobody \notin Nat

VARIABLES
    pc,             \* where create_run, then the run's task, awaits
    request,        \* what was asked of create_run
    admittedAt,     \* admit's `now`
    admitted,       \* _admitted_run_ids
    live,           \* the keys of _live_session_by_run
    attempts,       \* _session_attempts and _ip_attempts: of each key, how many attempts at each time
    attemptOf,      \* _attempt_by_run
    reserved,       \* the runs in model_token_reservations
    released,       \* the runs whose corpus release event is set
    stage, awaited, \* of the service; the runs whose release shutdown awaits
    now, faults, cancels

asked == <<request, admittedAt>>
slots == <<admitted, live>>
windows == <<attempts, attemptOf>>
ending == <<released, stage, awaited>>
vars == <<pc, asked, slots, windows, reserved, ending, now, faults, cancels>>

Creating == {"reserve", "unreserve", "persist", "rollback"}
UsingCorpus == {"waiting", "running"}
Tasked == UsingCorpus \cup {"finalizing", "ended"}
Persisted == Tasked \cup {"gone"}
Points == {"idle", "refused", "failed", "abandoned"} \cup Creating \cup Persisted

Keys == Sessions \cup Addresses
Times == 0..MaxTime

\* Type correctness of the tables, windows and counters.
TypeOK ==
    /\ pc \in [Runs -> Points]
    /\ request \in [Runs -> Requests] /\ admittedAt \in [Runs -> Times]
    /\ admitted \subseteq Runs /\ live \subseteq admitted
    /\ attempts \in [Keys -> [Times -> Nat]]
    /\ attemptOf \in [Runs -> Times \cup {Nobody}]
    /\ reserved \subseteq Runs /\ released \subseteq Runs /\ awaited \subseteq Runs
    /\ stage \in {"serving", "draining", "closed", "left open"}
    /\ now \in Times /\ faults \in 0..MaxMishaps /\ cancels \in 0..MaxMishaps

Init ==
    /\ pc = [r \in Runs |-> "idle"]
    /\ request = [r \in Runs |-> CHOOSE q \in Requests : TRUE] /\ admittedAt = [r \in Runs |-> 0]
    /\ admitted = {} /\ live = {}
    /\ attempts = [key \in Keys |-> [t \in Times |-> 0]] /\ attemptOf = [r \in Runs |-> Nobody]
    /\ reserved = {} /\ released = {} /\ awaited = {} /\ stage = "serving"
    /\ now = 0 /\ faults = 0 /\ cancels = 0

Goto(r, point) == pc' = [pc EXCEPT ![r] = point]
At(point) == {r \in Runs : pc[r] = point}
KeysOf(q) == {q.session, q.address}
Limit(key) == IF key \in Sessions THEN PerSession ELSE PerAddress

\* How an await of the database ends: well, with an error, or cancelled.
Answered == UNCHANGED <<faults, cancels>>
Faulty == faults + cancels < MaxMishaps /\ faults' = faults + 1 /\ UNCHANGED cancels
Cancelled == faults + cancels < MaxMishaps /\ cancels' = cancels + 1 /\ UNCHANGED faults

(***************************************************************************)
(* The windows.  A deque grows at its new end and is pruned at its old      *)
(* one, and the clock never runs back: how many of its entries bear a time  *)
(* is all there is to it.                                                   *)
(***************************************************************************)
\* Mutant: an attempt of exactly an hour ago is dropped already.
RecentStrictly(t) == t + Hour > now
Recent(t) == t + Hour >= now

Pruned == [key \in Keys |-> [t \in Times |-> IF Recent(t) THEN attempts[key][t] ELSE 0]]
Remembered == [r \in Runs |-> IF attemptOf[r] # Nobody /\ Recent(attemptOf[r])
                              THEN attemptOf[r] ELSE Nobody]
WindowFull(q) == \E key \in KeysOf(q) : SumFunctionOnSet(Pruned[key], Times) >= Limit(key)

\* remove(attempt) on the window of one key, of which nothing comes when it is not there.
Without(key, t) ==
    IF attempts[key][t] > 0 THEN [attempts[key] EXCEPT ![t] = @ - 1] ELSE attempts[key]

\* Mutant: the newest attempt of the session and address is removed, whoever made it.
TakeBackNewest(r) ==
    /\ attemptOf' = [attemptOf EXCEPT ![r] = Nobody]
    /\ attempts' = [key \in Keys |->
                       IF attemptOf[r] # Nobody /\ key \in KeysOf(request[r])
                       THEN Without(key, CHOOSE t \in Times : \A u \in Times :
                                             attempts[key][u] > 0 => attempts[key][t] > 0 /\ u <= t)
                       ELSE attempts[key]]

\* _rollback_local_attempt: the attempt this run made, if the windows still hold it.
TakeBack(r) ==
    /\ attemptOf' = [attemptOf EXCEPT ![r] = Nobody]
    /\ attempts' = [key \in Keys |->
                       IF attemptOf[r] # Nobody /\ key \in KeysOf(request[r])
                       THEN Without(key, attemptOf[r]) ELSE attempts[key]]

(***************************************************************************)
(* create_run.                                                             *)
(***************************************************************************)
\* Mutant: one run too many.
AtCapacityLate == Cardinality(admitted) > MaxConcurrent
AtCapacity == Cardinality(admitted) >= MaxConcurrent
SessionBusy(q) == ~q.rehearsal /\ \E r \in live : request[r].session = q.session

Refuse(r, q) ==
    /\ AtCapacity \/ SessionBusy(q)
    /\ Goto(r, "refused")
    /\ UNCHANGED <<asked, slots, windows>>

TakeSlot(r, q) ==
    /\ ~AtCapacity /\ ~SessionBusy(q)
    /\ admitted' = admitted \cup {r}
    /\ live' = IF q.rehearsal THEN live ELSE live \cup {r}

\* PublicUsageLimiter.admit up to its first await; a full window is an error to roll back.
Charge(r, q) ==
    IF WindowFull(q)
    THEN /\ attempts' = Pruned /\ attemptOf' = Remembered
         /\ Goto(r, "rollback")
    ELSE /\ attempts' = [key \in Keys |-> IF key \in KeysOf(q)
                                             THEN [Pruned[key] EXCEPT ![now] = @ + 1]
                                             ELSE Pruned[key]]
         /\ attemptOf' = [Remembered EXCEPT ![r] = now]
         /\ Goto(r, IF q.rehearsal THEN "persist" ELSE "reserve")

Arrive(r) ==
    /\ pc[r] = "idle" /\ (\A s \in Runs : s < r => pc[s] # "idle") /\ stage = "serving"
    /\ \E q \in Requests :
          \/ Refuse(r, q)
          \/ /\ TakeSlot(r, q) /\ Charge(r, q)
             /\ request' = [request EXCEPT ![r] = q]
             /\ admittedAt' = [admittedAt EXCEPT ![r] = now]
    /\ UNCHANGED <<reserved, ending, now, faults, cancels>>

\* reserve_model_tokens: granted, refused, or broken off with the insert durable or not.
Reserve(r) ==
    /\ pc[r] = "reserve"
    /\ \/ Answered /\ reserved' = reserved \cup {r} /\ Goto(r, "persist")
       \/ Answered /\ reserved' = reserved /\ Goto(r, "unreserve")
       \/ /\ Faulty \/ Cancelled
          /\ reserved' \in {reserved, reserved \cup {r}} /\ Goto(r, "unreserve")
    /\ UNCHANGED <<asked, slots, windows, ending, now>>

\* release_model_token_reservation, of which a failure may come after the delete.
Unreserved(r) == reserved' = reserved \ {r}
PerhapsUnreserved(r) == reserved' \in {reserved, reserved \ {r}}

\* The handler of admit, which suppresses an Exception of the release but no cancellation.
Unreserve(r) ==
    /\ pc[r] = "unreserve" /\ Goto(r, "rollback")
    /\ \/ Answered /\ Unreserved(r) /\ TakeBack(r)
       \/ Faulty /\ PerhapsUnreserved(r) /\ TakeBack(r)
       \/ Cancelled /\ PerhapsUnreserved(r) /\ UNCHANGED windows
    /\ UNCHANGED <<asked, slots, ending, now>>

\* database.create_run, and the run's task; the row of a broken insert has no task.
Persist(r) ==
    /\ pc[r] = "persist"
    /\ \/ Answered /\ Goto(r, "waiting")
       \/ (Faulty \/ Cancelled) /\ Goto(r, "rollback")
    /\ UNCHANGED <<asked, slots, windows, reserved, ending, now>>

\* Mutant: the session of the run is forgotten about.
GiveUpSlotOnly(r) == admitted' = admitted \ {r} /\ live' = live
GiveUpSlot(r) == admitted' = admitted \ {r} /\ live' = live \ {r}

\* Mutant: a creation that was rolled back keeps its slot.
RollbackKeepingSlot(r) ==
    /\ pc[r] = "rollback"
    /\ \/ /\ Answered /\ Unreserved(r) /\ TakeBack(r)
          /\ UNCHANGED slots /\ Goto(r, "failed")
       \/ /\ Faulty /\ PerhapsUnreserved(r) /\ UNCHANGED windows
          /\ GiveUpSlot(r) /\ Goto(r, "failed")
       \/ /\ Cancelled /\ PerhapsUnreserved(r) /\ UNCHANGED <<windows, slots>>
          /\ Goto(r, "abandoned")
    /\ UNCHANGED <<asked, ending, now>>

\* The handler of create_run: rollback, of which a failure skips the local half, then the slot,
\* which a cancellation skips too.
Rollback(r) ==
    /\ pc[r] = "rollback"
    /\ \/ /\ Answered /\ Unreserved(r) /\ TakeBack(r)
          /\ GiveUpSlot(r) /\ Goto(r, "failed")
       \/ /\ Faulty /\ PerhapsUnreserved(r) /\ UNCHANGED windows
          /\ GiveUpSlot(r) /\ Goto(r, "failed")
       \/ /\ Cancelled /\ PerhapsUnreserved(r) /\ UNCHANGED <<windows, slots>>
          /\ Goto(r, "abandoned")
    /\ UNCHANGED <<asked, ending, now>>

(***************************************************************************)
(* The task of a run, seen from here (RunLifecycle has its inside).        *)
(***************************************************************************)
Start(r) ==
    /\ pc[r] = "waiting" /\ Cardinality(At("running")) < MaxConcurrent
    /\ Goto(r, "running")
    /\ UNCHANGED <<asked, slots, windows, reserved, ending, now, faults, cancels>>

\* The investigation is over, for whatever reason, or never started: the corpus is let go.
LetGo(r) ==
    /\ pc[r] \in UsingCorpus /\ Goto(r, "finalizing")
    /\ released' = released \cup {r}
    /\ UNCHANGED <<asked, slots, windows, reserved, stage, awaited, now, faults, cancels>>

\* The error of a soft timer ends the task before it lets the corpus go, or finalizes.
SoftTimerFails(r) ==
    /\ pc[r] = "running" /\ ~request[r].rehearsal /\ Faulty /\ Goto(r, "ended")
    /\ UNCHANGED <<asked, slots, windows, reserved, ending, now>>

\* Mutant: the finalizer gives back the session's slot already.
FinalizeEarly(r) ==
    /\ pc[r] = "finalizing" /\ Goto(r, "ended") /\ live' = live \ {r}
    /\ \/ Answered /\ Unreserved(r) /\ attemptOf' = [attemptOf EXCEPT ![r] = Nobody]
       \/ Faulty /\ PerhapsUnreserved(r) /\ UNCHANGED attemptOf
    /\ UNCHANGED <<asked, admitted, attempts, ending, now>>
\* Mutant: the finalizer does not release the reservation.
FinalizeHolding(r) ==
    /\ pc[r] = "finalizing" /\ Goto(r, "ended")
    /\ \/ Answered /\ attemptOf' = [attemptOf EXCEPT ![r] = Nobody]
       \/ Faulty /\ UNCHANGED attemptOf
    /\ UNCHANGED <<asked, slots, attempts, reserved, ending, now>>

\* The release at the end of _finalize_run, of which an error is suppressed; a cancellation that
\* gets through to the finalizer leaves the same behind, and is counted as a fault.
Finalize(r) ==
    /\ pc[r] = "finalizing" /\ Goto(r, "ended")
    /\ \/ Answered /\ Unreserved(r) /\ attemptOf' = [attemptOf EXCEPT ![r] = Nobody]
       \/ Faulty /\ PerhapsUnreserved(r) /\ UNCHANGED attemptOf
    /\ UNCHANGED <<asked, slots, attempts, ending, now>>

\* _finish_task, the callback of the task that is done.
Finish(r) ==
    /\ pc[r] = "ended" /\ Goto(r, "gone")
    /\ released' = released \cup {r} /\ GiveUpSlot(r)
    /\ UNCHANGED <<asked, windows, reserved, stage, awaited, now, faults, cancels>>

(***************************************************************************)
(* The end of the service.  The server ends its requests before it.  The   *)
(* cancelled tasks let go in their own time, which LetGo already allows.   *)
(***************************************************************************)
Shutdown ==
    /\ stage = "serving" /\ \A r \in Runs : pc[r] \notin Creating
    /\ awaited' = {r \in Runs : pc[r] \in Tasked}
    /\ stage' = IF awaited' = {} THEN "closed" ELSE "draining"
    /\ UNCHANGED <<pc, asked, slots, windows, reserved, released, now, faults, cancels>>

\* Mutant: the corpus is closed when the grace period is over.
ShutdownEndsAnyway ==
    /\ stage = "draining" /\ stage' = "closed"
    /\ UNCHANGED <<pc, asked, slots, windows, reserved, released, awaited, now, faults, cancels>>

\* Every run has let go, or the grace period is over.
ShutdownEnds ==
    /\ stage = "draining"
    /\ stage' = "left open" \/ (awaited \subseteq released /\ stage' = "closed")
    /\ UNCHANGED <<pc, asked, slots, windows, reserved, released, awaited, now, faults, cancels>>

\* Nothing reads the clock once no run is admitted any more.
Tick ==
    /\ stage = "serving" /\ now < MaxTime /\ now' = now + 1
    /\ UNCHANGED <<pc, asked, slots, windows, reserved, ending, faults, cancels>>

Progress(r) ==
    \/ Reserve(r) \/ Unreserve(r) \/ Persist(r) \/ Rollback(r)
    \/ Start(r) \/ LetGo(r) \/ SoftTimerFails(r) \/ Finalize(r) \/ Finish(r)

Next ==
    \/ \E r \in Runs : Arrive(r) \/ Progress(r)
    \/ Shutdown \/ ShutdownEnds \/ Tick

Spec == Init /\ [][Next]_vars

\* The database answers and tasks are scheduled: a run that has begun goes on.
FairSpec == Spec /\ \A r \in Runs : WF_vars(Progress(r))

(***************************************************************************)
(* Properties.                                                             *)
(***************************************************************************)
\* A run that has a slot never waits for the semaphore: the slots of runs being created,
\* finalized or finished are counted, and there are as many as the semaphore has
\* (service.py:172, 410).
NoTaskWaits ==
    \A r \in At("waiting") : Cardinality(At("running")) < MaxConcurrent

\* A browser has at most one live run between its admission and the end of its task,
\* finalization included (service.py:176, 234).
OneLiveRunPerSession ==
    \A r, s \in Runs :
        /\ r # s /\ {pc[r], pc[s]} \subseteq Creating \cup Tasked
        /\ ~request[r].rehearsal /\ ~request[s].rehearsal
        => request[r].session # request[s].session

\* A run counts against its session and its address: it was created, or its creation has not
\* been rolled back yet.
Charged(r) ==
    \/ pc[r] \in {"reserve", "unreserve", "persist"} \cup Persisted
    \/ pc[r] = "rollback" /\ attemptOf[r] # Nobody
ChargedAt(key, t) ==
    {r \in Runs : Charged(r) /\ key \in KeysOf(request[r]) /\ admittedAt[r] = t}

\* The windows hold the last hour's charged runs, each once: never fewer, and never more
\* unless storage failed or a creation was cancelled twice (security.py:84-167).
WindowsAreExact ==
    \A key \in Keys, t \in Times :
        Recent(t) =>
            /\ attempts[key][t] >= Cardinality(ChargedAt(key, t))
            /\ faults = 0 /\ At("abandoned") = {} =>
                  attempts[key][t] = Cardinality(ChargedAt(key, t))

\* No session and no address has more runs created within any hour than its limit, whatever
\* was rolled back in between (security.py:112-125).
HourlyLimit ==
    \A key \in Keys, t \in Times :
        Cardinality({r \in Runs : /\ pc[r] \in Persisted /\ key \in KeysOf(request[r])
                                  /\ admittedAt[r] \in t..(t + Hour)}) <= Limit(key)

\* A live run has a reservation from before its row exists until its investigation is over, and
\* unless storage failed or a finalizer was cancelled none is left to a run without a slot
\* (security.py:127-165).
ReservationsAreOwned ==
    /\ \A r \in Runs : pc[r] \in UsingCorpus /\ ~request[r].rehearsal => r \in reserved
    /\ faults = 0 => reserved \subseteq admitted

\* The corpus is closed only when no run can use it any more (service.py:243, main.py:69).
CorpusClosedAfterUse == stage = "closed" => \A r \in Runs : pc[r] \notin UsingCorpus

\* Every slot comes back, on every path, but for a creation cancelled once more while it rolls
\* back (service.py:201-215, 226-234).
SlotsComeBack ==
    \A r \in Runs : r \in admitted ~> r \notin admitted \/ pc[r] = "abandoned"

=============================================================================
