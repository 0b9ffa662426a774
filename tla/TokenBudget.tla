----------------------------- MODULE TokenBudget -----------------------------
(***************************************************************************)
(* The model-token budget of an hour and of a day, shared by all runs and  *)
(* kept in the database (db.py reserve_, expand_ and                       *)
(* release_model_token_reservation, append_openai_call,                    *)
(* release_terminal_or_orphan_token_reservations; receipt.py               *)
(* reserve_model_call_capacity; agent.py ReceiptHooks).                    *)
(*                                                                         *)
(* Each operation of the database is one transaction and one step; the     *)
(* cut-off of a window is computed before it begins, up to Lag earlier.    *)
(* Calls are abstracted to the tokens they used by the time they started,  *)
(* which is all that the sums read.  The retention of runs is left out.    *)
(***************************************************************************)
EXTENDS Naturals, FiniteSets, Functions

CONSTANTS
    Runs,
    Processes,              \* the server processes over one database
    Hour, Day,              \* the lengths of the windows
    HourLimit, DayLimit,    \* settings.max_model_tokens_per_hour, _per_day
    PerRun,                 \* settings.model_token_reservation_per_run
    MaxCall,                \* bounds of the checked instance: of the ceiling of a call,
    MaxTime, Lag, MaxFaults, MaxStarts,
    Unreserved              \* a run that has no reservation

ASSUME BudgetAssumption ==
    /\ IsFiniteSet(Runs) /\ Processes # {}
    /\ Hour \in Nat /\ Day \in Nat /\ Hour <= Day
    /\ PerRun \in Nat \ {0} /\ PerRun <= HourLimit /\ PerRun <= DayLimit
    /\ HourLimit \in Nat /\ DayLimit \in Nat
    /\ MaxCall \in Nat \ {0} /\ MaxTime \in Nat /\ Lag \in Nat
    /\ MaxFaults \in Nat /\ MaxStarts \in Nat
    /\ Unreserved \notin Nat

VARIABLES
    pc,                 \* where the run awaits
    owner,              \* the process that executes it
    row,                \* its row: none, live (queued or running) or over
    reserved,           \* model_token_reservations
    used,               \* tokens of its recorded calls, by the time they started
    call,               \* the call it has sent: its ceiling and its start
    lost,               \* tokens the provider spent on calls recorded without usage, or not at all
    now, faults, starts

run == <<pc, owner, row, reserved>>
budget == <<used, call, lost>>
vars == <<run, budget, now, faults, starts>>

Times == 0..MaxTime
InProgress == {"admitted", "unreserve", "live", "calling", "failing", "releasing"}

NoCall == [ceiling |-> 0, at |-> 0]

Init ==
    /\ pc = [r \in Runs |-> "idle"] /\ owner \in [Runs -> Processes]
    /\ row = [r \in Runs |-> "none"] /\ reserved = [r \in Runs |-> Unreserved]
    /\ used = [r \in Runs |-> [t \in Times |-> 0]] /\ lost = [t \in Times |-> 0]
    /\ call = [r \in Runs |-> NoCall]
    /\ now = 0 /\ faults = 0 /\ starts = 0

Goto(r, point) == pc' = [pc EXCEPT ![r] = point]
Answered == UNCHANGED faults
Faulty == faults < MaxFaults /\ faults' = faults + 1

(***************************************************************************)
(* What is committed in a window: the usage that started in it, and what   *)
(* every reservation has left.                                             *)
(***************************************************************************)
Windows == {"hour", "day"}
Length(w) == IF w = "hour" THEN Hour ELSE Day
Limit(w) == IF w = "hour" THEN HourLimit ELSE DayLimit
Within(w, asOf) == {t \in Times : t + Length(w) >= asOf}

Total(r) == SumFunction(used[r])
Unspent(r) ==
    IF reserved[r] = Unreserved \/ Total(r) >= reserved[r] THEN 0 ELSE reserved[r] - Total(r)

Committed(w, asOf) ==
    SumFunction([r \in Runs |-> SumFunctionOnSet(used[r], Within(w, asOf)) + Unspent(r)])

\* Mutant: the daily budget is not looked at.
FitsTheHour(tokens, asOf) == Committed("hour", asOf) + tokens <= Limit("hour")
Fits(tokens, asOf) == \A w \in Windows : Committed(w, asOf) + tokens <= Limit(w)

CutOffs == {t \in Times : t <= now /\ t + Lag >= now}

(***************************************************************************)
(* A run and its reservation.                                              *)
(***************************************************************************)
\* reserve_model_tokens: granted, refused, or broken off with the insert durable or not.
Reserve(r) ==
    /\ pc[r] = "idle"
    /\ \E asOf \in CutOffs :
          \/ /\ Fits(PerRun, asOf) /\ reserved' = [reserved EXCEPT ![r] = PerRun]
             /\ \/ Answered /\ Goto(r, "admitted")
                \/ Faulty /\ Goto(r, "unreserve")
          \/ ~Fits(PerRun, asOf) /\ UNCHANGED reserved /\ Answered /\ Goto(r, "refused")
          \/ UNCHANGED reserved /\ Faulty /\ Goto(r, "unreserve")
    /\ UNCHANGED <<owner, row, budget, now, starts>>

\* database.create_run; a broken insert may be durable, and its row has no task.
CreateRow(r) ==
    /\ pc[r] = "admitted"
    /\ \/ /\ row' = [row EXCEPT ![r] = "live"]
          /\ \/ Answered /\ Goto(r, "live")
             \/ Faulty /\ Goto(r, "unreserve")
       \/ UNCHANGED row /\ Faulty /\ Goto(r, "unreserve")
    /\ UNCHANGED <<owner, reserved, budget, now, starts>>

\* release_model_token_reservation, of which the callers suppress an error; a cancellation of the
\* caller leaves the same behind.
Release(r) ==
    /\ pc[r] \in {"unreserve", "releasing"} /\ Goto(r, "done")
    /\ \/ Answered /\ reserved' = [reserved EXCEPT ![r] = Unreserved]
       \/ Faulty /\ UNCHANGED reserved
    /\ UNCHANGED <<owner, row, budget, now, starts>>

\* Mutant: a call is funded as if it were the first of its run.
RequiredAtFirst(r, ceiling) == ceiling
Required(r, ceiling) == Total(r) + ceiling

Funded(r, ceiling, asOf) ==
    /\ reserved[r] # Unreserved
    /\ \/ Required(r, ceiling) <= reserved[r]
       \/ Fits(Required(r, ceiling) - reserved[r], asOf)

\* expand_model_token_reservation, and the call it funds; a run that cannot be funded, or of
\* which the expansion is broken off, durable or not, fails.
Fund(r) ==
    /\ pc[r] = "live"
    /\ \E ceiling \in 1..MaxCall, asOf \in CutOffs :
          \/ /\ Funded(r, ceiling, asOf)
             /\ reserved' = [reserved EXCEPT ![r] = IF Required(r, ceiling) <= @ THEN @
                                                    ELSE Required(r, ceiling)]
             /\ \/ /\ Answered /\ Goto(r, "calling")
                   /\ call' = [call EXCEPT ![r] = [ceiling |-> ceiling, at |-> now]]
                \/ Faulty /\ Goto(r, "failing") /\ UNCHANGED call
          \/ /\ Goto(r, "failing") /\ UNCHANGED <<reserved, call>>
             /\ \/ Answered /\ ~Funded(r, ceiling, asOf)
                \/ Faulty
    /\ UNCHANGED <<owner, row, used, lost, now, starts>>

\* The hooks forget the call whether it was recorded or not.
Forget(r) == call' = [call EXCEPT ![r] = NoCall]
Lose(r, tokens) == lost' = [lost EXCEPT ![call[r].at] = @ + tokens]

\* append_openai_call of on_llm_end: the usage is recorded and the reservation is at least the
\* run's usage; when that transaction fails, so does the run.
Answer(r) ==
    /\ pc[r] = "calling" /\ Forget(r)
    /\ \E tokens \in 0..call[r].ceiling :
          \/ /\ Answered /\ UNCHANGED lost /\ Goto(r, "live")
             /\ used' = [used EXCEPT ![r][call[r].at] = @ + tokens]
             /\ reserved' = [reserved EXCEPT ![r] =
                   IF @ = Unreserved \/ @ >= Total(r) + tokens THEN @ ELSE Total(r) + tokens]
          \/ Faulty /\ Lose(r, tokens) /\ UNCHANGED <<used, reserved>> /\ Goto(r, "failing")
    /\ UNCHANGED <<owner, row, now, starts>>

\* record_failed_model_call: an error, a timeout or a cancellation of a call that was sent is
\* recorded without any usage, whatever the provider has spent on it.
FailCall(r) ==
    /\ pc[r] = "calling" /\ Goto(r, "failing") /\ Forget(r)
    /\ \E tokens \in 0..call[r].ceiling : Lose(r, tokens)
    /\ UNCHANGED <<owner, row, reserved, used, now, faults, starts>>

\* The terminal commit, between two calls or after a failure.  When it fails the row stays, and
\* when a soft timer fails the task ends before it finalizes or releases anything.
Seal(r) ==
    /\ pc[r] \in {"live", "failing"}
    /\ \/ Answered /\ row' = [row EXCEPT ![r] = "over"] /\ Goto(r, "releasing")
       \/ Faulty /\ UNCHANGED row /\ (Goto(r, "releasing") \/ Goto(r, "done"))
    /\ UNCHANGED <<owner, reserved, budget, now, starts>>

(***************************************************************************)
(* A process starts, for the first time or after it died: every live row   *)
(* is taken for abandoned and brought to an end, unless storage fails, and *)
(* the reservations of other rows, and of no row, are removed.             *)
(***************************************************************************)
DiedOf(p) == {r \in Runs : owner[r] = p /\ pc[r] \in InProgress}
Stranded == {r \in Runs : row'[r] = "live"}

\* Mutant: a reservation whose run never got a row is kept.
CleanUpTerminal == reserved' = [r \in Runs |-> IF row'[r] = "over" THEN Unreserved ELSE reserved[r]]
CleanUp == reserved' = [r \in Runs |-> IF r \in Stranded THEN reserved[r] ELSE Unreserved]

Start(p) ==
    /\ starts < MaxStarts /\ starts' = starts + 1
    /\ pc' = [r \in Runs |-> IF r \in DiedOf(p) THEN "dead" ELSE pc[r]]
    /\ lost' = [t \in Times |-> lost[t] +
          SumFunctionOnSet([r \in Runs |-> call[r].ceiling],
                           {r \in DiedOf(p) : pc[r] = "calling" /\ call[r].at = t})]
    /\ LET abandoned == {r \in Runs : row[r] = "live"} IN
       \E ended \in SUBSET abandoned :
          /\ row' = [r \in Runs |-> IF r \in ended THEN "over" ELSE row[r]]
          /\ IF ended = abandoned THEN Answered ELSE Faulty
    /\ CleanUp
    /\ call' = [r \in Runs |-> IF r \in DiedOf(p) THEN NoCall ELSE call[r]]
    /\ UNCHANGED <<owner, used, now>>

Tick ==
    /\ now < MaxTime /\ now' = now + 1
    /\ UNCHANGED <<run, budget, faults, starts>>

Next ==
    \/ \E r \in Runs :
          \/ Reserve(r) \/ CreateRow(r) \/ Fund(r) \/ Answer(r) \/ FailCall(r)
          \/ Seal(r) \/ Release(r)
    \/ \E p \in Processes : Start(p)
    \/ Tick

Spec == Init /\ [][Next]_vars

(***************************************************************************)
(* Properties.                                                             *)
(***************************************************************************)
\* Whatever cut-offs the transactions saw, and however usage, reservations, releases and restarts
\* interleave, no more than its limit is ever committed in a window (db.py:199-353).
CommittedWithinBudget == \A w \in Windows : Committed(w, now) <= Limit(w)

\* What the provider has spent, or may be spending, on calls that started in a window.
Spending(w) ==
    LET recent == Within(w, now)
        sent == {r \in Runs : pc[r] = "calling" /\ call[r].at \in recent}
    IN SumFunction([r \in Runs |-> SumFunctionOnSet(used[r], recent)])
       + SumFunctionOnSet(lost, recent)
       + SumFunctionOnSet([r \in Runs |-> call[r].ceiling], sent)

\* Unless a call ended without its usage being recorded, spending stays within both budgets, the
\* most that the calls in flight may use included (receipt.py:373-386, db.py:303-353, 476-501).
SpendingWithinBudget ==
    SumFunction(lost) = 0 => \A w \in Windows : Spending(w) <= Limit(w)

\* When no run is in progress and nothing failed or cancelled a finalizer, nothing is held back:
\* reservations end with their runs, or with the restart after a crash at any point (db.py:296, 377).
NothingHeldAtRest ==
    faults = 0 /\ (\A r \in Runs : pc[r] \notin InProgress) =>
        \A r \in Runs : reserved[r] = Unreserved

\* docs/architecture.md:19: capacity is reserved across concurrent processes, and active
\* reservations remain counted.
ActiveReservationIsCounted == \A r \in Runs : pc[r] = "calling" => reserved[r] # Unreserved
=============================================================================
