------------------------- MODULE TokenBudgetProofs -------------------------
(***************************************************************************)
(* The token budget, for any runs, windows and limits.                     *)
(*                                                                         *)
(* A process that starts takes the runs of every other process for         *)
(* abandoned and removes their reservations, so the budget is safe only as *)
(* long as a process does not start while another one works; StartsAlone   *)
(* says so, and holds of a single process.  Nothing else is assumed.       *)
(***************************************************************************)
EXTENDS TokenBudget, DataTheorems

Points == {"idle", "refused", "done", "dead"} \cup InProgress

BudgetTypeOK ==
    /\ pc \in [Runs -> Points] /\ owner \in [Runs -> Processes]
    /\ row \in [Runs -> {"none", "live", "over"}]
    /\ reserved \in [Runs -> Nat \cup {Unreserved}]
    /\ used \in [Runs -> [Times -> Nat]] /\ lost \in [Times -> Nat]
    /\ call \in [Runs -> [ceiling : Nat, at : Times]]
    /\ now \in Times /\ faults \in Nat /\ starts \in Nat

\* A process starts only when no run of another one is in progress.
StartsAlone ==
    \A p \in Processes : Start(p) => \A r \in Runs : pc[r] \in InProgress => owner[r] = p

\* A call in flight may use no more than its run has reserved and not used.
CallIsFunded ==
    \A r \in Runs : pc[r] = "calling" =>
        reserved[r] # Unreserved /\ Total(r) + call[r].ceiling <= reserved[r]

\* A call that has been sent may use something.
CallHasCeiling == \A r \in Runs : pc[r] = "calling" => call[r].ceiling > 0

(***************************************************************************)
(* What the sums are.                                                      *)
(***************************************************************************)
\* The instants are finitely many, and so are those of a window.
LEMMA FiniteTimes == IsFiniteSet(Times) /\ \A w, t : IsFiniteSet(Within(w, t)) /\ Within(w, t) \subseteq Times
<1>1. IsFiniteSet(Times)
  BY BudgetAssumption, FS_Interval DEF Times
<1>2. \A w, t : Within(w, t) \in SUBSET Times
  BY DEF Within
<1> QED BY <1>1, <1>2, FS_Subset

\* Time only leaves instants behind.
LEMMA WindowsShrink ==
  ASSUME NEW w \in Windows, NEW early \in Nat, NEW late \in Nat, early <= late
  PROVE  Within(w, late) \subseteq Within(w, early)
BY BudgetAssumption DEF Within, Times, Windows, Length

Recent(r, w, asOf) == SumFunctionOnSet(used[r], Within(w, asOf))
Shares(w, asOf) == [r \in Runs |-> Recent(r, w, asOf) + Unspent(r)]

\* The usage of a run, recent and in all, and what its reservation has left are natural numbers.
LEMMA SharesAreNaturals ==
  ASSUME BudgetTypeOK
  PROVE  /\ \A r \in Runs : Total(r) \in Nat /\ Unspent(r) \in Nat
         /\ \A w, t : \A r \in Runs : Recent(r, w, t) \in Nat
         /\ \A w, t : \A r \in Runs : Shares(w, t)[r] = Recent(r, w, t) + Unspent(r)
<1>1. ASSUME NEW r \in Runs
      PROVE  Total(r) \in Nat /\ Unspent(r) \in Nat /\ \A w, t : Recent(r, w, t) \in Nat
  <2>1. used[r] \in [Times -> Nat] /\ reserved[r] \in Nat \cup {Unreserved}
    BY <1>1 DEF BudgetTypeOK
  <2>2. DOMAIN used[r] = Times /\ \A x \in Times : used[r][x] \in Nat
    BY <2>1
  <2>3. Total(r) = SumFunctionOnSet(used[r], Times)
    BY <2>2, Zenon DEF Total, SumFunction
  <2>4. Total(r) \in Nat
    BY <2>2, <2>3, FiniteTimes, SumRemove
  <2>5. Unspent(r) \in Nat
    BY <2>1, <2>4 DEF Unspent
  <2>6. ASSUME NEW w, NEW t
        PROVE  Recent(r, w, t) \in Nat
    <3>1. IsFiniteSet(Within(w, t)) /\ \A x \in Within(w, t) : used[r][x] \in Nat
      BY <2>2, FiniteTimes
    <3> QED BY <3>1, SumRemove DEF Recent
  <2> QED BY <2>4, <2>5, <2>6
<1> QED BY <1>1 DEF Shares

\* What is committed is the sum of the shares, and all of them are natural numbers.
SumsAreNaturals ==
    /\ \A r \in Runs : Total(r) \in Nat /\ Unspent(r) \in Nat
    /\ \A w, t : \A r \in Runs : Recent(r, w, t) \in Nat
    /\ \A w, t : /\ Committed(w, t) = SumFunctionOnSet(Shares(w, t), Runs)
                 /\ Committed(w, t) \in Nat
                 /\ \A r \in Runs : /\ Shares(w, t)[r] = Recent(r, w, t) + Unspent(r)
                                   /\ Shares(w, t)[r] \in Nat

\* The types make the sums natural numbers.
LEMMA CommittedIsSum == BudgetTypeOK => SumsAreNaturals
<1> SUFFICES ASSUME BudgetTypeOK PROVE SumsAreNaturals
  OBVIOUS
<1>1. \A w, t : \A r \in Runs : Shares(w, t)[r] \in Nat
  BY SharesAreNaturals
<1>2. \A w, t : Committed(w, t) = SumFunctionOnSet(Shares(w, t), Runs)
  BY Zenon DEF Committed, SumFunction, Shares, Recent
<1>3. \A w, t : Committed(w, t) \in Nat
  BY <1>1, <1>2, BudgetAssumption, SumRemove
<1> QED BY <1>1, <1>2, <1>3, SharesAreNaturals DEF SumsAreNaturals

\* The later the cut-off, the less is committed.
LEMMA CommittedLater ==
  ASSUME BudgetTypeOK, NEW w \in Windows, NEW early \in Nat, NEW late \in Nat, early <= late
  PROVE  Committed(w, late) <= Committed(w, early)
<1>1. \A r \in Runs : Shares(w, late)[r] <= Shares(w, early)[r]
  <2> TAKE r \in Runs
  <2>1. Within(w, late) \in SUBSET Within(w, early) /\ IsFiniteSet(Within(w, early))
    BY WindowsShrink, FiniteTimes
  <2>2. \A x \in Within(w, early) : used[r][x] \in Nat
    BY FiniteTimes DEF BudgetTypeOK
  <2>3. Recent(r, w, late) <= Recent(r, w, early)
    BY <2>1, <2>2, SumOfPart DEF Recent
  <2> QED BY <2>3, SharesAreNaturals
<1>2. \A r \in Runs : Shares(w, late)[r] \in Nat /\ Shares(w, early)[r] \in Nat
  BY CommittedIsSum DEF SumsAreNaturals
<1>3. SumFunctionOnSet(Shares(w, late), Runs) <= SumFunctionOnSet(Shares(w, early), Runs)
  BY <1>1, <1>2, BudgetAssumption, SumMonotone
<1> QED BY <1>3, CommittedIsSum DEF SumsAreNaturals

\* A step after which no run has a larger share commits no more.
LEMMA CommittedFalls ==
  ASSUME BudgetTypeOK, BudgetTypeOK', NEW w, NEW t,
         \A r \in Runs : Recent(r, w, t)' + Unspent(r)' <= Recent(r, w, t) + Unspent(r)
  PROVE  Committed(w, t)' <= Committed(w, t)
<1>1. \A r \in Runs : Shares(w, t)'[r] <= Shares(w, t)[r]
  BY DEF Shares
<1>0. SumsAreNaturals'
  BY CommittedIsSum, PTL
<1>2. /\ Committed(w, t)' = SumFunctionOnSet(Shares(w, t)', Runs)
      /\ \A r \in Runs : Shares(w, t)'[r] \in Nat
  BY <1>0 DEF SumsAreNaturals
<1>3. \A r \in Runs : Shares(w, t)[r] \in Nat
  BY CommittedIsSum DEF SumsAreNaturals
<1>4. SumFunctionOnSet(Shares(w, t)', Runs) <= SumFunctionOnSet(Shares(w, t), Runs)
  BY <1>1, <1>2, <1>3, BudgetAssumption, SumMonotone
<1> QED BY <1>2, <1>4, CommittedIsSum DEF SumsAreNaturals

\* A step after which one run's share is larger by no more than an amount commits no more than it.
LEMMA CommittedRises ==
  ASSUME BudgetTypeOK, BudgetTypeOK', NEW w, NEW t, NEW r \in Runs, NEW amount \in Nat,
         Recent(r, w, t)' + Unspent(r)' <= Recent(r, w, t) + Unspent(r) + amount,
         \A s \in Runs \ {r} : Recent(s, w, t)' + Unspent(s)' <= Recent(s, w, t) + Unspent(s)
  PROVE  Committed(w, t)' <= Committed(w, t) + amount
<1> DEFINE before == Shares(w, t)
           between == [s \in Runs |-> IF s = r THEN before[s] + amount ELSE before[s]]
<1>0. SumsAreNaturals'
  BY CommittedIsSum, PTL
<1>1. /\ Committed(w, t)' = SumFunctionOnSet(Shares(w, t)', Runs)
      /\ \A s \in Runs : /\ Shares(w, t)'[s] \in Nat
                         /\ Shares(w, t)'[s] = Recent(s, w, t)' + Unspent(s)'
  BY <1>0 DEF SumsAreNaturals
<1>2. /\ Committed(w, t) = SumFunctionOnSet(before, Runs) /\ Committed(w, t) \in Nat
      /\ \A s \in Runs : before[s] \in Nat /\ before[s] = Recent(s, w, t) + Unspent(s)
  BY CommittedIsSum DEF SumsAreNaturals
<1> HIDE DEF before
<1>3. \A s \in Runs : between[s] \in Nat /\ Shares(w, t)'[s] <= between[s]
  BY <1>1, <1>2
<1>4. SumFunctionOnSet(Shares(w, t)', Runs) <= SumFunctionOnSet(between, Runs)
  BY <1>1, <1>3, BudgetAssumption, SumMonotone
<1>5. between[r] = before[r] + amount /\ \A s \in Runs \ {r} : before[s] = between[s]
  OBVIOUS
<1> HIDE DEF between
<1>6. SumFunctionOnSet(before, Runs) + between[r] = SumFunctionOnSet(between, Runs) + before[r]
  BY <1>2, <1>3, <1>5, BudgetAssumption, SumChange
<1>7. SumFunctionOnSet(between, Runs) \in Nat
  BY <1>3, BudgetAssumption, SumRemove
<1>8. SumFunctionOnSet(between, Runs) = Committed(w, t) + amount
  BY <1>2, <1>5, <1>6, <1>7
<1> QED BY <1>1, <1>4, <1>8

\* What has not changed sums up to the same.
LEMMA UnusedRun ==
  ASSUME NEW r \in Runs, used'[r] = used[r]
  PROVE  /\ Total(r)' = Total(r) /\ \A w, t : Recent(r, w, t)' = Recent(r, w, t)
         /\ reserved'[r] = reserved[r] => Unspent(r)' = Unspent(r)
BY DEF Total, Recent, Unspent

\* A recorded call adds its tokens to the run's usage, and to that of a window if it began there.
LEMMA RecordedCall ==
  ASSUME BudgetTypeOK, NEW r \in Runs, NEW at \in Times, NEW tokens \in Nat,
         used' = [used EXCEPT ![r][at] = @ + tokens]
  PROVE  /\ Total(r)' = Total(r) + tokens
         /\ \A w, t : Recent(r, w, t)' <= Recent(r, w, t) + tokens
         /\ \A s \in Runs \ {r} : used'[s] = used[s]
<1> DEFINE u == used[r]
           v == [used[r] EXCEPT ![at] = @ + tokens]
<1>1. u \in [Times -> Nat] /\ used'[r] = v
  BY DEF BudgetTypeOK
<1>2. /\ v \in [Times -> Nat] /\ v[at] = u[at] + tokens /\ \A x \in Times \ {at} : u[x] = v[x]
      /\ DOMAIN u = Times /\ DOMAIN v = Times
  BY <1>1
<1> HIDE DEF u, v
<1>3. ASSUME NEW S \in SUBSET Times, IsFiniteSet(S)
      PROVE  /\ at \in S => SumFunctionOnSet(v, S) = SumFunctionOnSet(u, S) + tokens
             /\ at \notin S => SumFunctionOnSet(v, S) = SumFunctionOnSet(u, S)
             /\ SumFunctionOnSet(v, S) \in Nat /\ SumFunctionOnSet(u, S) \in Nat
  <2>1. \A x \in S : u[x] \in Nat /\ v[x] \in Nat
    BY <1>1, <1>2
  <2>2. SumFunctionOnSet(v, S) \in Nat /\ SumFunctionOnSet(u, S) \in Nat
    BY <1>3, <2>1, SumRemove
  <2>3. CASE at \in S
    <3>1. \A x \in S \ {at} : u[x] = v[x]
      BY <1>2
    <3>2. SumFunctionOnSet(u, S) + v[at] = SumFunctionOnSet(v, S) + u[at]
      BY <1>3, <2>1, <2>3, <3>1, SumChange
    <3> QED BY <1>2, <2>1, <2>2, <2>3, <3>2
  <2>4. CASE at \notin S
    <3>1. \A x \in S : v[x] = u[x]
      BY <1>2, <2>4
    <3> QED BY <1>3, <2>2, <2>4, <3>1, SumSame
  <2> QED BY <2>3, <2>4
<1>4. Total(r)' = SumFunctionOnSet(v, Times) /\ Total(r) = SumFunctionOnSet(u, Times)
  BY <1>1, <1>2, Zenon DEF Total, SumFunction, u
<1>5. Total(r)' = Total(r) + tokens
  BY <1>3, <1>4, FiniteTimes
<1>6. ASSUME NEW w, NEW t
      PROVE  Recent(r, w, t)' <= Recent(r, w, t) + tokens
  <2>1. /\ Recent(r, w, t)' = SumFunctionOnSet(v, Within(w, t))
        /\ Recent(r, w, t) = SumFunctionOnSet(u, Within(w, t))
    BY <1>1, Zenon DEF Recent, u
  <2>2. Within(w, t) \in SUBSET Times /\ IsFiniteSet(Within(w, t))
    BY FiniteTimes
  <2> DEFINE a == SumFunctionOnSet(v, Within(w, t))
             b == SumFunctionOnSet(u, Within(w, t))
  <2>3. a \in Nat /\ b \in Nat /\ (a = b + tokens \/ a = b)
    BY <1>3, <2>2
  <2>4. a <= b + tokens
    <3> HIDE DEF a, b
    <3> QED BY <2>3
  <2> QED BY <2>1, <2>4
<1> QED BY <1>5, <1>6

(***************************************************************************)
(* Types.                                                                  *)
(***************************************************************************)
\* Every step keeps the types: usage, reservations and ceilings are natural numbers.
LEMMA TypesKept == BudgetTypeOK /\ [Next]_vars => BudgetTypeOK'
<1> SUFFICES ASSUME BudgetTypeOK, [Next]_vars PROVE BudgetTypeOK'
  OBVIOUS
<1>0. SumsAreNaturals /\ NoCall \in [ceiling : Nat, at : Times] /\ Times \subseteq Nat
  BY CommittedIsSum, BudgetAssumption DEF NoCall, Times
<1>1. ASSUME NEW r \in Runs, Reserve(r) PROVE BudgetTypeOK'
  <2>1. pc' \in [Runs -> Points]
    BY <1>1 DEF BudgetTypeOK, Reserve, Goto, Points, InProgress
  <2>2. reserved' \in [Runs -> Nat \cup {Unreserved}]
    BY <1>1, BudgetAssumption DEF BudgetTypeOK, Reserve
  <2>3. faults' \in Nat /\ UNCHANGED <<owner, row, used, call, lost, now, starts>>
    BY <1>1 DEF BudgetTypeOK, Reserve, Answered, Faulty, budget
  <2> QED BY <2>1, <2>2, <2>3 DEF BudgetTypeOK
<1>2. ASSUME NEW r \in Runs, CreateRow(r) PROVE BudgetTypeOK'
  <2>1. pc' \in [Runs -> Points]
    BY <1>2 DEF BudgetTypeOK, CreateRow, Goto, Points, InProgress
  <2>2. row' \in [Runs -> {"none", "live", "over"}]
    BY <1>2 DEF BudgetTypeOK, CreateRow
  <2>3. faults' \in Nat /\ UNCHANGED <<owner, reserved, used, call, lost, now, starts>>
    BY <1>2 DEF BudgetTypeOK, CreateRow, Answered, Faulty, budget
  <2> QED BY <2>1, <2>2, <2>3 DEF BudgetTypeOK
<1>3. ASSUME NEW r \in Runs, Fund(r) PROVE BudgetTypeOK'
  <2>1. \A ceiling \in 1..MaxCall : /\ Required(r, ceiling) \in Nat
                                    /\ [ceiling |-> ceiling, at |-> now] \in [ceiling : Nat, at : Times]
    BY <1>0, BudgetAssumption DEF BudgetTypeOK, Required, SumsAreNaturals
  <2>2. pc' \in [Runs -> Points]
    BY <1>3 DEF BudgetTypeOK, Fund, Goto, Points, InProgress
  <2>3. reserved' \in [Runs -> Nat \cup {Unreserved}]
    BY <1>3, <2>1 DEF BudgetTypeOK, Fund
  <2>4. call' \in [Runs -> [ceiling : Nat, at : Times]]
    BY <1>3, <2>1 DEF BudgetTypeOK, Fund
  <2>5. faults' \in Nat /\ UNCHANGED <<owner, row, used, lost, now, starts>>
    BY <1>3 DEF BudgetTypeOK, Fund, Answered, Faulty
  <2> QED BY <2>2, <2>3, <2>4, <2>5 DEF BudgetTypeOK
<1>4. ASSUME NEW r \in Runs, Answer(r) \/ FailCall(r) PROVE BudgetTypeOK'
  <2>0. call[r] \in [ceiling : Nat, at : Times]
    BY DEF BudgetTypeOK
  <2>1. call[r].ceiling \in Nat /\ call[r].at \in Times /\ 0..call[r].ceiling \subseteq Nat
    BY <2>0
  <2>2. \A n \in Nat : [used EXCEPT ![r][call[r].at] = @ + n] \in [Runs -> [Times -> Nat]]
    <3> TAKE n \in Nat
    <3>1. used[r] \in [Times -> Nat] /\ used[r][call[r].at] + n \in Nat
      BY <2>1 DEF BudgetTypeOK
    <3>2. [used[r] EXCEPT ![call[r].at] = @ + n] \in [Times -> Nat]
      BY <2>1, <3>1
    <3> QED BY <3>2 DEF BudgetTypeOK
  <2>3. /\ \A n \in Nat : [lost EXCEPT ![call[r].at] = @ + n] \in [Times -> Nat]
        /\ \A n \in Nat : Total(r) + n \in Nat
    <3>1. Total(r) \in Nat
      BY <1>0 DEF SumsAreNaturals
    <3>2. lost \in [Times -> Nat]
      BY DEF BudgetTypeOK
    <3> QED BY <2>1, <3>1, <3>2
  <2>4. pc' \in [Runs -> Points]
    BY <1>4 DEF BudgetTypeOK, Answer, FailCall, Goto, Points, InProgress
  <2>5. reserved' \in [Runs -> Nat \cup {Unreserved}]
    <3>1. \A n \in Nat : [reserved EXCEPT ![r] = IF @ = Unreserved \/ @ >= Total(r) + n
                                                THEN @ ELSE Total(r) + n]
                             \in [Runs -> Nat \cup {Unreserved}]
      BY <2>3 DEF BudgetTypeOK
    <3>2. reserved' = reserved \/ \E n \in Nat :
             reserved' = [reserved EXCEPT ![r] = IF @ = Unreserved \/ @ >= Total(r) + n
                                                THEN @ ELSE Total(r) + n]
      BY <1>4, <2>1 DEF Answer, FailCall
    <3> QED BY <3>1, <3>2 DEF BudgetTypeOK
  <2>6. used' \in [Runs -> [Times -> Nat]]
    <3>1. used' = used \/ \E n \in Nat : used' = [used EXCEPT ![r][call[r].at] = @ + n]
      <4>1. CASE Answer(r)
        <5>1. PICK n \in 0..call[r].ceiling :
                used' = used \/ used' = [used EXCEPT ![r][call[r].at] = @ + n]
          BY <4>1, Zenon DEF Answer
        <5> QED BY <2>1, <5>1, Zenon
      <4>2. CASE FailCall(r)
        BY <4>2 DEF FailCall
      <4> QED BY <1>4, <4>1, <4>2
    <3>2. used \in [Runs -> [Times -> Nat]]
      BY DEF BudgetTypeOK
    <3> QED BY <2>2, <3>1, <3>2, Zenon
  <2>7. lost' \in [Times -> Nat]
    <3>1. lost' = lost \/ \E n \in Nat : lost' = [lost EXCEPT ![call[r].at] = @ + n]
      <4>1. PICK n \in 0..call[r].ceiling :
              lost' = lost \/ lost' = [lost EXCEPT ![call[r].at] = @ + n]
        BY <1>4, Zenon DEF Answer, FailCall, Lose
      <4> QED BY <2>1, <4>1, Zenon
    <3>2. lost \in [Times -> Nat]
      BY DEF BudgetTypeOK
    <3> QED BY <2>3, <3>1, <3>2, Zenon
  <2>8. call' \in [Runs -> [ceiling : Nat, at : Times]]
    BY <1>0, <1>4 DEF BudgetTypeOK, Answer, FailCall, Forget
  <2>9. faults' \in Nat /\ UNCHANGED <<owner, row, now, starts>>
    BY <1>4 DEF BudgetTypeOK, Answer, FailCall, Answered, Faulty
  <2> QED BY <2>4, <2>5, <2>6, <2>7, <2>8, <2>9 DEF BudgetTypeOK
<1>6. ASSUME NEW r \in Runs, Seal(r) PROVE BudgetTypeOK'
  <2>1. pc' \in [Runs -> Points]
    BY <1>6 DEF BudgetTypeOK, Seal, Goto, Points, InProgress
  <2>2. row' \in [Runs -> {"none", "live", "over"}]
    BY <1>6 DEF BudgetTypeOK, Seal
  <2>3. faults' \in Nat /\ UNCHANGED <<owner, reserved, used, call, lost, now, starts>>
    BY <1>6 DEF BudgetTypeOK, Seal, Answered, Faulty, budget
  <2> QED BY <2>1, <2>2, <2>3 DEF BudgetTypeOK
<1>7. ASSUME NEW r \in Runs, Release(r) PROVE BudgetTypeOK'
  <2>1. pc' \in [Runs -> Points]
    BY <1>7 DEF BudgetTypeOK, Release, Goto, Points, InProgress
  <2>2. reserved' \in [Runs -> Nat \cup {Unreserved}]
    BY <1>7 DEF BudgetTypeOK, Release
  <2>3. faults' \in Nat /\ UNCHANGED <<owner, row, used, call, lost, now, starts>>
    BY <1>7 DEF BudgetTypeOK, Release, Answered, Faulty, budget
  <2> QED BY <2>1, <2>2, <2>3 DEF BudgetTypeOK
<1>8. ASSUME NEW p \in Processes, Start(p) PROVE BudgetTypeOK'
  <2>1. pc' \in [Runs -> Points]
    BY <1>8 DEF BudgetTypeOK, Start, Points
  <2>2. row' \in [Runs -> {"none", "live", "over"}]
    BY <1>8 DEF BudgetTypeOK, Start
  <2>3. reserved' \in [Runs -> Nat \cup {Unreserved}]
    BY <1>8 DEF BudgetTypeOK, Start, CleanUp
  <2>4. call' \in [Runs -> [ceiling : Nat, at : Times]]
    BY <1>0, <1>8 DEF BudgetTypeOK, Start
  <2>5. lost' \in [Times -> Nat]
    <3> DEFINE ceilings == [r \in Runs |-> call[r].ceiling]
               died(t) == {r \in DiedOf(p) : pc[r] = "calling" /\ call[r].at = t}
    <3>1. \A t : died(t) \in SUBSET Runs /\ IsFiniteSet(died(t))
      BY BudgetAssumption, FS_Subset DEF DiedOf
    <3>2. \A r \in Runs : ceilings[r] \in Nat
      <4> TAKE r \in Runs
      <4>1. call[r] \in [ceiling : Nat, at : Times]
        BY DEF BudgetTypeOK
      <4> QED BY <4>1
    <3> HIDE DEF ceilings, died
    <3>3. \A t : SumFunctionOnSet(ceilings, died(t)) \in Nat
      BY <3>1, <3>2, SumRemove
    <3>4. lost' = [t \in Times |-> lost[t] + SumFunctionOnSet(ceilings, died(t))]
      BY <1>8, Zenon DEF Start, ceilings, died
    <3> QED BY <3>3, <3>4 DEF BudgetTypeOK
  <2>6. faults' \in Nat /\ starts' \in Nat /\ UNCHANGED <<owner, used, now>>
    BY <1>8 DEF BudgetTypeOK, Start, Answered, Faulty
  <2> QED BY <2>1, <2>2, <2>3, <2>4, <2>5, <2>6 DEF BudgetTypeOK
<1>9. CASE Tick
  <2>1. now' \in Times
    BY <1>9, BudgetAssumption DEF BudgetTypeOK, Tick, Times
  <2>2. UNCHANGED <<pc, owner, row, reserved, used, call, lost, faults, starts>>
    BY <1>9 DEF Tick, run, budget
  <2> QED BY <2>1, <2>2 DEF BudgetTypeOK
<1>10. CASE UNCHANGED vars
  BY <1>10 DEF BudgetTypeOK, vars, run, budget
<1> QED BY <1>1, <1>2, <1>3, <1>4, <1>6, <1>7, <1>8, <1>9, <1>10 DEF Next

\* The types hold in every state.
THEOREM BudgetTyped == Spec => []BudgetTypeOK
<1>1. Init => BudgetTypeOK
  BY BudgetAssumption DEF Init, BudgetTypeOK, Points, InProgress, Times, NoCall
<1> QED BY <1>1, TypesKept, PTL DEF Spec

(***************************************************************************)
(* Nothing is held at rest.                                                *)
(***************************************************************************)
\* What makes it inductive: as long as nothing failed, whoever is not in progress holds nothing.
HoldersAreInProgress ==
    faults = 0 => \A r \in Runs : pc[r] \notin InProgress => reserved[r] = Unreserved

\* Every step keeps that, a start after a crash because it then ends every live row.
LEMMA HoldersKept ==
  BudgetTypeOK /\ HoldersAreInProgress /\ [Next]_vars => HoldersAreInProgress'
<1> SUFFICES ASSUME BudgetTypeOK, HoldersAreInProgress, [Next]_vars, faults' = 0,
                    NEW r \in Runs, pc'[r] \notin InProgress
             PROVE  reserved'[r] = Unreserved
  BY DEF HoldersAreInProgress
<1>0. /\ pc \in [Runs -> Points] /\ reserved \in [Runs -> Nat \cup {Unreserved}]
      /\ row \in [Runs -> {"none", "live", "over"}] /\ faults \in Nat
      /\ used \in [Runs -> [Times -> Nat]]
  BY DEF BudgetTypeOK
<1>1. faults = 0 => (pc[r] \notin InProgress => reserved[r] = Unreserved)
  BY DEF HoldersAreInProgress
<1>2. ASSUME NEW s \in Runs, Reserve(s) PROVE reserved'[r] = Unreserved
  BY <1>0, <1>1, <1>2 DEF Reserve, Goto, Answered, Faulty, InProgress
<1>3. ASSUME NEW s \in Runs, CreateRow(s) PROVE reserved'[r] = Unreserved
  BY <1>0, <1>1, <1>3 DEF CreateRow, Goto, Answered, Faulty, InProgress
<1>4. ASSUME NEW s \in Runs, Fund(s) PROVE reserved'[r] = Unreserved
  <2>1. faults = 0 /\ UNCHANGED faults
    BY <1>0, <1>4 DEF Fund, Answered, Faulty
  <2>2. r # s
    BY <1>0, <1>4 DEF Fund, Goto, InProgress
  <2>3. pc'[r] = pc[r] /\ reserved'[r] = reserved[r]
    BY <1>0, <1>4, <2>2 DEF Fund, Goto
  <2> QED BY <1>1, <2>1, <2>3
<1>5. ASSUME NEW s \in Runs, Answer(s) \/ FailCall(s) PROVE reserved'[r] = Unreserved
  <2>1. faults = 0 /\ UNCHANGED faults
    BY <1>0, <1>5 DEF Answer, FailCall, Answered, Faulty
  <2>2. r # s
    BY <1>0, <1>5 DEF Answer, FailCall, Goto, InProgress
  <2>3. pc'[r] = pc[r] /\ reserved'[r] = reserved[r]
    BY <1>0, <1>5, <2>2 DEF Answer, FailCall, Goto
  <2> QED BY <1>1, <2>1, <2>3
<1>6. ASSUME NEW s \in Runs, Seal(s) PROVE reserved'[r] = Unreserved
  BY <1>0, <1>1, <1>6 DEF Seal, Goto, Answered, Faulty, InProgress
<1>7. ASSUME NEW s \in Runs, Release(s) PROVE reserved'[r] = Unreserved
  BY <1>0, <1>1, <1>7 DEF Release, Goto, Answered, Faulty, InProgress
<1>8. ASSUME NEW p \in Processes, Start(p) PROVE reserved'[r] = Unreserved
  <2>1. row' = [s \in Runs |-> IF s \in {q \in Runs : row[q] = "live"} THEN "over" ELSE row[s]]
    BY <1>0, <1>8 DEF Start, Faulty
  <2>2. Stranded = {}
    BY <2>1 DEF Stranded
  <2> QED BY <1>8, <2>2 DEF Start, CleanUp
<1>9. CASE Tick
  BY <1>1, <1>9 DEF Tick, run
<1>10. CASE UNCHANGED vars
  BY <1>1, <1>10 DEF vars, run
<1> QED BY <1>2, <1>3, <1>4, <1>5, <1>6, <1>7, <1>8, <1>9, <1>10 DEF Next

\* When nothing failed and nothing is in progress, no tokens are held back (db.py:296, 377).
THEOREM RestHoldsNothing == Spec => []NothingHeldAtRest
<1>1. Init => HoldersAreInProgress
  BY DEF Init, HoldersAreInProgress
<1>2. HoldersAreInProgress => NothingHeldAtRest
  BY DEF HoldersAreInProgress, NothingHeldAtRest
<1>3. Spec => []BudgetTypeOK
  BY BudgetTyped
<1> QED BY <1>1, <1>2, <1>3, HoldersKept, PTL DEF Spec

(***************************************************************************)
(* A call in flight is funded.                                             *)
(***************************************************************************)
\* While processes start alone, a call that is in flight keeps the reservation it was funded with.
LEMMA FundingKept ==
  BudgetTypeOK /\ CallIsFunded /\ CallHasCeiling /\ [Next]_vars /\ [StartsAlone]_vars
    => CallIsFunded' /\ CallHasCeiling'
<1> SUFFICES ASSUME BudgetTypeOK, CallIsFunded, CallHasCeiling, [Next]_vars, [StartsAlone]_vars,
                    NEW r \in Runs, pc'[r] = "calling"
             PROVE  /\ reserved'[r] # Unreserved /\ Total(r)' + call'[r].ceiling <= reserved'[r]
                    /\ call'[r].ceiling > 0
  BY DEF CallIsFunded, CallHasCeiling
<1> DEFINE Same == UNCHANGED <<pc[r], reserved[r], used[r], call[r]>>
           Goal == /\ reserved'[r] # Unreserved /\ Total(r)' + call'[r].ceiling <= reserved'[r]
                   /\ call'[r].ceiling > 0
<1>0. /\ pc \in [Runs -> Points] /\ reserved \in [Runs -> Nat \cup {Unreserved}]
      /\ used \in [Runs -> [Times -> Nat]] /\ call \in [Runs -> [ceiling : Nat, at : Times]]
  BY DEF BudgetTypeOK
<1>1. ASSUME Same PROVE Goal
  BY <1>1, UnusedRun DEF CallIsFunded, CallHasCeiling
<1> HIDE DEF Goal
<1>2. ASSUME NEW s \in Runs, Reserve(s) \/ CreateRow(s) \/ Seal(s) \/ Release(s) PROVE Same
  BY <1>0, <1>2 DEF Reserve, CreateRow, Seal, Release, Goto, budget
<1>3. ASSUME NEW s \in Runs, Answer(s) \/ FailCall(s) PROVE Same
  BY <1>0, <1>3 DEF Answer, FailCall, Goto, Forget
<1>4. ASSUME NEW s \in Runs, s # r, Fund(s) PROVE Same
  BY <1>0, <1>4 DEF Fund, Goto
<1>5. CASE Fund(r)
  <2>1. PICK ceiling \in 1..MaxCall :
          /\ Funded(r, ceiling, now) \/ \E asOf \in CutOffs : Funded(r, ceiling, asOf)
          /\ reserved' = [reserved EXCEPT ![r] = IF Required(r, ceiling) <= @ THEN @
                                                 ELSE Required(r, ceiling)]
          /\ call' = [call EXCEPT ![r] = [ceiling |-> ceiling, at |-> now]]
    BY <1>0, <1>5 DEF Fund, Goto
  <2>2. reserved[r] \in Nat
    BY <1>0, <2>1 DEF Funded
  <2>3. ceiling \in Nat /\ ceiling > 0 /\ Required(r, ceiling) \in Nat /\ Unreserved \notin Nat
    BY CommittedIsSum, BudgetAssumption DEF SumsAreNaturals, Required
  <2>4. Total(r)' = Total(r)
    BY <1>5, UnusedRun DEF Fund
  <2>5. call'[r].ceiling = ceiling
    BY <1>0, <2>1
  <2>6. reserved'[r] \in Nat /\ Required(r, ceiling) <= reserved'[r]
    BY <1>0, <2>1, <2>2, <2>3
  <2> QED BY <2>3, <2>4, <2>5, <2>6 DEF Required, Goal
<1>6. ASSUME NEW p \in Processes, Start(p) PROVE FALSE
  <2>1. pc[r] = "calling" /\ r \notin DiedOf(p)
    BY <1>0, <1>6 DEF Start
  <2>2. [StartsAlone]_vars
    OBVIOUS
  <2>3. starts' # starts
    BY <1>6 DEF Start, BudgetTypeOK
  <2>4. StartsAlone
    BY <2>2, <2>3 DEF vars
  <2> QED BY <1>6, <2>1, <2>4 DEF StartsAlone, DiedOf, InProgress
<1>7. CASE Tick
  BY <1>1, <1>7 DEF Tick, run, budget, Goal
<1>8. CASE UNCHANGED vars
  BY <1>1, <1>8 DEF vars, run, budget, Goal
<1> QED BY <1>1, <1>2, <1>3, <1>4, <1>5, <1>6, <1>7, <1>8 DEF Next, Goal

(***************************************************************************)
(* No more than its limit is committed in a window.                        *)
(***************************************************************************)
\* What a transaction found to fit, fits when it is over: its cut-off was not late.
LEMMA FittingCommits ==
  ASSUME BudgetTypeOK, BudgetTypeOK', NEW w \in Windows, NEW r \in Runs, NEW amount \in Nat,
         NEW asOf \in CutOffs, Fits(amount, asOf), now' = now, used' = used,
         \A s \in Runs \ {r} : reserved'[s] = reserved[s],
         Unspent(r)' <= Unspent(r) + amount
  PROVE  Committed(w, now)' <= Limit(w)
<1>0. SumsAreNaturals /\ SumsAreNaturals'
  BY CommittedIsSum, PTL
<1>1. PICK t \in Nat : t = now
  BY DEF Times, BudgetTypeOK
<1>2. asOf \in Nat /\ asOf <= t
  BY <1>1 DEF CutOffs, Times
<1>3. Committed(w, t) <= Committed(w, asOf)
  BY <1>2, CommittedLater
<1>4. Committed(w, asOf) + amount <= Limit(w)
  BY DEF Fits
<1>5. \A s \in Runs : Recent(s, w, t)' = Recent(s, w, t) /\ used'[s] = used[s]
  BY DEF Recent
<1>6. \A s \in Runs \ {r} : Recent(s, w, t)' + Unspent(s)' <= Recent(s, w, t) + Unspent(s)
  BY <1>0, <1>5, UnusedRun DEF SumsAreNaturals
<1>7. Recent(r, w, t)' + Unspent(r)' <= Recent(r, w, t) + Unspent(r) + amount
  BY <1>0, <1>5 DEF SumsAreNaturals
<1>8. Committed(w, t)' <= Committed(w, t) + amount
  BY <1>6, <1>7, CommittedRises
<1>9. Committed(w, t)' = Committed(w, now)'
  BY <1>1
<1>10. Committed(w, t)' \in Nat /\ Committed(w, t) \in Nat /\ Committed(w, asOf) \in Nat /\ Limit(w) \in Nat
  BY <1>0, BudgetAssumption DEF SumsAreNaturals, Limit
<1> QED BY <1>3, <1>4, <1>8, <1>9, <1>10

\* What does not raise a share at the present cut-off stays within the limit.
LEMMA FallingStaysWithin ==
  ASSUME BudgetTypeOK, BudgetTypeOK', CommittedWithinBudget, NEW w \in Windows, now' = now,
         \A t : \A s \in Runs : Recent(s, w, t)' + Unspent(s)' <= Recent(s, w, t) + Unspent(s)
  PROVE  Committed(w, now)' <= Limit(w)
<1>0. SumsAreNaturals /\ SumsAreNaturals'
  BY CommittedIsSum, PTL
<1>1. PICK t \in Nat : t = now
  BY DEF Times, BudgetTypeOK
<1>2. Committed(w, t)' <= Committed(w, t)
  BY CommittedFalls
<1>3. Committed(w, t) <= Limit(w) /\ Committed(w, t)' = Committed(w, now)'
  BY <1>1 DEF CommittedWithinBudget
<1>4. Committed(w, t)' \in Nat /\ Committed(w, t) \in Nat /\ Limit(w) \in Nat
  BY <1>0, BudgetAssumption DEF SumsAreNaturals, Limit
<1> QED BY <1>2, <1>3, <1>4

\* While calls are funded, every step keeps what is committed within the limits.
LEMMA WithinKept ==
  BudgetTypeOK /\ BudgetTypeOK' /\ CallIsFunded /\ CommittedWithinBudget /\ [Next]_vars
    => CommittedWithinBudget'
<1> SUFFICES ASSUME BudgetTypeOK, BudgetTypeOK', CallIsFunded, CommittedWithinBudget, [Next]_vars,
                    NEW w \in Windows
             PROVE  Committed(w, now)' <= Limit(w)
  BY DEF CommittedWithinBudget
<1> DEFINE Goal == Committed(w, now)' <= Limit(w)
<1>0. /\ SumsAreNaturals /\ SumsAreNaturals' /\ Unreserved \notin Nat
      /\ pc \in [Runs -> Points] /\ reserved \in [Runs -> Nat \cup {Unreserved}]
      /\ used \in [Runs -> [Times -> Nat]] /\ call \in [Runs -> [ceiling : Nat, at : Times]]
  BY CommittedIsSum, BudgetAssumption, PTL DEF BudgetTypeOK
<1>1. ASSUME used' = used, now' = now,
             \A s \in Runs : reserved'[s] = reserved[s] \/ reserved'[s] = Unreserved
      PROVE  Goal
  <2>1. \A s \in Runs : Unspent(s)' <= Unspent(s)
    <3> TAKE s \in Runs
    <3>1. CASE reserved'[s] = reserved[s]
      BY <1>0, <1>1, <3>1, UnusedRun DEF SumsAreNaturals
    <3>2. CASE reserved'[s] = Unreserved
      BY <1>0, <3>2 DEF SumsAreNaturals, Unspent
    <3> QED BY <1>1, <3>1, <3>2
  <2>2. \A t : \A s \in Runs : Recent(s, w, t)' = Recent(s, w, t)
    BY <1>1 DEF Recent
  <2>3. \A t : \A s \in Runs : Recent(s, w, t)' + Unspent(s)' <= Recent(s, w, t) + Unspent(s)
    BY <1>0, <2>1, <2>2 DEF SumsAreNaturals
  <2> QED BY <1>1, <2>3, FallingStaysWithin
<1> HIDE DEF Goal
<1>2. ASSUME NEW r \in Runs, Reserve(r) PROVE Goal
  <2>1. CASE reserved' = reserved
    BY <1>1, <1>2, <2>1 DEF Reserve, budget
  <2>2. CASE \E asOf \in CutOffs : Fits(PerRun, asOf) /\ reserved' = [reserved EXCEPT ![r] = PerRun]
    <3>1. PICK asOf \in CutOffs : Fits(PerRun, asOf) /\ reserved' = [reserved EXCEPT ![r] = PerRun]
      BY <2>2
    <3>2. UNCHANGED <<used, now>> /\ Total(r)' \in Nat /\ PerRun \in Nat
      BY <1>0, <1>2, BudgetAssumption DEF Reserve, budget, SumsAreNaturals
    <3>3. reserved'[r] = PerRun /\ \A s \in Runs \ {r} : reserved'[s] = reserved[s]
      BY <1>0, <3>1
    <3>4. Unspent(r)' <= Unspent(r) + PerRun
      BY <1>0, <3>2, <3>3 DEF Unspent, SumsAreNaturals
    <3> QED BY <3>1, <3>2, <3>3, <3>4, FittingCommits DEF Goal
  <2> QED BY <1>2, <2>1, <2>2 DEF Reserve
<1>3. ASSUME NEW r \in Runs, CreateRow(r) \/ FailCall(r) \/ Seal(r) PROVE Goal
  BY <1>1, <1>3 DEF CreateRow, FailCall, Seal, budget
<1>4. ASSUME NEW r \in Runs, Release(r) PROVE Goal
  BY <1>0, <1>1, <1>4 DEF Release, budget
<1>5. ASSUME NEW r \in Runs, Fund(r) PROVE Goal
  <2>0. UNCHANGED <<used, now>>
    BY <1>5 DEF Fund
  <2>1. CASE reserved' = reserved
    BY <1>1, <2>0, <2>1
  <2>2. CASE reserved' # reserved
    <3>1. PICK ceiling \in 1..MaxCall, asOf \in CutOffs :
            /\ Funded(r, ceiling, asOf)
            /\ reserved' = [reserved EXCEPT ![r] = IF Required(r, ceiling) <= @ THEN @
                                                   ELSE Required(r, ceiling)]
      BY <1>5, <2>2 DEF Fund
    <3>2. reserved[r] \in Nat /\ ~(Required(r, ceiling) <= reserved[r])
      BY <1>0, <2>2, <3>1 DEF Funded
    <3>3. reserved'[r] = Required(r, ceiling) /\ \A s \in Runs \ {r} : reserved'[s] = reserved[s]
      BY <1>0, <3>1, <3>2
    <3>4. /\ Total(r) \in Nat /\ ceiling \in Nat /\ Required(r, ceiling) = Total(r) + ceiling
          /\ Total(r)' = Total(r)
      BY <1>0, <2>0, UnusedRun, BudgetAssumption DEF SumsAreNaturals, Required
    <3> DEFINE amount == Required(r, ceiling) - reserved[r]
    <3>5. amount \in Nat /\ Fits(amount, asOf)
      BY <3>1, <3>2, <3>4 DEF Funded
    <3>6. Unspent(r)' = ceiling
      BY <1>0, <3>2, <3>3, <3>4 DEF Unspent
    <3>7. Unspent(r)' <= Unspent(r) + amount
      BY <1>0, <3>2, <3>4, <3>6 DEF Unspent
    <3> QED BY <2>0, <3>1, <3>3, <3>5, <3>7, FittingCommits DEF Goal
  <2> QED BY <2>1, <2>2
<1>6. ASSUME NEW r \in Runs, Answer(r) PROVE Goal
  <2>1. CASE UNCHANGED <<used, reserved>>
    BY <1>1, <1>6, <2>1 DEF Answer
  <2>2. CASE ~UNCHANGED <<used, reserved>>
    <3>1. PICK tokens \in 0..call[r].ceiling :
            /\ used' = [used EXCEPT ![r][call[r].at] = @ + tokens]
            /\ reserved' = [reserved EXCEPT ![r] =
                  IF @ = Unreserved \/ @ >= Total(r) + tokens THEN @ ELSE Total(r) + tokens]
      BY <1>6, <2>2 DEF Answer
    <3>2. call[r] \in [ceiling : Nat, at : Times]
      BY <1>0
    <3>3. /\ tokens \in Nat /\ tokens <= call[r].ceiling /\ call[r].ceiling \in Nat
          /\ call[r].at \in Times /\ now' = now
      BY <1>6, <3>2 DEF Answer
    <3>4. reserved[r] \in Nat /\ Total(r) + call[r].ceiling <= reserved[r] /\ Total(r) \in Nat
      BY <1>0, <1>6 DEF CallIsFunded, Answer, SumsAreNaturals
    <3>5. reserved'[r] = reserved[r] /\ \A s \in Runs : reserved'[s] = reserved[s]
      BY <1>0, <3>1, <3>3, <3>4
    <3>6. /\ Total(r)' = Total(r) + tokens
          /\ \A t : Recent(r, w, t)' <= Recent(r, w, t) + tokens
          /\ \A s \in Runs \ {r} : used'[s] = used[s]
      BY <3>1, <3>3, RecordedCall
    <3>7. Unspent(r)' + tokens = Unspent(r)
      <4>0. \A total, kept \in Nat : total <= kept =>
              (IF kept = Unreserved \/ total >= kept THEN 0 ELSE kept - total) = kept - total
        BY BudgetAssumption
      <4>1. Unspent(r) = reserved[r] - Total(r)
        <5>1. Total(r) <= reserved[r]
          BY <3>3, <3>4
        <5> QED BY <3>4, <4>0, <5>1 DEF Unspent
      <4>2. Unspent(r)' = reserved[r] - (Total(r) + tokens)
        <5>1. Total(r) + tokens \in Nat /\ Total(r) + tokens <= reserved[r]
          BY <3>3, <3>4
        <5>2. Unspent(r)' = IF reserved[r] = Unreserved \/ Total(r) + tokens >= reserved[r]
                            THEN 0 ELSE reserved[r] - (Total(r) + tokens)
          BY <3>5, <3>6, Zenon DEF Unspent
        <5> HIDE DEF Unspent
        <5> QED BY <3>4, <4>0, <5>1, <5>2
      <4> QED BY <3>3, <3>4, <4>1, <4>2
    <3>8. \A t : Recent(r, w, t)' + Unspent(r)' <= Recent(r, w, t) + Unspent(r)
      BY <1>0, <3>3, <3>6, <3>7 DEF SumsAreNaturals
    <3>9. \A t : \A s \in Runs \ {r} : Recent(s, w, t)' = Recent(s, w, t) /\ Unspent(s)' = Unspent(s)
      BY <3>5, <3>6, UnusedRun
    <3>10. \A t : \A s \in Runs : Recent(s, w, t)' + Unspent(s)' <= Recent(s, w, t) + Unspent(s)
      <4> TAKE t
      <4>1. \A s \in Runs \ {r} : Recent(s, w, t)' + Unspent(s)' <= Recent(s, w, t) + Unspent(s)
        BY <1>0, <3>9 DEF SumsAreNaturals
      <4> QED BY <3>8, <4>1
    <3> QED BY <3>3, <3>10, FallingStaysWithin DEF Goal
  <2> QED BY <2>1, <2>2
<1>7. ASSUME NEW p \in Processes, Start(p) PROVE Goal
  BY <1>0, <1>1, <1>7 DEF Start, CleanUp
<1>8. CASE Tick
  <2>1. /\ now \in Nat /\ now' = now + 1 /\ Limit(w) \in Nat
        /\ \A t : \A r \in Runs : Recent(r, w, t)' = Recent(r, w, t) /\ Unspent(r)' = Unspent(r)
    BY <1>8, UnusedRun, BudgetAssumption DEF Tick, run, budget, BudgetTypeOK, Times, Limit
  <2>2. PICK t \in Nat : t = now
    BY <2>1
  <2>3. Committed(w, t + 1)' <= Committed(w, t + 1)
    <3> DEFINE later == t + 1
    <3>1. \A r \in Runs : Recent(r, w, later)' + Unspent(r)' <= Recent(r, w, later) + Unspent(r)
      BY <1>0, <2>1 DEF SumsAreNaturals
    <3> HIDE DEF later
    <3>2. Committed(w, later)' <= Committed(w, later)
      BY <3>1, CommittedFalls
    <3> QED BY <3>2 DEF later
  <2>4. Committed(w, t + 1) <= Committed(w, t)
    BY CommittedLater
  <2>5. Committed(w, t) <= Limit(w) /\ Committed(w, t + 1)' = Committed(w, now)'
    BY <2>1, <2>2 DEF CommittedWithinBudget
  <2>6. Committed(w, t + 1)' \in Nat /\ Committed(w, t + 1) \in Nat /\ Committed(w, t) \in Nat
    BY <1>0 DEF SumsAreNaturals
  <2> QED BY <2>1, <2>3, <2>4, <2>5, <2>6 DEF Goal
<1>9. CASE UNCHANGED vars
  <2>1. used' = used /\ now' = now /\ reserved' = reserved
    BY <1>9 DEF vars, run, budget
  <2>2. \A s \in Runs : reserved'[s] = reserved[s] \/ reserved'[s] = Unreserved
    BY <2>1
  <2> QED BY <1>1, <2>1, <2>2 DEF Goal
<1> QED BY <1>2, <1>3, <1>4, <1>5, <1>6, <1>7, <1>8, <1>9 DEF Next, Goal

(***************************************************************************)
(* What the provider is asked for is covered by what is committed.         *)
(***************************************************************************)
\* As long as nothing was lost, the usage in a window and the ceilings of the calls in flight are
\* part of what the runs have used and reserved.
LEMMA CommittedCoversSpending ==
  BudgetTypeOK /\ CallIsFunded /\ CommittedWithinBudget => SpendingWithinBudget
<1> SUFFICES ASSUME BudgetTypeOK, CallIsFunded, CommittedWithinBudget, SumFunction(lost) = 0,
                    NEW w \in Windows
             PROVE  Spending(w) <= Limit(w)
  BY DEF SpendingWithinBudget
<1> DEFINE recent == Within(w, now)
           sent == {r \in Runs : pc[r] = "calling" /\ call[r].at \in recent}
           usage == [r \in Runs |-> SumFunctionOnSet(used[r], recent)]
           ceilings == [r \in Runs |-> call[r].ceiling]
           both == [r \in Runs |-> usage[r] + IF r \in sent THEN ceilings[r] ELSE 0]
           shares == Shares(w, now)
<1>0. SumsAreNaturals /\ IsFiniteSet(Runs)
  BY CommittedIsSum, BudgetAssumption
<1>1. SumFunctionOnSet(lost, recent) = 0
  <2>1. IsFiniteSet(Times) /\ recent \in SUBSET Times /\ IsFiniteSet(recent)
    BY FiniteTimes
  <2>2. DOMAIN lost = Times /\ \A t \in Times : lost[t] \in Nat
    BY DEF BudgetTypeOK
  <2>3. SumFunctionOnSet(lost, Times) = 0
    BY <2>2, Zenon DEF SumFunction
  <2> HIDE DEF recent
  <2>4. SumFunctionOnSet(lost, recent) <= SumFunctionOnSet(lost, Times)
    BY <2>1, <2>2, SumOfPart
  <2>5. SumFunctionOnSet(lost, recent) \in Nat
    BY <2>1, <2>2, SumRemove
  <2> QED BY <2>3, <2>4, <2>5
<1>2. \A r \in Runs : usage[r] \in Nat /\ usage[r] = Recent(r, w, now)
  BY <1>0 DEF SumsAreNaturals, Recent
<1>3. \A r \in Runs : ceilings[r] \in Nat
  <2> TAKE r \in Runs
  <2>1. call[r] \in [ceiling : Nat, at : Times]
    BY DEF BudgetTypeOK
  <2> QED BY <2>1
<1>4. \A r \in sent : ceilings[r] <= Unspent(r)
  <2> TAKE r \in sent
  <2>1. reserved[r] # Unreserved /\ Total(r) + ceilings[r] <= reserved[r]
    BY DEF CallIsFunded
  <2>2. reserved[r] \in Nat /\ Total(r) \in Nat /\ ceilings[r] \in Nat
    BY <1>0, <1>3, <2>1 DEF BudgetTypeOK, SumsAreNaturals
  <2> HIDE DEF ceilings
  <2> QED BY <2>1, <2>2 DEF Unspent
<1>5. \A r \in Runs : /\ shares[r] \in Nat /\ shares[r] = Recent(r, w, now) + Unspent(r)
                      /\ Unspent(r) \in Nat
  BY <1>0 DEF SumsAreNaturals
<1>6. sent \in SUBSET Runs
  OBVIOUS
<1>7. /\ SumFunction(usage) = SumFunctionOnSet(usage, Runs)
      /\ Spending(w) = SumFunction(usage) + SumFunctionOnSet(lost, recent)
                         + SumFunctionOnSet(ceilings, sent)
  BY Zenon DEF Spending, SumFunction
<1> HIDE DEF recent, sent, usage, ceilings, shares
<1>8. SumFunctionOnSet(usage, Runs) + SumFunctionOnSet(ceilings, sent) = SumFunctionOnSet(both, Runs)
  BY <1>0, <1>2, <1>3, <1>6, SumPlusPart
<1>9. \A r \in Runs : both[r] \in Nat /\ both[r] <= shares[r]
  BY <1>2, <1>3, <1>4, <1>5
<1> HIDE DEF both
<1>10. SumFunctionOnSet(both, Runs) <= SumFunctionOnSet(shares, Runs)
  BY <1>0, <1>5, <1>9, SumMonotone
<1>11. SumFunctionOnSet(shares, Runs) = Committed(w, now) /\ Committed(w, now) <= Limit(w)
  BY <1>0 DEF SumsAreNaturals, CommittedWithinBudget, shares
<1>12. SumFunctionOnSet(both, Runs) \in Nat /\ Committed(w, now) \in Nat /\ Limit(w) \in Nat
  BY <1>0, <1>9, SumRemove, BudgetAssumption DEF SumsAreNaturals, Limit
<1>13. SumFunctionOnSet(usage, Runs) \in Nat /\ SumFunctionOnSet(ceilings, sent) \in Nat
  BY <1>0, <1>2, <1>3, <1>6, FS_Subset, SumRemove
<1> QED BY <1>1, <1>7, <1>8, <1>10, <1>11, <1>12, <1>13

(***************************************************************************)
(* Theorems.                                                               *)
(***************************************************************************)
BudgetInv == BudgetTypeOK /\ CallIsFunded /\ CallHasCeiling /\ CommittedWithinBudget

\* While processes start alone, the budget's invariant holds in every state.
LEMMA BudgetInvariant == Spec /\ [][StartsAlone]_vars => []BudgetInv
<1>1. Init => BudgetInv
  <2> SUFFICES ASSUME Init PROVE BudgetInv
    OBVIOUS
  <2>1. BudgetTypeOK
    BY BudgetAssumption DEF Init, BudgetTypeOK, Points, InProgress, Times, NoCall
  <2>2. CallIsFunded /\ CallHasCeiling
    BY DEF Init, CallIsFunded, CallHasCeiling
  <2>3. CommittedWithinBudget
    <3> SUFFICES ASSUME NEW w \in Windows PROVE Committed(w, now) <= Limit(w)
      BY DEF CommittedWithinBudget
    <3>1. \A r \in Runs : Unspent(r) = 0
      BY DEF Init, Unspent
    <3>2. \A r \in Runs : Recent(r, w, now) = 0
      <4> TAKE r \in Runs
      <4>1. \A t \in Within(w, now) : used[r][t] = 0
        BY FiniteTimes DEF Init
      <4> QED BY <4>1, FiniteTimes, SumOfZeros DEF Recent
    <3>3. \A r \in Runs : Shares(w, now)[r] = 0
      BY <3>1, <3>2 DEF Shares
    <3>4. SumFunctionOnSet(Shares(w, now), Runs) = 0
      BY <3>3, BudgetAssumption, SumOfZeros
    <3>5. Committed(w, now) = 0
      BY <2>1, <3>4, CommittedIsSum DEF SumsAreNaturals
    <3> QED BY <3>5, BudgetAssumption DEF Limit
  <2> QED BY <2>1, <2>2, <2>3 DEF BudgetInv
<1>2. BudgetInv /\ [Next]_vars /\ [StartsAlone]_vars => BudgetInv'
  <2> SUFFICES ASSUME BudgetInv, [Next]_vars, [StartsAlone]_vars PROVE BudgetInv'
    OBVIOUS
  <2>1. BudgetTypeOK'
    BY TypesKept DEF BudgetInv
  <2> QED BY <2>1, FundingKept, WithinKept DEF BudgetInv
<1> QED BY <1>1, <1>2, PTL DEF Spec

\* While processes start alone, no more than its limit is ever committed in a window, whatever
\* cut-offs the transactions of all runs saw (db.py:199-353).
THEOREM BudgetIsKept == Spec /\ [][StartsAlone]_vars => []CommittedWithinBudget
BY BudgetInvariant, PTL DEF BudgetInv

\* And unless a call ended without its usage being recorded, so is what the provider is asked for,
\* the most that the calls in flight may use included (receipt.py:373-386, db.py:303-353).
THEOREM SpendingIsKept == Spec /\ [][StartsAlone]_vars => []SpendingWithinBudget
<1>1. BudgetInv => SpendingWithinBudget
  BY CommittedCoversSpending DEF BudgetInv
<1> QED BY <1>1, BudgetInvariant, PTL

\* A single process always starts alone, so that it keeps both budgets without any proviso.
THEOREM OneProcessKeepsBudget ==
  ASSUME NEW server, Processes = {server}
  PROVE  Spec => [](CommittedWithinBudget /\ SpendingWithinBudget)
<1>1. BudgetTypeOK => StartsAlone
  BY DEF BudgetTypeOK, StartsAlone
<1>2. Spec => [][StartsAlone]_vars
  BY <1>1, BudgetTyped, PTL
<1> QED BY <1>2, BudgetIsKept, SpendingIsKept, PTL
=============================================================================
