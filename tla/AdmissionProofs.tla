--------------------------- MODULE AdmissionProofs ---------------------------
(***************************************************************************)
(* Capacity, sessions, reservations and the closing of the corpus, for any *)
(* number of runs and any bounds.  One inductive invariant says, of every  *)
(* point a run can be at, what it holds there.                             *)
(***************************************************************************)
EXTENDS Admission, DataTheorems

\* A run has a slot from its admission to the end of its task.
HoldsSlot == Creating \cup Tasked \cup {"abandoned"}

Shape ==
    /\ pc \in [Runs -> Points] /\ request \in [Runs -> Requests]
    /\ admitted \subseteq Runs /\ live \subseteq admitted
    /\ reserved \subseteq Runs /\ released \subseteq Runs /\ awaited \subseteq Runs
    /\ faults \in Nat /\ cancels \in Nat

Slots ==
    /\ Cardinality(admitted) <= MaxConcurrent
    /\ \A r \in Runs : pc[r] \in HoldsSlot <=> r \in admitted
    /\ \A r \in Runs : pc[r] \in HoldsSlot /\ ~request[r].rehearsal => r \in live
    /\ \A r, s \in live : r # s => request[r].session # request[s].session

Reservations ==
    /\ \A r \in Runs :
          pc[r] \in {"persist"} \cup UsingCorpus /\ ~request[r].rehearsal => r \in reserved
    /\ faults = 0 =>
          \A r \in reserved :
              pc[r] \in {"unreserve", "persist", "rollback", "finalizing", "abandoned"} \cup UsingCorpus

Closing ==
    /\ \A r \in released : pc[r] \in {"finalizing", "ended", "gone"}
    /\ stage # "serving" =>
          \A r \in Runs : pc[r] \notin Creating /\ (pc[r] \in Tasked => r \in awaited)
    /\ stage = "closed" => awaited \subseteq released

AdmissionInv == Shape /\ Slots /\ Reservations /\ Closing

LEMMA InitInv == Init => AdmissionInv
BY AdmissionAssumption, FS_EmptySet
   DEF Init, AdmissionInv, Shape, Slots, Reservations, Closing, Points, HoldsSlot, Creating, Tasked,
       Persisted, UsingCorpus

\* Faults are only counted up.
LEMMA FaultsGrow ==
    ASSUME faults \in Nat, cancels \in Nat, Answered \/ Faulty \/ Cancelled
    PROVE  faults' \in Nat /\ cancels' \in Nat /\ (faults' = 0 => faults = 0)
BY DEF Answered, Faulty, Cancelled

LEMMA FaultsCount == ASSUME faults \in Nat, Faulty PROVE faults' # 0
BY DEF Faulty

LEMMA SlotCount ==
    ASSUME admitted \subseteq Runs, NEW r
    PROVE  /\ IsFiniteSet(admitted) /\ Cardinality(admitted) \in Nat
           /\ r \notin admitted => Cardinality(admitted \cup {r}) = Cardinality(admitted) + 1
           /\ r \in admitted => Cardinality(admitted \cup {r}) = Cardinality(admitted)
           /\ Cardinality(admitted \ {r}) \in Nat
           /\ Cardinality(admitted \ {r}) <= Cardinality(admitted)
<1>1. IsFiniteSet(admitted) /\ Cardinality(admitted) \in Nat
  BY AdmissionAssumption, FS_Subset, FS_CardinalityType
<1>2. admitted \ {r} \in SUBSET admitted OBVIOUS
<1>3. IsFiniteSet(admitted \ {r}) /\ Cardinality(admitted \ {r}) <= Cardinality(admitted)
  BY <1>1, <1>2, FS_Subset
<1>4. Cardinality(admitted \ {r}) \in Nat BY <1>3, FS_CardinalityType
<1> QED BY <1>1, <1>3, <1>4, FS_AddElement

\* What the next state's counters can be, whatever the step.
LEMMA CountersStep ==
    ASSUME faults \in Nat, cancels \in Nat, [Next]_vars
    PROVE  faults' \in Nat /\ cancels' \in Nat /\ (faults' = 0 => faults = 0)
<1>1. CASE UNCHANGED vars BY <1>1 DEF vars
<1>2. CASE Next
  <2>1. ASSUME NEW r \in Runs, Arrive(r) \/ Start(r) \/ LetGo(r) \/ Finish(r)
        PROVE  faults' = faults /\ cancels' = cancels
    BY <2>1 DEF Arrive, Start, LetGo, Finish
  <2>2. ASSUME NEW r \in Runs,
               \/ Reserve(r) \/ Unreserve(r) \/ Persist(r) \/ Rollback(r)
               \/ SoftTimerFails(r) \/ Finalize(r)
        PROVE  Answered \/ Faulty \/ Cancelled
    BY <2>2 DEF Reserve, Unreserve, Persist, Rollback, SoftTimerFails, Finalize
  <2>3. Shutdown \/ ShutdownEnds \/ Tick => faults' = faults /\ cancels' = cancels
    BY DEF Shutdown, ShutdownEnds, Tick
  <2>4. (faults' = faults /\ cancels' = cancels) \/ Answered \/ Faulty \/ Cancelled
    BY <1>2, <2>1, <2>2, <2>3 DEF Next, Progress
  <2> QED BY <2>4, FaultsGrow
<1> QED BY <1>1, <1>2

\* One step keeps the invariant: per action, what it changes of each conjunct.
LEMMA StepInv == AdmissionInv /\ [Next]_vars => AdmissionInv'
<1> SUFFICES ASSUME AdmissionInv, [Next]_vars PROVE AdmissionInv' OBVIOUS
<1> USE AdmissionAssumption DEF AdmissionInv, Shape, Goto, Points, HoldsSlot, Creating, Tasked,
        Persisted, UsingCorpus
<1>0. faults' \in Nat /\ cancels' \in Nat /\ (faults' = 0 => faults = 0) BY CountersStep
<1>a. Faulty => faults' # 0 BY FaultsCount
<1>1. ASSUME NEW r \in Runs, Arrive(r) PROVE AdmissionInv'
  <2> USE DEF ending
  <2>1. pc[r] = "idle" /\ stage = "serving" /\ UNCHANGED <<reserved, ending, faults, cancels>>
    BY <1>1 DEF Arrive
  <2>2. PICK q \in Requests :
           \/ Refuse(r, q)
           \/ /\ TakeSlot(r, q) /\ Charge(r, q)
              /\ request' = [request EXCEPT ![r] = q]
    BY <1>1 DEF Arrive
  <2>3. CASE Refuse(r, q)
    BY <2>1, <2>3 DEF Refuse, asked, slots, Slots, Reservations, Closing
  <2>4. CASE TakeSlot(r, q) /\ Charge(r, q) /\ request' = [request EXCEPT ![r] = q]
    <3>1. /\ pc' = [pc EXCEPT ![r] = pc'[r]]
          /\ \/ pc'[r] = "rollback" \/ pc'[r] = "reserve"
             \/ pc'[r] = "persist" /\ q.rehearsal
      BY <2>4 DEF Charge
    <3>2. Shape' BY <2>1, <2>4, <3>1 DEF TakeSlot
    <3>3. Slots'
      <4>1. ~AtCapacity /\ ~SessionBusy(q) /\ admitted' = admitted \cup {r} BY <2>4 DEF TakeSlot
      <4>2. Cardinality(admitted') <= MaxConcurrent
        BY <2>1, <4>1, SlotCount DEF AtCapacity, Slots
      <4>3. \A s, t \in live' : s # t => request'[s].session # request'[t].session
        <5>1. CASE q.rehearsal BY <2>1, <2>4, <5>1 DEF TakeSlot, Slots
        <5>2. CASE ~q.rehearsal BY <2>1, <2>4, <5>2, <4>1 DEF TakeSlot, SessionBusy, Slots
        <5> QED BY <5>1, <5>2
      <4>4. \A s \in Runs : pc'[s] \in HoldsSlot =>
               s \in live' \/ request'[s].rehearsal
        BY <2>4, <3>1, <4>1 DEF TakeSlot, Slots
      <4>5. \A s \in Runs : pc'[s] \in HoldsSlot <=> s \in admitted'
        BY <2>1, <3>1, <4>1 DEF Slots
      <4> QED BY <4>2, <4>3, <4>4, <4>5 DEF Slots
    <3>4. Reservations' BY <2>1, <2>4, <3>1 DEF Reservations
    <3>5. Closing' BY <2>1, <3>1 DEF Closing
    <3> QED BY <3>2, <3>3, <3>4, <3>5
  <2> QED BY <2>2, <2>3, <2>4
<1>2. ASSUME NEW r \in Runs, Reserve(r) PROVE AdmissionInv'
  <2>1. Shape' BY <1>2, <1>0 DEF Reserve, slots, asked, ending
  <2>2. Slots' BY <1>2 DEF Reserve, slots, asked, ending, Slots
  <2>3. Reservations' BY <1>2, <1>0 DEF Reserve, slots, asked, ending, Reservations
  <2>4. Closing' BY <1>2 DEF Reserve, slots, asked, ending, Closing
  <2> QED BY <2>1, <2>2, <2>3, <2>4
<1>3. ASSUME NEW r \in Runs, Unreserve(r) PROVE AdmissionInv'
  <2>1. Shape' BY <1>3, <1>0 DEF Unreserve, Unreserved, PerhapsUnreserved, slots, asked, ending
  <2>2. Slots' BY <1>3 DEF Unreserve, Unreserved, PerhapsUnreserved, slots, asked, ending, Slots
  <2>3. Reservations' BY <1>3, <1>0 DEF Unreserve, Unreserved, PerhapsUnreserved, slots, asked,
       ending, Reservations
  <2>4. Closing' BY <1>3 DEF Unreserve, Unreserved, PerhapsUnreserved, slots, asked, ending,
       Closing
  <2> QED BY <2>1, <2>2, <2>3, <2>4
<1>4. ASSUME NEW r \in Runs, Persist(r) PROVE AdmissionInv'
  <2>1. Shape' BY <1>4, <1>0 DEF Persist, slots, asked, ending
  <2>2. Slots' BY <1>4 DEF Persist, slots, asked, ending, Slots
  <2>3. Reservations' BY <1>4, <1>0 DEF Persist, slots, asked, ending, Reservations
  <2>4. Closing' BY <1>4 DEF Persist, slots, asked, ending, Closing
  <2> QED BY <2>1, <2>2, <2>3, <2>4
<1>5. ASSUME NEW r \in Runs, Rollback(r) PROVE AdmissionInv'
  <2>1. Shape' BY <1>5, <1>0 DEF Rollback, Unreserved, PerhapsUnreserved, GiveUpSlot, slots,
       asked, ending
  <2>2. Slots'
    <3>1. CASE GiveUpSlot(r) /\ pc' = [pc EXCEPT ![r] = "failed"]
      <4>1. /\ Cardinality(admitted) \in Nat /\ Cardinality(admitted \ {r}) \in Nat
            /\ Cardinality(admitted \ {r}) <= Cardinality(admitted)
        BY SlotCount
      <4>2. Cardinality(admitted') <= MaxConcurrent BY <3>1, <4>1 DEF GiveUpSlot, Slots
      <4> QED BY <1>5, <3>1, <4>2 DEF Rollback, GiveUpSlot, asked, Slots
    <3>2. CASE UNCHANGED slots /\ pc' = [pc EXCEPT ![r] = "abandoned"]
      BY <1>5, <3>2 DEF Rollback, slots, asked, Slots
    <3> QED BY <1>5, <3>1, <3>2 DEF Rollback, slots
  <2>3. Reservations' BY <1>5, <1>0, <1>a DEF Rollback, Unreserved, PerhapsUnreserved, GiveUpSlot,
       slots, asked, ending, Reservations
  <2>4. Closing' BY <1>5 DEF Rollback, Unreserved, PerhapsUnreserved, GiveUpSlot, slots, asked,
       ending, Closing
  <2> QED BY <2>1, <2>2, <2>3, <2>4
<1>6. ASSUME NEW r \in Runs, Start(r) PROVE AdmissionInv'
  <2>1. Shape' BY <1>6, <1>0 DEF Start, slots, asked, ending
  <2>2. Slots' BY <1>6 DEF Start, slots, asked, ending, Slots
  <2>3. Reservations' BY <1>6, <1>0 DEF Start, slots, asked, ending, Reservations
  <2>4. Closing' BY <1>6 DEF Start, slots, asked, ending, Closing
  <2> QED BY <2>1, <2>2, <2>3, <2>4
<1>7. ASSUME NEW r \in Runs, LetGo(r) PROVE AdmissionInv'
  <2>1. Shape' BY <1>7, <1>0 DEF LetGo, slots, asked
  <2>2. Slots' BY <1>7 DEF LetGo, slots, asked, Slots
  <2>3. Reservations' BY <1>7, <1>0 DEF LetGo, slots, asked, Reservations
  <2>4. Closing' BY <1>7 DEF LetGo, slots, asked, Closing
  <2> QED BY <2>1, <2>2, <2>3, <2>4
<1>8. ASSUME NEW r \in Runs, SoftTimerFails(r) PROVE AdmissionInv'
  <2>1. Shape' BY <1>8, <1>0 DEF SoftTimerFails, slots, asked, ending
  <2>2. Slots' BY <1>8 DEF SoftTimerFails, slots, asked, ending, Slots
  <2>3. Reservations' BY <1>8, <1>0, <1>a DEF SoftTimerFails, slots, asked, ending, Reservations
  <2>4. Closing' BY <1>8 DEF SoftTimerFails, slots, asked, ending, Closing
  <2> QED BY <2>1, <2>2, <2>3, <2>4
<1>9. ASSUME NEW r \in Runs, Finalize(r) PROVE AdmissionInv'
  <2>1. Shape' BY <1>9, <1>0 DEF Finalize, Unreserved, PerhapsUnreserved, slots, asked, ending
  <2>2. Slots' BY <1>9 DEF Finalize, Unreserved, PerhapsUnreserved, slots, asked, ending, Slots
  <2>3. Reservations' BY <1>9, <1>0, <1>a DEF Finalize, Unreserved, PerhapsUnreserved, slots, asked,
       ending, Reservations
  <2>4. Closing' BY <1>9 DEF Finalize, Unreserved, PerhapsUnreserved, slots, asked, ending,
       Closing
  <2> QED BY <2>1, <2>2, <2>3, <2>4
<1>10. ASSUME NEW r \in Runs, Finish(r) PROVE AdmissionInv'
  <2>1. Shape' BY <1>10, <1>0 DEF Finish, GiveUpSlot, slots, asked
  <2>2. Slots' BY <1>10, SlotCount DEF Finish, GiveUpSlot, slots, asked, Slots
  <2>3. Reservations' BY <1>10, <1>0 DEF Finish, GiveUpSlot, slots, asked, Reservations
  <2>4. Closing' BY <1>10 DEF Finish, GiveUpSlot, slots, asked, Closing
  <2> QED BY <2>1, <2>2, <2>3, <2>4
<1>11. CASE Shutdown
  BY <1>11 DEF Shutdown, slots, asked, windows, Slots, Reservations, Closing
<1>12. CASE ShutdownEnds
  <2>1. UNCHANGED <<pc, request, admitted, live, reserved, released, awaited, faults, cancels>>
    BY <1>12 DEF ShutdownEnds, slots, asked
  <2>2. Shape' BY <2>1
  <2>3. Slots' BY <2>1 DEF Slots
  <2>4. Reservations' BY <2>1 DEF Reservations
  <2>5. Closing' BY <1>12, <2>1 DEF ShutdownEnds, Closing
  <2> QED BY <2>2, <2>3, <2>4, <2>5
<1>13. CASE Tick
  BY <1>13 DEF Tick, slots, asked, windows, ending, Slots, Reservations, Closing
<1>14. CASE UNCHANGED vars
  BY <1>14 DEF vars, slots, asked, windows, ending, Slots, Reservations, Closing
<1> QED
  BY <1>1, <1>2, <1>3, <1>4, <1>5, <1>6, <1>7, <1>8, <1>9, <1>10, <1>11, <1>12, <1>13, <1>14
  DEF Next, Progress

THEOREM AlwaysAdmissionInv == Spec => []AdmissionInv
BY InitInv, StepInv, PTL DEF Spec

(***************************************************************************)
(* What follows from it.                                                   *)
(***************************************************************************)
\* A run with a slot finds the semaphore free, for every capacity (service.py:172, 410).
THEOREM NoTaskEverWaits == Spec => []NoTaskWaits
<1>1. AdmissionInv => NoTaskWaits
  <2> SUFFICES ASSUME AdmissionInv, NEW r \in At("waiting")
               PROVE  Cardinality(At("running")) < MaxConcurrent
    BY DEF NoTaskWaits
  <2> DEFINE R == At("running")
  <2>1. IsFiniteSet(admitted) /\ Cardinality(admitted) \in Nat
    BY SlotCount DEF AdmissionInv, Shape
  <2>2. R \cup {r} \in SUBSET admitted
    BY DEF At, AdmissionInv, Slots, HoldsSlot, Tasked, UsingCorpus
  <2>3. IsFiniteSet(R) /\ Cardinality(R) \in Nat BY <2>1, <2>2, FS_Subset, FS_CardinalityType
  <2>4. r \notin R BY DEF At
  <2>5. Cardinality(R \cup {r}) = Cardinality(R) + 1 BY <2>3, <2>4, FS_AddElement
  <2>6. Cardinality(R \cup {r}) <= Cardinality(admitted) BY <2>1, <2>2, FS_Subset
  <2> HIDE DEF R
  <2>7. Cardinality(R) < MaxConcurrent
    BY <2>1, <2>3, <2>5, <2>6, AdmissionAssumption DEF AdmissionInv, Slots
  <2> QED BY <2>7 DEF R
<1> QED BY <1>1, AlwaysAdmissionInv, PTL

\* A browser has at most one live run at any time, for every number of runs (service.py:176, 234).
THEOREM AlwaysOneLiveRun == Spec => []OneLiveRunPerSession
<1>1. AdmissionInv => OneLiveRunPerSession
  BY DEF AdmissionInv, Slots, HoldsSlot, OneLiveRunPerSession
<1> QED BY <1>1, AlwaysAdmissionInv, PTL

\* Live runs have their reservation, and a reservation its slot while storage works
\* (security.py:127-165, service.py:779).
THEOREM ReservationsAlwaysOwned == Spec => []ReservationsAreOwned
<1>1. AdmissionInv => ReservationsAreOwned
  BY DEF AdmissionInv, Shape, Slots, Reservations, HoldsSlot, Creating, Tasked, UsingCorpus,
         ReservationsAreOwned
<1> QED BY <1>1, AlwaysAdmissionInv, PTL

\* The corpus is never closed on a run that may still use it, however many runs there are when
\* the grace period starts (service.py:243, main.py:69).
THEOREM CorpusAlwaysClosedAfterUse == Spec => []CorpusClosedAfterUse
<1>1. AdmissionInv => CorpusClosedAfterUse
  BY DEF AdmissionInv, Closing, Tasked, UsingCorpus, CorpusClosedAfterUse
<1> QED BY <1>1, AlwaysAdmissionInv, PTL

(***************************************************************************)
(* The hourly windows.                                                     *)
(***************************************************************************)
\* What _attempt_by_run remembers of a run: when it was admitted, from then until its creation
\* is over, unless that is more than an hour ago.
Known ==
    \A r \in Runs :
        /\ admittedAt[r] <= now
        /\ attemptOf[r] # Nobody => attemptOf[r] = admittedAt[r]
        /\ pc[r] = "idle" => attemptOf[r] = Nobody
        /\ pc[r] \in {"reserve", "unreserve", "persist"} /\ Recent(admittedAt[r]) =>
              attemptOf[r] # Nobody

\* HourlyLimit, of the runs that are still being created as well.
ChargedWithin(key, t) ==
    {r \in Runs : Charged(r) /\ key \in KeysOf(request[r]) /\ admittedAt[r] \in t..(t + Hour)}
HourKept == \A key \in Keys, t \in Times : Cardinality(ChargedWithin(key, t)) <= Limit(key)

WindowInv == TypeOK /\ Known /\ WindowsAreExact /\ HourKept

LEMMA TimesAreNatural ==
    /\ Times \subseteq Nat /\ IsFiniteSet(Times) /\ 0 \in Times
    /\ Nobody \notin Times /\ Hour \in Nat /\ MaxTime \in Nat /\ MaxMishaps \in Nat
BY AdmissionAssumption, FS_Interval DEF Times

\* The ways a run arrives: it is refused, meets a full window, or is charged to its keys.
Refused(r) ==
    pc' = [pc EXCEPT ![r] = "refused"] /\ UNCHANGED <<request, admittedAt, attempts, attemptOf>>
TurnedAway(r, q) ==
    /\ pc' = [pc EXCEPT ![r] = "rollback"]
    /\ request' = [request EXCEPT ![r] = q] /\ admittedAt' = [admittedAt EXCEPT ![r] = now]
    /\ attempts' = Pruned /\ attemptOf' = Remembered
ChargedTo(r, q) ==
    /\ ~WindowFull(q)
    /\ \E point \in {"persist", "reserve"} : pc' = [pc EXCEPT ![r] = point]
    /\ request' = [request EXCEPT ![r] = q] /\ admittedAt' = [admittedAt EXCEPT ![r] = now]
    /\ attempts' = [key \in Keys |-> IF key \in KeysOf(q) THEN [Pruned[key] EXCEPT ![now] = @ + 1]
                                                          ELSE Pruned[key]]
    /\ attemptOf' = [Remembered EXCEPT ![r] = now]

LEMMA ArriveKinds ==
    ASSUME NEW r \in Runs, Arrive(r)
    PROVE  /\ pc[r] = "idle" /\ UNCHANGED <<reserved, released, stage, awaited, now, faults, cancels>>
           /\ Refused(r) \/ \E q \in Requests : TurnedAway(r, q) \/ ChargedTo(r, q)
<1>1. pc[r] = "idle" /\ UNCHANGED <<reserved, released, stage, awaited, now, faults, cancels>>
  BY Zenon DEF Arrive, ending
<1>2. PICK q \in Requests :
         \/ Refuse(r, q)
         \/ /\ TakeSlot(r, q) /\ Charge(r, q)
            /\ request' = [request EXCEPT ![r] = q]
            /\ admittedAt' = [admittedAt EXCEPT ![r] = now]
  BY Zenon DEF Arrive
<1>3. CASE Refuse(r, q)
  BY <1>1, <1>3, Zenon DEF Refuse, Refused, Goto, asked, windows
<1>4. CASE Charge(r, q) /\ request' = [request EXCEPT ![r] = q]
           /\ admittedAt' = [admittedAt EXCEPT ![r] = now]
  <2>1. CASE WindowFull(q)
    BY <1>1, <1>4, <2>1, Zenon DEF Charge, TurnedAway, Goto
  <2>2. CASE ~WindowFull(q)
    <3>1. \E point \in {"persist", "reserve"} : pc' = [pc EXCEPT ![r] = point]
      BY <1>4, <2>2 DEF Charge, Goto
    <3>2. ChargedTo(r, q)
      BY <1>4, <2>2, <3>1, Zenon DEF Charge, ChargedTo
    <3> QED BY <1>1, <3>2
  <2> QED BY <2>1, <2>2
<1> QED BY <1>2, <1>3, <1>4

\* The other steps leave what was asked alone, and only take attempts back.
LEMMA OtherKinds ==
    ASSUME Next, \A r \in Runs : ~Arrive(r)
    PROVE  /\ UNCHANGED asked
           /\ \/ UNCHANGED <<pc, windows>>
              \/ /\ now' = now
                 /\ \E r \in Runs :
                       \/ /\ pc[r] = "reserve" /\ UNCHANGED windows
                          /\ \E point \in {"persist", "unreserve"} : pc' = [pc EXCEPT ![r] = point]
                       \/ /\ pc[r] = "persist" /\ UNCHANGED windows
                          /\ \E point \in {"waiting", "rollback"} : pc' = [pc EXCEPT ![r] = point]
                       \/ /\ pc[r] = "unreserve" /\ pc' = [pc EXCEPT ![r] = "rollback"]
                          /\ TakeBack(r) \/ UNCHANGED windows
                       \/ /\ pc[r] = "rollback" /\ pc' = [pc EXCEPT ![r] = "failed"]
                          /\ TakeBack(r) \/ (Faulty /\ UNCHANGED windows)
                       \/ /\ pc[r] = "rollback" /\ pc' = [pc EXCEPT ![r] = "abandoned"]
                          /\ UNCHANGED windows
                       \/ /\ pc[r] \in Tasked
                          /\ \E point \in Persisted : pc' = [pc EXCEPT ![r] = point]
                          /\ UNCHANGED attempts
                          /\ UNCHANGED attemptOf \/ attemptOf' = [attemptOf EXCEPT ![r] = Nobody]
<1>1. CASE Shutdown \/ ShutdownEnds \/ Tick
  BY <1>1, Zenon DEF Shutdown, ShutdownEnds, Tick
<1>2. ASSUME NEW r \in Runs, Reserve(r) \/ Persist(r)
      PROVE  /\ UNCHANGED <<asked, windows>> /\ now' = now
             /\ \/ /\ pc[r] = "reserve"
                   /\ \E point \in {"persist", "unreserve"} : pc' = [pc EXCEPT ![r] = point]
                \/ /\ pc[r] = "persist"
                   /\ \E point \in {"waiting", "rollback"} : pc' = [pc EXCEPT ![r] = point]
  BY <1>2 DEF Reserve, Persist, Goto, windows, asked
<1>3. ASSUME NEW r \in Runs, Unreserve(r)
      PROVE  /\ UNCHANGED asked /\ now' = now
             /\ pc[r] = "unreserve" /\ pc' = [pc EXCEPT ![r] = "rollback"]
             /\ TakeBack(r) \/ UNCHANGED windows
  BY <1>3, Zenon DEF Unreserve, Goto
<1>4. ASSUME NEW r \in Runs, Rollback(r)
      PROVE  /\ UNCHANGED asked /\ now' = now /\ pc[r] = "rollback"
             /\ \/ /\ pc' = [pc EXCEPT ![r] = "failed"]
                   /\ TakeBack(r) \/ (Faulty /\ UNCHANGED windows)
                \/ pc' = [pc EXCEPT ![r] = "abandoned"] /\ UNCHANGED windows
  BY <1>4, Zenon DEF Rollback, Goto
<1>5. ASSUME NEW r \in Runs, Start(r) \/ LetGo(r) \/ SoftTimerFails(r) \/ Finalize(r) \/ Finish(r)
      PROVE  /\ UNCHANGED asked /\ now' = now /\ pc[r] \in Tasked
             /\ \E point \in Persisted : pc' = [pc EXCEPT ![r] = point]
             /\ UNCHANGED attempts
             /\ UNCHANGED attemptOf \/ attemptOf' = [attemptOf EXCEPT ![r] = Nobody]
  <2>1. UsingCorpus \cup {"finalizing", "ended"} = Tasked
        /\ {"running", "finalizing", "ended", "gone", "waiting"} \subseteq Persisted
    BY DEF Tasked, Persisted, UsingCorpus
  <2> QED BY <1>5, <2>1 DEF Start, LetGo, SoftTimerFails, Finalize, Finish, Goto, windows, UsingCorpus
<1> QED BY <1>1, <1>2, <1>3, <1>4, <1>5, Zenon DEF Next, Progress

(***************************************************************************)
(* The types.                                                              *)
(***************************************************************************)
LEMMA WindowTypes ==
    ASSUME TypeOK
    PROVE  /\ Pruned \in [Keys -> [Times -> Nat]]
           /\ Remembered \in [Runs -> Times \cup {Nobody}]
           /\ \A key \in Keys, t \in Times : Without(key, t) \in [Times -> Nat]
<1>0. attempts \in [Keys -> [Times -> Nat]] /\ attemptOf \in [Runs -> Times \cup {Nobody}]
  BY Zenon DEF TypeOK
<1>1. Pruned \in [Keys -> [Times -> Nat]]
  BY <1>0 DEF Pruned
<1>2. Remembered \in [Runs -> Times \cup {Nobody}]
  BY <1>0 DEF Remembered
<1>3. ASSUME NEW key \in Keys, NEW t \in Times PROVE Without(key, t) \in [Times -> Nat]
  <2>1. attempts[key] \in [Times -> Nat]
    BY <1>0
  <2>2. CASE attempts[key][t] > 0
    <3>1. attempts[key][t] - 1 \in Nat
      BY <2>1, <2>2
    <3> QED BY <2>1, <2>2, <3>1 DEF Without
  <2> QED BY <2>1, <2>2 DEF Without
<1> QED BY <1>1, <1>2, <1>3

LEMMA TakenBackTypes ==
    ASSUME TypeOK, NEW r \in Runs, TakeBack(r)
    PROVE  attempts' \in [Keys -> [Times -> Nat]] /\ attemptOf' \in [Runs -> Times \cup {Nobody}]
<1>1. attemptOf[r] # Nobody => attemptOf[r] \in Times
  BY DEF TypeOK
<1>2. attempts' = [key \in Keys |-> IF attemptOf[r] # Nobody /\ key \in KeysOf(request[r])
                                    THEN Without(key, attemptOf[r]) ELSE attempts[key]]
      /\ attemptOf' = [attemptOf EXCEPT ![r] = Nobody]
  BY Zenon DEF TakeBack
<1>3. \A key \in Keys : attempts[key] \in [Times -> Nat]
  BY DEF TypeOK
<1>4. attempts' \in [Keys -> [Times -> Nat]]
  BY <1>1, <1>2, <1>3, WindowTypes
<1>5. attemptOf' \in [Runs -> Times \cup {Nobody}]
  BY <1>2 DEF TypeOK
<1> QED BY <1>4, <1>5

LEMMA WindowTypesNext ==
    ASSUME TypeOK, [Next]_vars
    PROVE  /\ admittedAt' \in [Runs -> Times]
           /\ attempts' \in [Keys -> [Times -> Nat]]
           /\ attemptOf' \in [Runs -> Times \cup {Nobody}]
<1> USE TimesAreNatural
<1>1. CASE UNCHANGED vars
  BY <1>1 DEF vars, asked, windows, TypeOK
<1>2. ASSUME NEW r \in Runs, Arrive(r)
      PROVE  /\ admittedAt' \in [Runs -> Times]
             /\ attempts' \in [Keys -> [Times -> Nat]]
             /\ attemptOf' \in [Runs -> Times \cup {Nobody}]
  <2>1. CASE Refused(r)
    BY <2>1 DEF Refused, TypeOK
  <2>2. ASSUME NEW q \in Requests, TurnedAway(r, q)
        PROVE  /\ admittedAt' \in [Runs -> Times]
               /\ attempts' \in [Keys -> [Times -> Nat]]
               /\ attemptOf' \in [Runs -> Times \cup {Nobody}]
    BY <2>2, WindowTypes DEF TurnedAway, TypeOK
  <2>3. ASSUME NEW q \in Requests, ChargedTo(r, q)
        PROVE  /\ admittedAt' \in [Runs -> Times]
               /\ attempts' \in [Keys -> [Times -> Nat]]
               /\ attemptOf' \in [Runs -> Times \cup {Nobody}]
    <3>1. admittedAt' \in [Runs -> Times] /\ now \in Times
      BY <2>3 DEF ChargedTo, TypeOK
    <3>2. attemptOf' \in [Runs -> Times \cup {Nobody}]
      BY <2>3, <3>1, WindowTypes DEF ChargedTo
    <3>3. \A key \in Keys : /\ Pruned[key] \in [Times -> Nat]
                            /\ [Pruned[key] EXCEPT ![now] = @ + 1] \in [Times -> Nat]
      BY <3>1, WindowTypes
    <3>4. attempts' \in [Keys -> [Times -> Nat]]
      BY <2>3, <3>3 DEF ChargedTo
    <3> QED BY <3>1, <3>2, <3>4
  <2> QED BY <1>2, <2>1, <2>2, <2>3, ArriveKinds
<1>3. CASE Next /\ \A r \in Runs : ~Arrive(r)
  <2>1. admittedAt' \in [Runs -> Times]
    BY <1>3, OtherKinds DEF asked, TypeOK
  <2>2. CASE UNCHANGED attempts /\ (UNCHANGED attemptOf \/ \E r \in Runs : attemptOf' = [attemptOf EXCEPT ![r] = Nobody])
    BY <2>1, <2>2 DEF TypeOK
  <2>3. CASE \E r \in Runs : TakeBack(r)
    BY <2>1, <2>3, TakenBackTypes
  <2> QED BY <1>3, <2>2, <2>3, OtherKinds, Zenon DEF windows
<1> QED BY <1>1, <1>2, <1>3

LEMMA MishapTypes ==
    ASSUME faults \in 0..MaxMishaps, cancels \in 0..MaxMishaps, Answered \/ Faulty \/ Cancelled
    PROVE  faults' \in 0..MaxMishaps /\ cancels' \in 0..MaxMishaps
BY TimesAreNatural DEF Answered, Faulty, Cancelled

LEMMA ClockTypes ==
    ASSUME TypeOK, [Next]_vars
    PROVE  /\ now' \in Times /\ now <= now'
           /\ faults' \in 0..MaxMishaps /\ cancels' \in 0..MaxMishaps
           /\ stage' \in {"serving", "draining", "closed", "left open"}
<1>a. /\ now \in Times /\ faults \in 0..MaxMishaps /\ cancels \in 0..MaxMishaps
      /\ stage \in {"serving", "draining", "closed", "left open"}
  BY Zenon DEF TypeOK
<1>b. now \in Nat
  BY <1>a, TimesAreNatural
<1>0. now <= now
  BY <1>b
<1>1. CASE Tick
  BY <1>a, <1>b, <1>1, TimesAreNatural DEF Tick, Times, ending
<1>2. CASE Shutdown \/ ShutdownEnds
  BY <1>a, <1>0, <1>2 DEF Shutdown, ShutdownEnds
<1>3. CASE UNCHANGED vars
  BY <1>a, <1>0, <1>3 DEF vars, ending
<1>4. ASSUME NEW r \in Runs, Arrive(r) \/ Progress(r)
      PROVE  now' = now /\ stage' = stage
             /\ ((faults' = faults /\ cancels' = cancels) \/ Answered \/ Faulty \/ Cancelled)
  <2>1. CASE Arrive(r)
    BY <2>1 DEF Arrive, ending
  <2>2. CASE Reserve(r) \/ Unreserve(r) \/ Persist(r) \/ Rollback(r)
    BY <2>2, Zenon DEF Reserve, Unreserve, Persist, Rollback, ending
  <2>3. CASE Start(r) \/ LetGo(r) \/ Finish(r)
    BY <2>3 DEF Start, LetGo, Finish, ending
  <2>4. CASE SoftTimerFails(r) \/ Finalize(r)
    BY <2>4, Zenon DEF SoftTimerFails, Finalize, ending
  <2> QED BY <1>4, <2>1, <2>2, <2>3, <2>4 DEF Progress
<1>5. ASSUME NEW r \in Runs, Arrive(r) \/ Progress(r)
      PROVE  /\ now' \in Times /\ now <= now'
             /\ faults' \in 0..MaxMishaps /\ cancels' \in 0..MaxMishaps
             /\ stage' \in {"serving", "draining", "closed", "left open"}
  BY <1>a, <1>0, <1>4, <1>5, MishapTypes
<1> QED BY <1>1, <1>2, <1>3, <1>5 DEF Next

LEMMA TypeNext == AdmissionInv' /\ TypeOK /\ [Next]_vars => TypeOK'
BY WindowTypesNext, ClockTypes DEF AdmissionInv, Shape, TypeOK

LEMMA TypeInit == Init => TypeOK
<1> SUFFICES ASSUME Init PROVE TypeOK
  OBVIOUS
<1>1. Shape
  BY InitInv DEF AdmissionInv
<1>2. /\ attempts \in [Keys -> [Times -> Nat]] /\ attemptOf \in [Runs -> Times \cup {Nobody}]
      /\ admittedAt \in [Runs -> Times]
      /\ now \in Times /\ faults \in 0..MaxMishaps /\ cancels \in 0..MaxMishaps
      /\ stage \in {"serving", "draining", "closed", "left open"}
  BY TimesAreNatural DEF Init
<1> QED BY <1>1, <1>2 DEF Shape, TypeOK

\* Every table, window and counter keeps its type.
THEOREM AdmissionTyped == Spec => []TypeOK
BY TypeInit, TypeNext, AlwaysAdmissionInv, PTL DEF Spec

(***************************************************************************)
(* What is remembered of a run.                                            *)
(***************************************************************************)
LEMMA Typed ==
    ASSUME TypeOK
    PROVE  /\ attempts \in [Keys -> [Times -> Nat]] /\ attemptOf \in [Runs -> Times \cup {Nobody}]
           /\ pc \in [Runs -> Points] /\ request \in [Runs -> Requests]
           /\ admittedAt \in [Runs -> Times] /\ now \in Times /\ now \in Nat /\ faults \in Nat
<1>1. /\ attempts \in [Keys -> [Times -> Nat]] /\ attemptOf \in [Runs -> Times \cup {Nobody}]
      /\ pc \in [Runs -> Points] /\ request \in [Runs -> Requests]
      /\ admittedAt \in [Runs -> Times] /\ now \in Times /\ faults \in 0..MaxMishaps
  BY Zenon DEF TypeOK
<1> QED BY <1>1, TimesAreNatural

\* Nothing an hour old becomes recent again.
LEMMA RecentLater ==
    ASSUME TypeOK, now' \in Nat, now <= now', NEW t \in Times
    PROVE  Recent(t)' => Recent(t)
<1>1. t \in Nat /\ Hour \in Nat /\ now \in Nat
  BY Typed, TimesAreNatural
<1> QED BY <1>1 DEF Recent

\* Pruning forgets nothing recent.
LEMMA RememberedRecent ==
    ASSUME TypeOK, Known, NEW r \in Runs
    PROVE  /\ Remembered[r] \in {attemptOf[r], Nobody}
           /\ Recent(admittedAt[r]) => Remembered[r] = attemptOf[r]
BY Typed DEF Known, Remembered

LEMMA KnownNext == TypeOK /\ Known /\ [Next]_vars => Known'
<1> SUFFICES ASSUME TypeOK, Known, [Next]_vars, NEW s \in Runs
             PROVE  /\ (admittedAt[s])' <= now'
                    /\ (attemptOf[s])' # Nobody => (attemptOf[s])' = (admittedAt[s])'
                    /\ (pc[s])' = "idle" => (attemptOf[s])' = Nobody
                    /\ (pc[s])' \in {"reserve", "unreserve", "persist"} /\ Recent(admittedAt[s])' =>
                          (attemptOf[s])' # Nobody
  BY DEF Known
<1>0. /\ attemptOf \in [Runs -> Times \cup {Nobody}] /\ pc \in [Runs -> Points]
      /\ admittedAt \in [Runs -> Times] /\ now \in Nat /\ now' \in Nat /\ now <= now'
      /\ admittedAt[s] \in Nat
  BY Typed, ClockTypes, TimesAreNatural
<1>1. /\ admittedAt[s] <= now
      /\ attemptOf[s] # Nobody => attemptOf[s] = admittedAt[s]
      /\ pc[s] = "idle" => attemptOf[s] = Nobody
      /\ pc[s] \in {"reserve", "unreserve", "persist"} /\ Recent(admittedAt[s]) =>
            attemptOf[s] # Nobody
  BY DEF Known
<1>2. Recent(admittedAt[s])' /\ (admittedAt[s])' = admittedAt[s] => Recent(admittedAt[s])
  <2>1. \A t \in Times : t + Hour >= now' => t + Hour >= now
    BY RecentLater, <1>0 DEF Recent
  <2> QED BY <1>0, <2>1 DEF Recent
<1>3. CASE UNCHANGED vars
  BY <1>1, <1>3 DEF vars, asked, windows, Recent
<1>4. ASSUME NEW r \in Runs, Arrive(r)
      PROVE  /\ (admittedAt[s])' <= now'
             /\ (attemptOf[s])' # Nobody => (attemptOf[s])' = (admittedAt[s])'
             /\ (pc[s])' = "idle" => (attemptOf[s])' = Nobody
             /\ (pc[s])' \in {"reserve", "unreserve", "persist"} /\ Recent(admittedAt[s])' =>
                   (attemptOf[s])' # Nobody
  <2>1. now' = now /\ pc[r] = "idle"
    BY <1>4, ArriveKinds
  <2>2. /\ Remembered \in [Runs -> Times \cup {Nobody}]
        /\ Remembered[s] \in {attemptOf[s], Nobody}
        /\ Recent(admittedAt[s]) => Remembered[s] = attemptOf[s]
    BY WindowTypes, RememberedRecent
  <2>3. CASE Refused(r)
    BY <1>0, <1>1, <2>1, <2>3 DEF Refused, Recent
  <2>4. ASSUME NEW q \in Requests, TurnedAway(r, q) \/ ChargedTo(r, q), s # r
        PROVE  /\ (admittedAt[s])' <= now'
               /\ (attemptOf[s])' # Nobody => (attemptOf[s])' = (admittedAt[s])'
               /\ (pc[s])' = "idle" => (attemptOf[s])' = Nobody
               /\ (pc[s])' \in {"reserve", "unreserve", "persist"} /\ Recent(admittedAt[s])' =>
                     (attemptOf[s])' # Nobody
    <3>1. (admittedAt[s])' = admittedAt[s] /\ (pc[s])' = pc[s] /\ (attemptOf[s])' = Remembered[s]
      BY <1>0, <2>2, <2>4 DEF TurnedAway, ChargedTo
    <3> QED BY <1>1, <1>2, <2>1, <2>2, <3>1
  <2>5. ASSUME NEW q \in Requests, TurnedAway(r, q), s = r
        PROVE  /\ (admittedAt[s])' <= now'
               /\ (attemptOf[s])' # Nobody => (attemptOf[s])' = (admittedAt[s])'
               /\ (pc[s])' = "rollback"
    BY <1>0, <1>1, <2>1, <2>2, <2>5 DEF TurnedAway
  <2>6. ASSUME NEW q \in Requests, ChargedTo(r, q), s = r
        PROVE  /\ (admittedAt[s])' = now /\ (attemptOf[s])' = now
               /\ (pc[s])' \in {"persist", "reserve"}
    BY <1>0, <2>2, <2>6 DEF ChargedTo
  <2>7. now # Nobody
    BY Typed, TimesAreNatural
  <2> QED BY <1>0, <1>4, <2>1, <2>3, <2>4, <2>5, <2>6, <2>7, ArriveKinds
<1>5. CASE Next /\ \A r \in Runs : ~Arrive(r)
  <2>1. (admittedAt[s])' = admittedAt[s]
    BY <1>5, OtherKinds DEF asked
  <2>2. UNCHANGED attemptOf \/ \E r \in Runs : attemptOf' = [attemptOf EXCEPT ![r] = Nobody]
    BY <1>5, OtherKinds, Zenon DEF TakeBack, windows
  <2>3. (attemptOf[s])' \in {attemptOf[s], Nobody}
    BY <1>0, <2>2
  <2>4. /\ (pc[s])' = "idle" => pc[s] = "idle"
        /\ (pc[s])' \in {"reserve", "unreserve", "persist"} =>
             pc[s] \in {"reserve", "unreserve", "persist"} /\ (attemptOf[s])' = attemptOf[s]
    <3>1. CASE UNCHANGED <<pc, windows>>
      BY <3>1 DEF windows
    <3>2. PICK r \in Runs :
           \/ /\ pc[r] = "reserve" /\ UNCHANGED windows
              /\ \E point \in {"persist", "unreserve"} : pc' = [pc EXCEPT ![r] = point]
           \/ /\ pc[r] = "persist" /\ UNCHANGED windows
              /\ \E point \in {"waiting", "rollback"} : pc' = [pc EXCEPT ![r] = point]
           \/ /\ \E point \in Persisted \cup {"rollback", "failed", "abandoned"} :
                    pc' = [pc EXCEPT ![r] = point]
              /\ UNCHANGED attemptOf \/ attemptOf' = [attemptOf EXCEPT ![r] = Nobody]
         \/ UNCHANGED <<pc, windows>>
      BY <1>5, OtherKinds, Zenon DEF windows, TakeBack
    <3>3. \A point \in Persisted : point \notin {"idle", "reserve", "unreserve", "persist"}
      BY DEF Persisted, Tasked, UsingCorpus
    <3> QED BY <1>0, <3>1, <3>2, <3>3 DEF windows
  <2>5. (admittedAt[s])' <= now'
    BY <1>0, <1>1, <2>1
  <2> QED BY <1>1, <1>2, <2>1, <2>3, <2>4, <2>5
<1> QED BY <1>3, <1>4, <1>5

(***************************************************************************)
(* Who is charged after a step.                                            *)
(***************************************************************************)
LEMMA NobodyIdleIsCharged ==
    ASSUME NEW r \in Runs, pc[r] \in {"idle", "refused", "failed", "abandoned"}
    PROVE  ~Charged(r)
BY DEF Charged, Persisted, Tasked, UsingCorpus

\* Between its admission and the end of its creation a charged run is remembered while its
\* attempt is recent.
LEMMA ChargedIsRemembered ==
    ASSUME Known, NEW r \in Runs, pc[r] \in {"unreserve", "rollback"}, Recent(admittedAt[r])
    PROVE  Charged(r) <=> attemptOf[r] # Nobody
BY DEF Known, Charged, Persisted, Tasked, UsingCorpus

\* An arrival charges nobody but the run that arrives, and lets nobody recent off.
LEMMA ChargedByArrival ==
    ASSUME TypeOK, Known, NEW r \in Runs, pc[r] = "idle", now' = now,
           NEW q \in Requests, TurnedAway(r, q) \/ ChargedTo(r, q),
           NEW s \in Runs \ {r}
    PROVE  /\ (admittedAt[s])' = admittedAt[s] /\ (request[s])' = request[s]
           /\ Charged(s)' => Charged(s)
           /\ Recent(admittedAt[s]) => (Charged(s)' <=> Charged(s))
<1>1. /\ attemptOf \in [Runs -> Times \cup {Nobody}] /\ pc \in [Runs -> Points]
      /\ request \in [Runs -> Requests] /\ admittedAt \in [Runs -> Times]
      /\ Remembered \in [Runs -> Times \cup {Nobody}]
  BY Typed, WindowTypes
<1>2. /\ (admittedAt[s])' = admittedAt[s] /\ (request[s])' = request[s]
      /\ (pc[s])' = pc[s] /\ (attemptOf[s])' = Remembered[s]
  BY <1>1 DEF TurnedAway, ChargedTo
<1>3. /\ Remembered[s] \in {attemptOf[s], Nobody}
      /\ Recent(admittedAt[s]) => Remembered[s] = attemptOf[s]
  BY RememberedRecent
<1> QED BY <1>2, <1>3 DEF Charged

LEMMA ChargedOnArrival ==
    ASSUME TypeOK, NEW r \in Runs, NEW q \in Requests
    PROVE  /\ TurnedAway(r, q) /\ pc[r] = "idle" /\ Known => ~Charged(r)'
           /\ ChargedTo(r, q) => Charged(r)' /\ (admittedAt[r])' = now /\ (request[r])' = q
<1>1. /\ attemptOf \in [Runs -> Times \cup {Nobody}] /\ pc \in [Runs -> Points]
      /\ request \in [Runs -> Requests] /\ admittedAt \in [Runs -> Times]
      /\ Remembered \in [Runs -> Times \cup {Nobody}]
  BY Typed, WindowTypes
<1>2. ASSUME TurnedAway(r, q), pc[r] = "idle", Known PROVE ~Charged(r)'
  <2>1. Remembered[r] = Nobody
    BY <1>2, RememberedRecent DEF Known
  <2>2. (pc[r])' = "rollback" /\ (attemptOf[r])' = Nobody
    BY <1>1, <1>2, <2>1 DEF TurnedAway
  <2> QED BY <2>2 DEF Charged, Persisted, Tasked, UsingCorpus
<1>3. ASSUME ChargedTo(r, q)
      PROVE  Charged(r)' /\ (admittedAt[r])' = now /\ (request[r])' = q
  <2>1. (pc[r])' \in {"persist", "reserve"} /\ (admittedAt[r])' = now /\ (request[r])' = q
    BY <1>1, <1>3 DEF ChargedTo
  <2> QED BY <2>1 DEF Charged
<1> QED BY <1>2, <1>3

\* The other steps charge nobody.  They let a run off only when its creation is rolled back:
\* with its attempt taken back, or by a fault, or abandoned.
LEMMA ChargedByOthers ==
    ASSUME TypeOK, Known, Next, \A r \in Runs : ~Arrive(r)
    PROVE  /\ UNCHANGED <<request, admittedAt>>
           /\ \A s \in Runs : Charged(s)' => Charged(s)
           /\ \/ /\ UNCHANGED attempts
                 /\ \/ \A s \in Runs : Recent(admittedAt[s]) => (Charged(s)' <=> Charged(s))
                    \/ Faulty
                    \/ \E r \in Runs : (pc[r])' = "abandoned"
              \/ /\ now' = now
                 /\ \E r \in Runs :
                       /\ pc[r] \in {"unreserve", "rollback"} /\ TakeBack(r) /\ ~Charged(r)'
                       /\ \A s \in Runs \ {r} : Charged(s)' <=> Charged(s)
<1>0. attemptOf \in [Runs -> Times \cup {Nobody}] /\ pc \in [Runs -> Points]
  BY Typed
<1>1. UNCHANGED <<request, admittedAt>>
  BY OtherKinds DEF asked
<1>2. ASSUME NEW s \in Runs, (pc[s])' = pc[s], (attemptOf[s])' = attemptOf[s]
      PROVE  Charged(s)' <=> Charged(s)
  BY <1>2 DEF Charged
<1>3. CASE UNCHANGED <<pc, windows>>
  <2>1. UNCHANGED attempts /\ \A s \in Runs : Charged(s)' <=> Charged(s)
    BY <1>2, <1>3 DEF windows
  <2> QED BY <1>1, <2>1
<1>4. ASSUME NEW r \in Runs, NEW point, pc' = [pc EXCEPT ![r] = point],
             \/ UNCHANGED attemptOf
             \/ attemptOf' = [attemptOf EXCEPT ![r] = Nobody]
      PROVE  (pc[r])' = point /\ \A s \in Runs \ {r} : Charged(s)' <=> Charged(s)
  <2>1. \A s \in Runs \ {r} : (pc[s])' = pc[s] /\ (attemptOf[s])' = attemptOf[s]
    BY <1>0, <1>4
  <2> QED BY <1>0, <1>2, <1>4, <2>1
<1>5. ASSUME NEW r \in Runs, pc[r] \in {"reserve", "persist", "unreserve"} \cup Persisted
      PROVE  Charged(r)
  BY <1>5 DEF Charged
<1>6. ASSUME NEW r \in Runs, (pc[r])' \in {"persist", "unreserve"} \cup Persisted
      PROVE  Charged(r)'
  BY <1>6 DEF Charged
<1>7. ASSUME NEW r \in Runs, pc[r] \in {"persist", "unreserve"}, (pc[r])' = "rollback",
             (attemptOf[r])' = attemptOf[r], Recent(admittedAt[r])
      PROVE  Charged(r)'
  <2>1. attemptOf[r] # Nobody
    BY <1>7 DEF Known
  <2> QED BY <1>7, <2>1 DEF Charged
<1>8. ASSUME NEW r \in Runs, (pc[r])' \in {"failed", "abandoned"}
      PROVE  ~Charged(r)'
  BY <1>8 DEF Charged, Persisted, Tasked, UsingCorpus
<1>9. "waiting" \in Persisted
  BY DEF Persisted, Tasked, UsingCorpus
<1>10. ASSUME NEW r \in Runs, pc[r] = "reserve" \/ pc[r] = "persist", UNCHANGED windows,
              \E point \in {"persist", "unreserve", "waiting", "rollback"} : pc' = [pc EXCEPT ![r] = point],
              pc[r] = "reserve" => (pc[r])' # "rollback"
       PROVE  /\ UNCHANGED attempts
              /\ \A s \in Runs : Charged(s)' => Charged(s)
              /\ \A s \in Runs : Recent(admittedAt[s]) => (Charged(s)' <=> Charged(s))
  <2>1. PICK point \in {"persist", "unreserve", "waiting", "rollback"} : pc' = [pc EXCEPT ![r] = point]
    BY <1>10
  <2>2. UNCHANGED attemptOf /\ UNCHANGED attempts
    BY <1>10 DEF windows
  <2>3. (pc[r])' = point /\ \A s \in Runs \ {r} : Charged(s)' <=> Charged(s)
    BY <1>4, <2>1, <2>2
  <2>4. Charged(r)
    BY <1>5, <1>10
  <2>5. Recent(admittedAt[r]) => Charged(r)'
    BY <1>6, <1>7, <1>9, <1>10, <2>2, <2>3
  <2> QED BY <2>2, <2>3, <2>4, <2>5
<1>11. ASSUME NEW r \in Runs, pc[r] \in {"unreserve", "rollback"}, TakeBack(r),
              \E point \in {"rollback", "failed"} : pc' = [pc EXCEPT ![r] = point]
       PROVE  ~Charged(r)' /\ \A s \in Runs \ {r} : Charged(s)' <=> Charged(s)
  <2>1. PICK point \in {"rollback", "failed"} : pc' = [pc EXCEPT ![r] = point]
    BY <1>11
  <2>2. attemptOf' = [attemptOf EXCEPT ![r] = Nobody]
    BY <1>11, Zenon DEF TakeBack
  <2>3. (pc[r])' = point /\ \A s \in Runs \ {r} : Charged(s)' <=> Charged(s)
    BY <1>4, <2>1, <2>2
  <2>4. (attemptOf[r])' = Nobody
    BY <1>0, <2>2
  <2> QED BY <2>3, <2>4 DEF Charged, Persisted, Tasked, UsingCorpus
<1>12. ASSUME NEW r \in Runs, pc[r] = "unreserve", pc' = [pc EXCEPT ![r] = "rollback"], UNCHANGED windows
       PROVE  /\ UNCHANGED attempts
              /\ \A s \in Runs : Charged(s)' => Charged(s)
              /\ \A s \in Runs : Recent(admittedAt[s]) => (Charged(s)' <=> Charged(s))
  <2>1. UNCHANGED attemptOf /\ UNCHANGED attempts
    BY <1>12 DEF windows
  <2>2. (pc[r])' = "rollback" /\ \A s \in Runs \ {r} : Charged(s)' <=> Charged(s)
    BY <1>4, <1>12, <2>1
  <2>3. Charged(r) /\ (Recent(admittedAt[r]) => Charged(r)')
    BY <1>5, <1>7, <1>12, <2>1, <2>2
  <2> QED BY <2>1, <2>2, <2>3
<1>13. ASSUME NEW r \in Runs, pc[r] = "rollback", UNCHANGED windows,
              \E point \in {"failed", "abandoned"} : pc' = [pc EXCEPT ![r] = point]
       PROVE  /\ UNCHANGED attempts /\ (pc[r])' \in {"failed", "abandoned"}
              /\ \A s \in Runs : Charged(s)' => Charged(s)
  <2>1. PICK point \in {"failed", "abandoned"} : pc' = [pc EXCEPT ![r] = point]
    BY <1>13
  <2>2. UNCHANGED attemptOf /\ UNCHANGED attempts
    BY <1>13 DEF windows
  <2>3. (pc[r])' = point /\ \A s \in Runs \ {r} : Charged(s)' <=> Charged(s)
    BY <1>4, <2>1, <2>2
  <2> QED BY <1>8, <2>2, <2>3
<1>14. ASSUME NEW r \in Runs, pc[r] \in Tasked, UNCHANGED attempts,
              UNCHANGED attemptOf \/ attemptOf' = [attemptOf EXCEPT ![r] = Nobody],
              \E point \in Persisted : pc' = [pc EXCEPT ![r] = point]
       PROVE  \A s \in Runs : Charged(s)' <=> Charged(s)
  <2>1. PICK point \in Persisted : pc' = [pc EXCEPT ![r] = point]
    BY <1>14
  <2>2. (pc[r])' = point /\ \A s \in Runs \ {r} : Charged(s)' <=> Charged(s)
    BY <1>4, <1>14, <2>1
  <2>3. pc[r] \in Persisted
    BY <1>14 DEF Persisted
  <2> QED BY <1>5, <1>6, <2>2, <2>3
<1>15. CASE now' = now /\ \E r \in Runs :
                \/ /\ pc[r] = "reserve" /\ UNCHANGED windows
                   /\ \E point \in {"persist", "unreserve"} : pc' = [pc EXCEPT ![r] = point]
                \/ /\ pc[r] = "persist" /\ UNCHANGED windows
                   /\ \E point \in {"waiting", "rollback"} : pc' = [pc EXCEPT ![r] = point]
  <2>1. PICK r \in Runs :
                \/ /\ pc[r] = "reserve" /\ UNCHANGED windows
                   /\ \E point \in {"persist", "unreserve"} : pc' = [pc EXCEPT ![r] = point]
                \/ /\ pc[r] = "persist" /\ UNCHANGED windows
                   /\ \E point \in {"waiting", "rollback"} : pc' = [pc EXCEPT ![r] = point]
    BY <1>15
  <2>2. /\ \E point \in {"persist", "unreserve", "waiting", "rollback"} : pc' = [pc EXCEPT ![r] = point]
        /\ pc[r] = "reserve" => (pc[r])' # "rollback"
    BY <1>0, <2>1
  <2>3. UNCHANGED windows /\ (pc[r] = "reserve" \/ pc[r] = "persist")
    BY <2>1
  <2> QED BY <1>1, <1>10, <2>2, <2>3, Zenon
<1>16. CASE now' = now /\ \E r \in Runs :
                \/ /\ pc[r] = "unreserve" /\ pc' = [pc EXCEPT ![r] = "rollback"]
                   /\ TakeBack(r) \/ UNCHANGED windows
                \/ /\ pc[r] = "rollback" /\ pc' = [pc EXCEPT ![r] = "failed"]
                   /\ TakeBack(r) \/ (Faulty /\ UNCHANGED windows)
                \/ /\ pc[r] = "rollback" /\ pc' = [pc EXCEPT ![r] = "abandoned"]
                   /\ UNCHANGED windows
  <2>1. PICK r \in Runs :
                \/ /\ pc[r] = "unreserve" /\ pc' = [pc EXCEPT ![r] = "rollback"]
                   /\ TakeBack(r) \/ UNCHANGED windows
                \/ /\ pc[r] = "rollback" /\ pc' = [pc EXCEPT ![r] = "failed"]
                   /\ TakeBack(r) \/ (Faulty /\ UNCHANGED windows)
                \/ /\ pc[r] = "rollback" /\ pc' = [pc EXCEPT ![r] = "abandoned"]
                   /\ UNCHANGED windows
    BY <1>16
  <2>2. CASE TakeBack(r)
    <3>1. \/ /\ pc[r] \in {"unreserve", "rollback"}
             /\ \E point \in {"rollback", "failed"} : pc' = [pc EXCEPT ![r] = point]
          \/ (pc[r] = "rollback" /\ pc' = [pc EXCEPT ![r] = "abandoned"] /\ UNCHANGED windows)
      BY <2>1
    <3>2. CASE pc[r] \in {"unreserve", "rollback"} /\ (\E point \in {"rollback", "failed"} : pc' = [pc EXCEPT ![r] = point])
      <4>1. ~Charged(r)' /\ \A s \in Runs \ {r} : Charged(s)' <=> Charged(s)
        BY <1>11, <2>2, <3>2, Zenon
      <4> QED BY <1>1, <1>16, <2>2, <3>2, <4>1
    <3>3. CASE pc[r] = "rollback" /\ pc' = [pc EXCEPT ![r] = "abandoned"] /\ UNCHANGED windows
      <4>1. UNCHANGED attempts /\ (pc[r])' = "abandoned" /\ \A s \in Runs : Charged(s)' => Charged(s)
        BY <1>0, <1>13, <3>3
      <4> QED BY <1>1, <4>1
    <3> QED BY <3>1, <3>2, <3>3
  <2>3. CASE pc[r] = "unreserve" /\ pc' = [pc EXCEPT ![r] = "rollback"] /\ UNCHANGED windows
    BY <1>1, <1>12, <2>3, Zenon
  <2>4. CASE pc[r] = "rollback" /\ pc' = [pc EXCEPT ![r] = "failed"] /\ Faulty /\ UNCHANGED windows
    <3>1. UNCHANGED attempts /\ \A s \in Runs : Charged(s)' => Charged(s)
      BY <1>13, <2>4
    <3> QED BY <1>1, <2>4, <3>1
  <2>5. CASE pc[r] = "rollback" /\ pc' = [pc EXCEPT ![r] = "abandoned"] /\ UNCHANGED windows
    <3>1. UNCHANGED attempts /\ (pc[r])' = "abandoned" /\ \A s \in Runs : Charged(s)' => Charged(s)
      BY <1>0, <1>13, <2>5
    <3> QED BY <1>1, <3>1
  <2> QED BY <2>1, <2>2, <2>3, <2>4, <2>5
<1>17. CASE \E r \in Runs : /\ pc[r] \in Tasked
                            /\ \E point \in Persisted : pc' = [pc EXCEPT ![r] = point]
                            /\ UNCHANGED attempts
                            /\ UNCHANGED attemptOf \/ attemptOf' = [attemptOf EXCEPT ![r] = Nobody]
  <2>1. UNCHANGED attempts /\ \A s \in Runs : Charged(s)' <=> Charged(s)
    BY <1>14, <1>17, Zenon
  <2> QED BY <1>1, <2>1
<1> QED BY <1>3, <1>15, <1>16, <1>17, OtherKinds, Zenon

(***************************************************************************)
(* The windows hold what is charged.                                       *)
(***************************************************************************)
LEMMA ChargedCount ==
    ASSUME NEW key, NEW t
    PROVE  /\ IsFiniteSet(ChargedAt(key, t)) /\ Cardinality(ChargedAt(key, t)) \in Nat
           /\ IsFiniteSet(ChargedAt(key, t)') /\ Cardinality(ChargedAt(key, t)') \in Nat
           /\ IsFiniteSet(ChargedWithin(key, t)) /\ Cardinality(ChargedWithin(key, t)) \in Nat
           /\ IsFiniteSet(ChargedWithin(key, t)') /\ Cardinality(ChargedWithin(key, t)') \in Nat
<1>1. \A S \in SUBSET Runs : IsFiniteSet(S) /\ Cardinality(S) \in Nat
  BY AdmissionAssumption, FS_Subset, FS_CardinalityType
<1>2. ChargedAt(key, t) \in SUBSET Runs /\ ChargedAt(key, t)' \in SUBSET Runs
  BY DEF ChargedAt
<1>3. ChargedWithin(key, t) \in SUBSET Runs /\ ChargedWithin(key, t)' \in SUBSET Runs
  BY DEF ChargedWithin
<1> QED BY <1>1, <1>2, <1>3

\* A fault is remembered, and so is an abandoned creation.
LEMMA MishapsLast ==
    ASSUME TypeOK, [Next]_vars, faults' = 0, At("abandoned")' = {}
    PROVE  faults = 0 /\ At("abandoned") = {}
<1>1. cancels \in Nat /\ faults \in Nat /\ pc \in [Runs -> Points]
  <2>1. cancels \in 0..MaxMishaps
    BY Zenon DEF TypeOK
  <2> QED BY <2>1, Typed, TimesAreNatural
<1>2. faults = 0
  BY <1>1, CountersStep
<1>3. ASSUME NEW s \in Runs, pc[s] = "abandoned" PROVE (pc[s])' = "abandoned"
  <2>1. CASE UNCHANGED vars
    BY <1>3, <2>1 DEF vars
  <2>2. ASSUME NEW r \in Runs, Arrive(r) PROVE (pc[s])' = "abandoned"
    <3>1. pc[r] = "idle" /\ \E point : pc' = [pc EXCEPT ![r] = point]
      BY <2>2, ArriveKinds DEF Refused, TurnedAway, ChargedTo
    <3> QED BY <1>1, <1>3, <3>1
  <2>3. CASE Next /\ \A r \in Runs : ~Arrive(r)
    <3>1. \/ UNCHANGED pc
          \/ \E r \in Runs : /\ pc[r] \in {"reserve", "persist", "unreserve", "rollback"} \cup Tasked
                             /\ \E point : pc' = [pc EXCEPT ![r] = point]
      BY <2>3, OtherKinds, Zenon
    <3> QED BY <1>1, <1>3, <3>1 DEF Tasked, UsingCorpus
  <2> QED BY <2>1, <2>2, <2>3
<1>4. At("abandoned") = {}
  BY <1>3 DEF At
<1> QED BY <1>2, <1>4

\* Of the runs admitted at a recent time, an arrival adds itself to its keys, if it is charged.
LEMMA ArrivalAddsItself ==
    ASSUME TypeOK, Known, NEW r \in Runs, pc[r] = "idle", now' = now, NEW q \in Requests,
           NEW key \in Keys, NEW t \in Times, Recent(t)
    PROVE  /\ r \notin ChargedAt(key, t)
           /\ TurnedAway(r, q) => ChargedAt(key, t)' = ChargedAt(key, t)
           /\ ChargedTo(r, q) => ChargedAt(key, t)' = IF key \in KeysOf(q) /\ t = now
                                                      THEN ChargedAt(key, t) \cup {r}
                                                      ELSE ChargedAt(key, t)
<1>1. r \notin ChargedAt(key, t)
  BY NobodyIdleIsCharged DEF ChargedAt
<1>2. ASSUME TurnedAway(r, q) \/ ChargedTo(r, q), NEW s \in Runs \ {r}
      PROVE  s \in ChargedAt(key, t)' <=> s \in ChargedAt(key, t)
  <2>1. /\ (admittedAt[s])' = admittedAt[s] /\ (request[s])' = request[s]
        /\ Recent(admittedAt[s]) => (Charged(s)' <=> Charged(s))
    BY <1>2, ChargedByArrival
  <2> QED BY <2>1 DEF ChargedAt, KeysOf
<1>3. ASSUME TurnedAway(r, q) PROVE r \notin ChargedAt(key, t)'
  BY <1>3, ChargedOnArrival DEF ChargedAt
<1>4. ASSUME ChargedTo(r, q)
      PROVE  r \in ChargedAt(key, t)' <=> key \in KeysOf(q) /\ t = now
  <2>1. Charged(r)' /\ (admittedAt[r])' = now /\ (request[r])' = q
    BY <1>4, ChargedOnArrival
  <2> QED BY <2>1 DEF ChargedAt, KeysOf
<1>5. ChargedAt(key, t) \subseteq Runs /\ ChargedAt(key, t)' \subseteq Runs
  BY DEF ChargedAt
<1> QED BY <1>1, <1>2, <1>3, <1>4, <1>5

\* The windows after an arrival, at a recent time.
LEMMA ArrivalWindows ==
    ASSUME TypeOK, NEW r, NEW q \in Requests,
           NEW key \in Keys, NEW t \in Times, Recent(t)
    PROVE  /\ TurnedAway(r, q) => (attempts[key][t])' = attempts[key][t]
           /\ ChargedTo(r, q) => (attempts[key][t])' = attempts[key][t]
                                    + (IF key \in KeysOf(q) /\ t = now THEN 1 ELSE 0)
<1>1. attempts[key][t] \in Nat /\ Pruned[key] \in [Times -> Nat] /\ now \in Times
  BY Typed, WindowTypes
<1>2. Pruned[key][t] = attempts[key][t]
  BY DEF Pruned
<1>3. ASSUME TurnedAway(r, q) PROVE (attempts[key][t])' = attempts[key][t]
  BY <1>2, <1>3 DEF TurnedAway
<1>4. ASSUME ChargedTo(r, q)
      PROVE  (attempts[key][t])' = attempts[key][t] + (IF key \in KeysOf(q) /\ t = now THEN 1 ELSE 0)
  <2>1. (attempts[key])' = IF key \in KeysOf(q) THEN [Pruned[key] EXCEPT ![now] = @ + 1] ELSE Pruned[key]
    BY <1>4 DEF ChargedTo
  <2>2. CASE key \in KeysOf(q) /\ t = now
    BY <1>1, <1>2, <2>1, <2>2
  <2>3. CASE ~(key \in KeysOf(q) /\ t = now)
    BY <1>1, <1>2, <2>1, <2>3
  <2> QED BY <2>2, <2>3
<1> QED BY <1>3, <1>4

\* An attempt that is taken back was in the windows of its run's keys, and of no other.
LEMMA TakenBack ==
    ASSUME TypeOK, Known, WindowsAreExact, UNCHANGED <<request, admittedAt>>,
           NEW r \in Runs, pc[r] \in {"unreserve", "rollback"}, TakeBack(r), ~Charged(r)',
           \A s \in Runs \ {r} : Charged(s)' <=> Charged(s),
           NEW key \in Keys, NEW t \in Times, Recent(t)
    PROVE  \/ /\ r \in ChargedAt(key, t) /\ ChargedAt(key, t)' = ChargedAt(key, t) \ {r}
              /\ (attempts[key][t])' = attempts[key][t] - 1
           \/ ChargedAt(key, t)' = ChargedAt(key, t) /\ (attempts[key][t])' = attempts[key][t]
<1>0. attempts[key] \in [Times -> Nat] /\ attemptOf[r] \in Times \cup {Nobody}
  BY Typed
<1>1. (attempts[key])' = IF attemptOf[r] # Nobody /\ key \in KeysOf(request[r])
                         THEN Without(key, attemptOf[r]) ELSE attempts[key]
  BY DEF TakeBack
<1>2. ChargedAt(key, t)' = ChargedAt(key, t) \ {r}
  BY DEF ChargedAt, KeysOf
<1>3. CASE r \in ChargedAt(key, t)
  <2>1. Charged(r) /\ key \in KeysOf(request[r]) /\ admittedAt[r] = t
    BY <1>3 DEF ChargedAt
  <2>2. attemptOf[r] = t /\ t # Nobody
    BY <2>1, ChargedIsRemembered DEF Known
  <2>3. attempts[key][t] > 0
    <3>1. attempts[key][t] >= Cardinality(ChargedAt(key, t))
      BY DEF WindowsAreExact
    <3>2. Cardinality(ChargedAt(key, t)) # 0 /\ Cardinality(ChargedAt(key, t)) \in Nat
      BY <1>3, ChargedCount, FS_EmptySet
    <3> QED BY <1>0, <3>1, <3>2
  <2>4. (attempts[key])' = [attempts[key] EXCEPT ![t] = @ - 1]
    BY <1>1, <2>1, <2>2, <2>3 DEF Without
  <2> QED BY <1>0, <1>2, <1>3, <2>4
<1>4. CASE r \notin ChargedAt(key, t)
  <2>1. ~(attemptOf[r] = t /\ key \in KeysOf(request[r]) /\ t # Nobody)
    <3>1. SUFFICES ASSUME attemptOf[r] = t, key \in KeysOf(request[r]), t # Nobody PROVE FALSE
      OBVIOUS
    <3>2. admittedAt[r] = t
      BY <3>1 DEF Known
    <3>3. Charged(r)
      BY <3>1, <3>2, ChargedIsRemembered
    <3> QED BY <1>4, <3>1, <3>2, <3>3 DEF ChargedAt
  <2>2. (attempts[key])' = attempts[key] \/ (attempts[key])' = Without(key, attemptOf[r])
    BY <1>1
  <2>3. (attempts[key][t])' = attempts[key][t]
    <3>1. CASE attemptOf[r] # Nobody /\ key \in KeysOf(request[r])
      <4>1. attemptOf[r] # t /\ attemptOf[r] \in Times
        BY <1>0, <2>1, <3>1
      <4> QED BY <1>0, <1>1, <3>1, <4>1 DEF Without
    <3>2. CASE ~(attemptOf[r] # Nobody /\ key \in KeysOf(request[r]))
      BY <1>1, <3>2
    <3> QED BY <3>1, <3>2
  <2> QED BY <1>2, <1>4, <2>3
<1> QED BY <1>3, <1>4

LEMMA ExactNext == TypeOK /\ Known /\ WindowsAreExact /\ [Next]_vars => WindowsAreExact'
<1> SUFFICES ASSUME TypeOK, Known, WindowsAreExact, [Next]_vars,
                    NEW key \in Keys, NEW t \in Times, Recent(t)'
             PROVE  /\ (attempts[key][t])' >= Cardinality(ChargedAt(key, t)')
                    /\ faults' = 0 /\ At("abandoned")' = {} =>
                          (attempts[key][t])' = Cardinality(ChargedAt(key, t)')
  BY Zenon DEF WindowsAreExact
<1> DEFINE C == ChargedAt(key, t)
           a == attempts[key][t]
<1>0. /\ a \in Nat /\ IsFiniteSet(C) /\ Cardinality(C) \in Nat
      /\ IsFiniteSet(C') /\ Cardinality(C') \in Nat
      /\ now' \in Nat /\ now <= now'
  <2>1. attempts \in [Keys -> [Times -> Nat]] /\ now' \in Nat /\ now <= now'
    BY Typed, ClockTypes, TimesAreNatural
  <2> QED BY <2>1, ChargedCount
<1>1. Recent(t)
  BY <1>0, RecentLater
<1>2. a >= Cardinality(C) /\ (faults = 0 /\ At("abandoned") = {} => a = Cardinality(C))
  BY <1>1 DEF WindowsAreExact
<1>3. faults' = 0 /\ At("abandoned")' = {} => faults = 0 /\ At("abandoned") = {}
  BY MishapsLast
<1>4. SUFFICES \/ a' = a /\ C' = C
               \/ \E r : r \notin C /\ C' = C \cup {r} /\ a' = a + 1
               \/ \E r : r \in C /\ C' = C \ {r} /\ a' = a - 1
               \/ a' = a /\ C' \subseteq C /\ (faults' # 0 \/ At("abandoned")' # {})
  <2>1. ASSUME NEW r, r \notin C, C' = C \cup {r} PROVE Cardinality(C') = Cardinality(C) + 1
    BY <1>0, <2>1, FS_AddElement
  <2>2. ASSUME NEW r, r \in C, C' = C \ {r} PROVE Cardinality(C') = Cardinality(C) - 1
    BY <1>0, <2>2, FS_RemoveElement
  <2>3. C' \subseteq C => Cardinality(C') <= Cardinality(C)
    BY <1>0, FS_Subset
  <2>4. /\ a' >= Cardinality(C')
        /\ faults' = 0 /\ At("abandoned")' = {} => a' = Cardinality(C')
    <3> HIDE DEF C, a
    <3>1. CASE a' = a /\ C' = C
      BY <1>2, <1>3, <3>1
    <3>2. CASE \E r : r \notin C /\ C' = C \cup {r} /\ a' = a + 1
      BY <1>0, <1>2, <1>3, <2>1, <3>2
    <3>3. CASE \E r : r \in C /\ C' = C \ {r} /\ a' = a - 1
      BY <1>0, <1>2, <1>3, <2>2, <3>3
    <3>4. CASE a' = a /\ C' \subseteq C /\ (faults' # 0 \/ At("abandoned")' # {})
      BY <1>0, <1>2, <2>3, <3>4
    <3> QED BY <1>4, <3>1, <3>2, <3>3, <3>4
  <2> QED BY <2>4
<1>5. CASE UNCHANGED vars
  <2>1. UNCHANGED <<pc, request, admittedAt, attempts, attemptOf>>
    BY <1>5, Zenon DEF vars, asked, windows
  <2> QED BY <2>1 DEF ChargedAt, Charged, KeysOf
<1>6. ASSUME NEW r \in Runs, Arrive(r)
      PROVE  (a' = a /\ C' = C) \/ \E s : s \notin C /\ C' = C \cup {s} /\ a' = a + 1
  <2>1. pc[r] = "idle" /\ now' = now
    BY <1>6, ArriveKinds
  <2>2. CASE Refused(r)
    <3>1. \A s \in Runs : Charged(s)' <=> Charged(s)
      <4>1. pc \in [Runs -> Points] /\ UNCHANGED <<request, admittedAt, attempts, attemptOf>>
        BY <2>2, Typed DEF Refused
      <4>2. \A s \in Runs \ {r} : (pc[s])' = pc[s]
        BY <2>2, <4>1 DEF Refused
      <4>3. (pc[r])' = "refused" /\ pc[r] = "idle"
        BY <2>1, <2>2, <4>1 DEF Refused
      <4> QED BY <4>1, <4>2, <4>3 DEF Charged, Persisted, Tasked, UsingCorpus
    <3>2. UNCHANGED <<request, admittedAt, attempts>>
      BY <2>2 DEF Refused
    <3> QED BY <3>1, <3>2 DEF ChargedAt, KeysOf
  <2>3. ASSUME NEW q \in Requests, TurnedAway(r, q) PROVE a' = a /\ C' = C
    BY <1>1, <2>1, <2>3, ArrivalAddsItself, ArrivalWindows
  <2>4. ASSUME NEW q \in Requests, ChargedTo(r, q)
        PROVE  (a' = a /\ C' = C) \/ \E s : s \notin C /\ C' = C \cup {s} /\ a' = a + 1
    <3>1. /\ r \notin C
          /\ C' = IF key \in KeysOf(q) /\ t = now THEN C \cup {r} ELSE C
          /\ a' = a + (IF key \in KeysOf(q) /\ t = now THEN 1 ELSE 0)
      BY <1>1, <2>1, <2>4, ArrivalAddsItself, ArrivalWindows
    <3> HIDE DEF C, a
    <3> QED BY <1>0, <3>1
  <2> QED BY <1>6, <2>2, <2>3, <2>4, ArriveKinds
<1>7. CASE Next /\ \A r \in Runs : ~Arrive(r)
  <2>1. UNCHANGED <<request, admittedAt>> /\ \A s \in Runs : Charged(s)' => Charged(s)
    BY <1>7, ChargedByOthers, Zenon
  <2>2. C' \subseteq C
    BY <2>1 DEF ChargedAt, KeysOf
  <2>3. CASE UNCHANGED attempts /\ \A s \in Runs : Recent(admittedAt[s]) => (Charged(s)' <=> Charged(s))
    BY <1>1, <2>1, <2>3 DEF ChargedAt, KeysOf
  <2>4. CASE UNCHANGED attempts /\ (Faulty \/ \E r \in Runs : (pc[r])' = "abandoned")
    <3>1. faults' # 0 \/ At("abandoned")' # {}
      BY <2>4, Typed, FaultsCount DEF At
    <3> QED BY <2>2, <2>4, <3>1
  <2>5. ASSUME NEW r \in Runs, pc[r] \in {"unreserve", "rollback"}, TakeBack(r), ~Charged(r)',
               \A s \in Runs \ {r} : Charged(s)' <=> Charged(s)
        PROVE  (a' = a /\ C' = C) \/ \E s : s \in C /\ C' = C \ {s} /\ a' = a - 1
    BY <1>1, <2>1, <2>5, TakenBack
  <2> QED BY <1>7, <2>3, <2>4, <2>5, ChargedByOthers, Zenon
<1> QED BY <1>5, <1>6, <1>7, Zenon

(***************************************************************************)
(* So no hour has more charged runs than the limit.                        *)
(***************************************************************************)
\* Whoever is charged within an hour that is not over is in the window, at its time.
LEMMA WithinIsInWindow ==
    ASSUME TypeOK, Known, WindowsAreExact, NEW key \in Keys, NEW t \in Times, now \in t..(t + Hour)
    PROVE  Cardinality(ChargedWithin(key, t)) <= SumFunctionOnSet(Pruned[key], Times)
<1> DEFINE W == ChargedWithin(key, t)
<1>0. /\ IsFiniteSet(W) /\ t \in Nat /\ now \in Nat /\ Hour \in Nat /\ IsFiniteSet(Times)
      /\ Pruned[key] \in [Times -> Nat] /\ admittedAt \in [Runs -> Times] /\ Times \subseteq Nat
  BY Typed, TimesAreNatural, WindowTypes, ChargedCount
<1>1. ASSUME NEW x \in W
      PROVE  admittedAt[x] \in Times /\ Recent(admittedAt[x]) /\ x \in ChargedAt(key, admittedAt[x])
  <2>1. x \in Runs /\ Charged(x) /\ key \in KeysOf(request[x]) /\ admittedAt[x] \in t..(t + Hour)
    BY DEF ChargedWithin
  <2>2. admittedAt[x] \in Times /\ admittedAt[x] \in Nat
    BY <1>0, <2>1
  <2>3. Recent(admittedAt[x])
    BY <1>0, <2>1, <2>2 DEF Recent
  <2> QED BY <2>1, <2>2, <2>3 DEF ChargedAt
<1>2. ASSUME NEW c \in Times
      PROVE  Pruned[key][c] \in Nat /\ Cardinality({x \in W : admittedAt[x] = c}) <= Pruned[key][c]
  <2>1. Pruned[key][c] \in Nat
    BY <1>0
  <2>2. CASE Recent(c)
    <3>1. Pruned[key][c] >= Cardinality(ChargedAt(key, c))
      BY <2>2 DEF WindowsAreExact, Pruned
    <3>2. {x \in W : admittedAt[x] = c} \in SUBSET ChargedAt(key, c)
      BY <1>1
    <3>3. /\ Cardinality({x \in W : admittedAt[x] = c}) <= Cardinality(ChargedAt(key, c))
          /\ Cardinality({x \in W : admittedAt[x] = c}) \in Nat
      BY <3>2, ChargedCount, FS_Subset, FS_CardinalityType
    <3> HIDE DEF W
    <3> QED BY <2>1, <3>1, <3>3, ChargedCount
  <2>3. CASE ~Recent(c)
    <3>1. {x \in W : admittedAt[x] = c} = {}
      BY <1>1, <2>3
    <3>2. Cardinality({x \in W : admittedAt[x] = c}) = 0
      BY <3>1, FS_EmptySet, Zenon
    <3> QED BY <2>1, <3>2
  <2> QED BY <2>2, <2>3
<1> HIDE DEF W
<1>3. Cardinality(W) <= SumFunctionOnSet(Pruned[key], Times)
  BY <1>0, <1>1, <1>2, CountByClass
<1> QED BY <1>3 DEF W

LEMMA LimitIsNatural == \A key : Limit(key) \in Nat
BY AdmissionAssumption DEF Limit

\* A run is charged only where there is room for one more.
LEMMA ChargedFits ==
    ASSUME TypeOK, Known, WindowsAreExact, HourKept, NEW r \in Runs, pc[r] = "idle", now' = now,
           NEW q \in Requests, ChargedTo(r, q), NEW key \in Keys, NEW t \in Times
    PROVE  Cardinality(ChargedWithin(key, t)') <= Limit(key)
<1> DEFINE W == ChargedWithin(key, t)
<1>0. /\ IsFiniteSet(W) /\ Cardinality(W) \in Nat /\ Limit(key) \in Nat
      /\ IsFiniteSet(W') /\ Cardinality(W') \in Nat
  BY ChargedCount, LimitIsNatural
<1>1. ASSUME NEW s \in Runs \ {r}, s \in W' PROVE s \in W
  BY <1>1, ChargedByArrival DEF ChargedWithin, KeysOf
<1>2. r \notin W
  BY NobodyIdleIsCharged DEF ChargedWithin
<1>3. r \in W' => key \in KeysOf(q) /\ now \in t..(t + Hour)
  BY ChargedOnArrival DEF ChargedWithin, KeysOf
<1>4. W' \subseteq Runs
  BY DEF ChargedWithin
<1>5. Cardinality(W) <= Limit(key)
  BY DEF HourKept
<1>6. CASE r \notin W'
  <2>1. W' \subseteq W
    BY <1>1, <1>4, <1>6
  <2> HIDE DEF W
  <2>2. Cardinality(W') <= Cardinality(W)
    BY <1>0, <2>1, FS_Subset
  <2> QED BY <1>0, <1>5, <2>2 DEF W
<1>7. CASE r \in W'
  <2>1. Cardinality(W) <= SumFunctionOnSet(Pruned[key], Times)
    BY <1>3, <1>7, WithinIsInWindow
  <2>2. SumFunctionOnSet(Pruned[key], Times) < Limit(key)
    <3>1. SumFunctionOnSet(Pruned[key], Times) \in Nat
      <4>1. Pruned[key] \in [Times -> Nat]
        BY WindowTypes
      <4> QED BY <4>1, SumRemove, TimesAreNatural
    <3>2. ~(SumFunctionOnSet(Pruned[key], Times) >= Limit(key))
      BY <1>3, <1>7 DEF ChargedTo, WindowFull
    <3> QED BY <1>0, <3>1, <3>2
  <2>3. SumFunctionOnSet(Pruned[key], Times) \in Nat
    <3>1. Pruned[key] \in [Times -> Nat]
      BY WindowTypes
    <3> QED BY <3>1, SumRemove, TimesAreNatural
  <2>4. W' \subseteq W \cup {r}
    BY <1>1, <1>4
  <2> HIDE DEF W
  <2>5. IsFiniteSet(W \cup {r}) /\ Cardinality(W \cup {r}) = Cardinality(W) + 1
    BY <1>0, <1>2, FS_AddElement
  <2>6. Cardinality(W') <= Cardinality(W \cup {r})
    BY <2>4, <2>5, FS_Subset
  <2>7. Cardinality(W') <= Limit(key)
    BY <1>0, <2>1, <2>2, <2>3, <2>5, <2>6
  <2> QED BY <2>7 DEF W
<1> QED BY <1>6, <1>7

LEMMA HourNext == TypeOK /\ Known /\ WindowsAreExact /\ HourKept /\ [Next]_vars => HourKept'
<1> SUFFICES ASSUME TypeOK, Known, WindowsAreExact, HourKept, [Next]_vars,
                    NEW key \in Keys, NEW t \in Times
             PROVE  Cardinality(ChargedWithin(key, t)') <= Limit(key)
  BY Zenon DEF HourKept, Limit
<1>0. /\ Cardinality(ChargedWithin(key, t)) <= Limit(key) /\ Limit(key) \in Nat
      /\ IsFiniteSet(ChargedWithin(key, t)) /\ Cardinality(ChargedWithin(key, t)) \in Nat
      /\ Cardinality(ChargedWithin(key, t)') \in Nat
  BY ChargedCount, LimitIsNatural DEF HourKept
<1>1. ASSUME ChargedWithin(key, t)' \subseteq ChargedWithin(key, t)
      PROVE  Cardinality(ChargedWithin(key, t)') <= Limit(key)
  <2>1. Cardinality(ChargedWithin(key, t)') <= Cardinality(ChargedWithin(key, t))
    BY <1>0, <1>1, FS_Subset
  <2> QED BY <1>0, <2>1
<1>2. ASSUME UNCHANGED <<request, admittedAt>>, \A s \in Runs : Charged(s)' => Charged(s)
      PROVE  ChargedWithin(key, t)' \subseteq ChargedWithin(key, t)
  BY <1>2 DEF ChargedWithin, KeysOf
<1>3. CASE UNCHANGED vars
  <2>1. UNCHANGED <<pc, request, admittedAt, attemptOf>>
    BY <1>3, Zenon DEF vars, asked, windows
  <2> QED BY <1>1, <1>2, <2>1 DEF Charged
<1>4. ASSUME NEW r \in Runs, Arrive(r)
      PROVE  Cardinality(ChargedWithin(key, t)') <= Limit(key)
  <2>1. pc[r] = "idle" /\ now' = now
    BY <1>4, ArriveKinds
  <2>2. CASE Refused(r)
    <3>1. pc \in [Runs -> Points] /\ UNCHANGED <<request, admittedAt, attempts, attemptOf>>
      BY <2>2, Typed DEF Refused
    <3>2. (\A s \in Runs \ {r} : (pc[s])' = pc[s]) /\ (pc[r])' = "refused"
      BY <2>2, <3>1 DEF Refused
    <3>3. \A s \in Runs : Charged(s)' => Charged(s)
      BY <3>1, <3>2 DEF Charged, Persisted, Tasked, UsingCorpus
    <3> QED BY <1>1, <1>2, <3>1, <3>3
  <2>3. ASSUME NEW q \in Requests, TurnedAway(r, q)
        PROVE  ChargedWithin(key, t)' \subseteq ChargedWithin(key, t)
    <3>1. \A s \in Runs \ {r} : s \in ChargedWithin(key, t)' => s \in ChargedWithin(key, t)
      BY <2>1, <2>3, ChargedByArrival DEF ChargedWithin, KeysOf
    <3>2. r \notin ChargedWithin(key, t)'
      BY <2>1, <2>3, ChargedOnArrival DEF ChargedWithin
    <3>3. ChargedWithin(key, t)' \subseteq Runs
      BY DEF ChargedWithin
    <3> QED BY <3>1, <3>2, <3>3
  <2>4. ASSUME NEW q \in Requests, ChargedTo(r, q)
        PROVE  Cardinality(ChargedWithin(key, t)') <= Limit(key)
    BY <2>1, <2>4, ChargedFits
  <2> QED BY <1>1, <1>4, <2>2, <2>3, <2>4, ArriveKinds
<1>5. CASE Next /\ \A r \in Runs : ~Arrive(r)
  BY <1>1, <1>2, <1>5, ChargedByOthers, Zenon
<1> QED BY <1>3, <1>4, <1>5, Zenon

LEMMA WindowInit == Init => Known /\ WindowsAreExact /\ HourKept
<1> SUFFICES ASSUME Init PROVE Known /\ WindowsAreExact /\ HourKept
  OBVIOUS
<1>1. /\ \A r \in Runs : pc[r] = "idle" /\ admittedAt[r] = 0 /\ attemptOf[r] = Nobody
      /\ \A key \in Keys, t \in Times : attempts[key][t] = 0
      /\ now = 0
  BY DEF Init
<1>2. Known
  BY <1>1, TimesAreNatural DEF Known
<1>3. ASSUME NEW key, NEW t PROVE ChargedAt(key, t) = {} /\ ChargedWithin(key, t) = {}
  BY <1>1, NobodyIdleIsCharged DEF ChargedAt, ChargedWithin
<1>4. ASSUME NEW key, NEW t
      PROVE  Cardinality(ChargedAt(key, t)) = 0 /\ Cardinality(ChargedWithin(key, t)) = 0
  BY <1>3, FS_EmptySet, Zenon
<1>5. WindowsAreExact
  BY <1>1, <1>4 DEF WindowsAreExact
<1>6. HourKept
  BY <1>4, LimitIsNatural DEF HourKept
<1> QED BY <1>2, <1>5, <1>6

LEMMA WindowNext == AdmissionInv' /\ WindowInv /\ [Next]_vars => WindowInv'
BY TypeNext, KnownNext, ExactNext, HourNext, Zenon DEF WindowInv

\* What the windows hold, of whom it is remembered, and how many they let through.
THEOREM WindowInvariant == Spec => []WindowInv
<1>1. Init => WindowInv
  BY TypeInit, WindowInit, Zenon DEF WindowInv
<1> QED BY <1>1, WindowNext, AlwaysAdmissionInv, PTL DEF Spec

\* Each charged run of the last hour is in the windows of its session and its address once, however
\* creations fail and are rolled back in between, for any number of runs (security.py:84-182).
THEOREM WindowsStayExact == Spec => []WindowsAreExact
<1>1. WindowInv => WindowsAreExact
  BY Zenon DEF WindowInv
<1> QED BY <1>1, WindowInvariant, PTL

\* No hour, wherever it begins, has more runs of a session or an address than the limit
\* (security.py:112-125).
THEOREM HourlyLimitKept == Spec => []HourlyLimit
<1>1. WindowInv => HourlyLimit
  <2> SUFFICES ASSUME WindowInv, NEW key \in Keys, NEW t \in Times
               PROVE  Cardinality({r \in Runs : /\ pc[r] \in Persisted /\ key \in KeysOf(request[r])
                                                /\ admittedAt[r] \in t..(t + Hour)}) <= Limit(key)
    BY DEF HourlyLimit
  <2> DEFINE P == {r \in Runs : /\ pc[r] \in Persisted /\ key \in KeysOf(request[r])
                                /\ admittedAt[r] \in t..(t + Hour)}
  <2>1. P \subseteq ChargedWithin(key, t)
    BY DEF ChargedWithin, Charged
  <2>2. Cardinality(ChargedWithin(key, t)) <= Limit(key)
    BY Zenon DEF WindowInv, HourKept
  <2> HIDE DEF P
  <2>3. Cardinality(P) <= Cardinality(ChargedWithin(key, t)) /\ Cardinality(P) \in Nat
    BY <2>1, ChargedCount, FS_Subset, FS_CardinalityType
  <2>4. Cardinality(P) <= Limit(key)
    BY <2>2, <2>3, ChargedCount, LimitIsNatural
  <2> QED BY <2>4 DEF P
<1> QED BY <1>1, WindowInvariant, PTL
=============================================================================
