------------------------ MODULE ClaimVerificationProofs ------------------------
(***************************************************************************)
(* Proofs about ClaimVerification.tla, for every corpus and draft: date    *)
(* variants share no quarter; the agent is told what is decided; a probe   *)
(* decides as the documents read from end to end would; nothing is found   *)
(* absent that a document states, or that is reported beside it; a         *)
(* rehearsal finds again what its run found; and what is verified is       *)
(* stated by a chunk that is cited, with nothing around it that changes    *)
(* what it says.                                                           *)
(***************************************************************************)
EXTENDS ClaimVerification, DataTheorems, SequenceTheorems

(***************************************************************************)
(* What a verdict is of.                                                   *)
(***************************************************************************)
\* A verdict of a claim without a request is its status in the corpus; one with a request has no
\* values, and is not verified if it proposes any.
Settled(claim, verdict) ==
    IF claim.request
      THEN verdict \in {"not_found", "unverified"} /\ (~Pure(claim) => verdict = "unverified")
    ELSE verdict = Status(claim, corpus)

\* Verdicts are of the draft there is.
VerdictInv ==
    /\ draft \in Seq(Claims)
    /\ outcome = "running" => verdicts = <<>>
    /\ DOMAIN verdicts \subseteq DOMAIN draft
    /\ \A i \in DOMAIN verdicts : Settled(draft[i], verdicts[i])

LEMMA VerifyClaimSettles ==
    ASSUME NEW claim \in Claims, NEW result, NEW rescan
    PROVE  Settled(claim, VerifyClaim(claim, result, rescan))
BY DEF Settled, VerifyClaim, Claims

\* Neither the probes nor anything else changes the corpus.
LEMMA CorpusFixed == Next => corpus' = corpus
BY DEF Next, StartProbe, ProbeStep, KeepProbe, Fail, Verify, VerifyRaises, Rehearse, BeginProbe, Search,
       Scan, Open, Expand, Conclude, ReadFails, probeVars

LEMMA VerdictInit == Init => VerdictInv
<1>1. ASSUME Init PROVE VerdictInv
  <2>1. draft \in Seq(Claims)
    BY <1>1, CasesAssumption DEF Init
  <2>2. verdicts = <<>> /\ DOMAIN verdicts = {}
    BY <1>1 DEF Init
  <2>. QED  BY <2>1, <2>2 DEF VerdictInv
<1>. QED  BY <1>1

LEMMA VerdictNext == VerdictInv /\ [Next]_vars => VerdictInv'
<1>. SUFFICES ASSUME VerdictInv, [Next]_vars PROVE VerdictInv'
  OBVIOUS
<1>0. \A claim, verdict : corpus' = corpus => Settled(claim, verdict)' = Settled(claim, verdict)
  BY DEF Settled
<1>1. ASSUME UNCHANGED <<draft, verdicts, corpus>>, outcome' = "running" => outcome = "running"
      PROVE  VerdictInv'
  BY <1>1 DEF VerdictInv, Settled
<1>2. CASE StartProbe \/ ProbeStep
  BY <1>1, <1>2, CorpusFixed DEF StartProbe, ProbeStep, claimVars, Next
<1>3. CASE KeepProbe
  BY <1>1, <1>3 DEF KeepProbe
<1>4. CASE Fail \/ VerifyRaises
  BY <1>1, <1>4 DEF Fail, VerifyRaises, probeVars
<1>5. CASE Verify
  <2>1. corpus' = corpus /\ draft' = draft /\ outcome' # "running"
    BY <1>5 DEF Verify
  <2>2. PICK failing : verdicts' = Verdicts(failing)
    BY <1>5 DEF Verify
  <2>3. \A i \in DOMAIN draft : Settled(draft[i], verdicts'[i])
    BY <2>2, VerifyClaimSettles DEF VerdictInv, Verdicts
  <2>4. DOMAIN verdicts' = DOMAIN draft
    BY <2>2 DEF Verdicts
  <2>5. \A i \in DOMAIN draft : Settled(draft[i], verdicts[i])'
    BY <2>1, <2>3 DEF Settled
  <2>. QED  BY <2>1, <2>4, <2>5 DEF VerdictInv
<1>6. CASE Rehearse
  <2>1. verdicts' = <<>> /\ DOMAIN verdicts' = {}
    BY <1>6 DEF Rehearse
  <2>2. draft' = [i \in DOMAIN draft |-> [draft[i] EXCEPT !.request = (verdicts[i] = "not_found")]]
    BY <1>6 DEF Rehearse
  <2>3. \A i \in DOMAIN draft : draft'[i] \in Claims
    <3>. SUFFICES ASSUME NEW i \in DOMAIN draft PROVE draft'[i] \in Claims
      OBVIOUS
    <3>1. draft[i] \in Claims
      BY DEF VerdictInv
    <3>2. draft'[i] = [draft[i] EXCEPT !.request = (verdicts[i] = "not_found")]
      BY <2>2
    <3>3. \A c \in Claims : \A b \in BOOLEAN : [c EXCEPT !.request = b] \in Claims
      BY DEF Claims
    <3>. QED  BY <3>1, <3>2, <3>3
  <2>4. draft' \in Seq(Claims)
    <3>1. PICK n \in Nat : DOMAIN draft = 1..n
      BY SeqDef DEF VerdictInv
    <3>2. draft' \in [1..n -> Claims]
      BY <2>2, <2>3, <3>1, Zenon
    <3>. QED  BY <3>2, SeqDef
  <2>. QED  BY <2>1, <2>4 DEF VerdictInv
<1>7. CASE UNCHANGED vars
  BY <1>1, <1>7 DEF vars, probeVars, claimVars
<1>. QED  BY <1>2, <1>3, <1>4, <1>5, <1>6, <1>7 DEF Next

\* The verdicts of a run are always those of its draft in its corpus.
THEOREM AlwaysVerdictInv == Spec => []VerdictInv
BY VerdictInit, VerdictNext, PTL DEF Spec

(***************************************************************************)
(* The feedback.                                                           *)
(***************************************************************************)
LEMMA SettledIsToldBefore ==
    ASSUME NEW claim \in Claims, NEW verdict, Settled(claim, verdict)
    PROVE  Feedback(claim) \in {verdict, "pending_absence_probe"}
<1>1. CASE claim.request /\ Pure(claim)
  BY <1>1 DEF Feedback
<1>2. CASE claim.request /\ ~Pure(claim)
  BY <1>2 DEF Feedback, VerifyClaim, Settled
<1>3. CASE ~claim.request
  BY <1>3 DEF Feedback, VerifyClaim, Settled
<1>. QED  BY <1>1, <1>2, <1>3

\* Whatever the draft and the corpus are, what the agent was told of a claim is what the verifier
\* decides about it in the end, unless a probe had yet to decide (agent.py:473-504).
THEOREM FeedbackAlwaysHolds == Spec => []FeedbackHolds
<1>1. VerdictInv => FeedbackHolds
  <2>1. VerdictInv => \A i \in DOMAIN verdicts : draft[i] \in Claims /\ Settled(draft[i], verdicts[i])
    BY DEF VerdictInv
  <2>. QED  BY <2>1, SettledIsToldBefore, Zenon DEF FeedbackHolds
<1>. QED  BY <1>1, AlwaysVerdictInv, PTL
(***************************************************************************)
(* Date variants.                                                          *)
(***************************************************************************)
Signatures == {Signature(p) : p \in Temporals \cup {NoPeriod}}

\* Periods that are provably distinct have no quarter in common, whichever years are meant.
LEMMA DistinctShareNoQuarter ==
    ASSUME NEW l \in Signatures, NEW r \in Signatures, ProvablyDistinct(l, r),
           NEW y \in {"2025", "2026"}, NEW z \in {"2025", "2026"}
    PROVE  Quarters(l, y) \cap Quarters(r, z) = {}
<1>1. l.kind \in {"year", "quarter"} /\ l.kind = r.kind
  BY DEF ProvablyDistinct
<1>2. CASE l.kind = "year"
  <2>1. YearsDiffer(l, r) /\ r.kind = "year"
    BY <1>1, <1>2 DEF ProvablyDistinct
  <2>2. Quarters(l, y) = {l.year} \X (1..4) /\ Quarters(r, z) = {r.year} \X (1..4) /\ l.year # r.year
    BY <1>2, <2>1 DEF Quarters, YearsDiffer
  <2>. QED  BY <2>2
<1>3. CASE l.kind = "quarter"
  <2>1. (l.member # r.member \/ YearsDiffer(l, r)) /\ r.kind = "quarter"
    BY <1>1, <1>3 DEF ProvablyDistinct
  <2>2. CASE l.member # r.member
    BY <1>3, <2>1, <2>2 DEF Quarters
  <2>3. CASE YearsDiffer(l, r)
    <3>1. Quarters(l, y) = {<<l.year, l.member>>} /\ Quarters(r, z) = {<<r.year, r.member>>}
      BY <1>3, <2>1, <2>3 DEF Quarters, YearsDiffer
    <3>. QED  BY <2>3, <3>1 DEF YearsDiffer
  <2>. QED  BY <2>1, <2>2, <2>3
<1>. QED  BY <1>1, <1>2, <1>3

\* A function has finitely many values on a finite set.
LEMMA FiniteImage ==
    ASSUME NEW S, IsFiniteSet(S), NEW f, DOMAIN f = S, f = [x \in S |-> f[x]]
    PROVE  IsFiniteSet({f[x] : x \in S})
<1>1. f \in Surjection(S, {f[x] : x \in S})
  BY DEF Surjection
<1>. QED  BY <1>1, FS_Surjection

\* Where each value has one period and there are as many periods as values, no two values share one.
LEMMA OnePeriodEach ==
    ASSUME NEW values, NEW periods, NEW periodOf \in [values -> periods], IsFiniteSet(values),
           \A p \in periods : \E v \in values : periodOf[v] = p,
           Cardinality(periods) = Cardinality(values)
    PROVE  \A v, w \in values : v # w => periodOf[v] # periodOf[w]
<1>1. periodOf \in Surjection(values, periods)
  BY DEF Surjection
<1>2. periodOf \in Injection(values, periods)
  BY <1>1, FS_Surjection
<1>. QED  BY <1>2 DEF Injection, IsInjective

\* What a claim with the relation of date variants has observed.
LEMMA VariantsAreDistinct ==
    ASSUME NEW seen, NEW values, IsFiniteSet(seen), values = {o.value : o \in seen},
           Relation(values, seen) = "date_variant",
           NEW a \in seen, NEW b \in seen, a.value # b.value
    PROVE  ProvablyDistinct(a.period, b.period)
<1>. DEFINE periodsOf(v) == {o.period : o \in {p \in seen : p.value = v}}
            periods == {o.period : o \in seen}
            periodOf == [v \in values |-> CHOOSE p \in periods : p \in periodsOf(v)]
<1>1. /\ \A v \in values : Cardinality(periodsOf(v)) = 1
      /\ PairwiseDisjoint(periods) /\ Cardinality(periods) = Cardinality(values)
  BY DEF Relation
<1>0. IsFiniteSet(values) /\ IsFiniteSet(periods)
  <2>. DEFINE valueOf == [o \in seen |-> o.value]
              timeOf == [o \in seen |-> o.period]
  <2>1. values = {valueOf[o] : o \in seen} /\ periods = {timeOf[o] : o \in seen}
    OBVIOUS
  <2>2. IsFiniteSet({valueOf[o] : o \in seen}) /\ IsFiniteSet({timeOf[o] : o \in seen})
    BY FiniteImage
  <2>. QED  BY <2>1, <2>2
<1>2. \A o \in seen : o.value \in values /\ o.period \in periods /\ o.period \in periodsOf(o.value)
  OBVIOUS
<1>3. \A v \in values : periodsOf(v) = {periodOf[v]} /\ periodOf[v] \in periods
  <2>. SUFFICES ASSUME NEW v \in values PROVE periodsOf(v) = {periodOf[v]} /\ periodOf[v] \in periods
    OBVIOUS
  <2>1. IsFiniteSet(periodsOf(v))
    <3>1. periodsOf(v) \subseteq periods
      OBVIOUS
    <3>. QED  BY <1>0, <3>1, FS_Subset
  <2>2. PICK p : periodsOf(v) = {p}
    BY <1>1, <2>1, FS_Singleton
  <2>3. p \in periods
    BY <2>2
  <2>. QED  BY <2>2, <2>3
<1>4. periodOf \in [values -> periods]
  BY <1>3
<1>5. \A o \in seen : periodOf[o.value] = o.period
  BY <1>2, <1>3
<1>. HIDE DEF periodOf
<1>6. \A p \in periods : \E v \in values : periodOf[v] = p
  <2>. SUFFICES ASSUME NEW o \in seen PROVE \E v \in values : periodOf[v] = o.period
    OBVIOUS
  <2>. QED  BY <1>2, <1>5
<1>7. a.period # b.period
  <2>1. a.value \in values /\ b.value \in values
    BY <1>2
  <2>2. Cardinality(periods) = Cardinality(values)
    BY <1>1
  <2>. HIDE DEF periods, periodsOf
  <2>3. \A v, w \in values : v # w => periodOf[v] # periodOf[w]
    BY <1>0, <2>2, <1>4, <1>6, OnePeriodEach
  <2>4. periodOf[a.value] # periodOf[b.value]
    BY <2>1, <2>3
  <2>. QED  BY <1>5, <2>4
<1>. QED  BY <1>1, <1>2, <1>7 DEF PairwiseDisjoint

\* A status says of a claim whose values are date variants that each of them was supported.
LEMMA VariantsOfAStatus ==
    ASSUME NEW claim \in Claims, NEW docs, Status(claim, docs) = "date_variant",
           NEW o \in Range(claim.observations), NEW p \in Range(claim.observations), o.value # p.value
    PROVE  ProvablyDistinct(Signature(o.period), Signature(p.period))
<1>. DEFINE observed == Range(claim.observations)
            seen == Classified(claim, docs)
            values == {x.value : x \in seen}
<1>1. Relation(values, seen) = "date_variant"
  BY DEF Status
<1>2. \A x \in observed : Supported(x, docs)
  BY DEF Status
<1>3. seen = {Identity(x) : x \in observed}
  BY <1>2 DEF Classified
<1>4. IsFiniteSet(observed)
  <2>1. PICK n \in Nat : claim.observations \in [1..n -> Observations]
    BY SeqDef DEF Claims
  <2>2. IsFiniteSet(1..n) /\ DOMAIN claim.observations = 1..n
    BY <2>1, FS_Interval
  <2>3. IsFiniteSet({claim.observations[j] : j \in 1..n})
    BY <2>1, <2>2, FiniteImage
  <2>. QED  BY <2>2, <2>3 DEF Range
<1>5. IsFiniteSet(seen)
  <2>. DEFINE identityOf == [x \in observed |-> Identity(x)]
  <2>1. IsFiniteSet({identityOf[x] : x \in observed})
    BY <1>4, FiniteImage
  <2>. QED  BY <1>3, <2>1
<1>6. Identity(o) \in seen /\ Identity(p) \in seen
  BY <1>3
<1>7. /\ Identity(o).value = o.value /\ Identity(o).period = Signature(o.period)
      /\ Identity(p).value = p.value /\ Identity(p).period = Signature(p.period)
  BY DEF Identity
<1>8. ProvablyDistinct(Identity(o).period, Identity(p).period)
  <2>. HIDE DEF seen
  <2>. QED  BY <1>1, <1>5, <1>6, <1>7, VariantsAreDistinct
<1>. QED  BY <1>7, <1>8

\* In every run, whatever was proposed and whatever the texts say, values that are published as
\* date variants are of periods without a common quarter, whichever years the periods without one
\* are meant to be in (verification.py:422-469, 1120-1136).
THEOREM VariantsAlwaysDisjoint == Spec => []DateVariantsDisjoint
<1>1. VerdictInv => DateVariantsDisjoint
  <2>. SUFFICES ASSUME VerdictInv, NEW i \in DOMAIN verdicts, verdicts[i] = "date_variant",
                       NEW o \in Range(draft[i].observations), NEW p \in Range(draft[i].observations),
                       NEW y \in {"2025", "2026"}, NEW z \in {"2025", "2026"}, o.value # p.value
                PROVE  Quarters(Signature(o.period), y) \cap Quarters(Signature(p.period), z) = {}
    BY DEF DateVariantsDisjoint
  <2>1. draft[i] \in Claims /\ Settled(draft[i], "date_variant")
    BY DEF VerdictInv
  <2>2. Status(draft[i], corpus) = "date_variant"
    BY <2>1 DEF Settled
  <2>3. ProvablyDistinct(Signature(o.period), Signature(p.period))
    BY <2>1, <2>2, VariantsOfAStatus
  <2>4. o \in Observations /\ p \in Observations
    BY <2>1 DEF Claims, Range
  <2>5. Signature(o.period) \in Signatures /\ Signature(p.period) \in Signatures
    BY <2>4 DEF Signatures, Observations
  <2>. QED  BY <2>3, <2>5, DistinctShareNoQuarter
<1>. QED  BY <1>1, AlwaysVerdictInv, PTL

(***************************************************************************)
(* A probe and its record.                                                 *)
(***************************************************************************)
\* What is said of the corpus is said of the same corpus in the next state.
LEMMA CorpusTermsFixed ==
  ASSUME corpus' = corpus
  PROVE  /\ \A open : /\ Contexts(open)' = Contexts(open) /\ Excerpts(open)' = Excerpts(open)
                      /\ AllComplete(open)' = AllComplete(open)
         /\ Chunks' = Chunks /\ Matching' = Matching /\ ScanOutcome' = ScanOutcome
         /\ \A c : Linked(c)' = Linked(c)
         /\ InFull' = InFull
<1>1. /\ \A c : Text(c)' = Text(c)
      /\ Chunks' = Chunks
  BY DEF Text, Chunks
<1>2. /\ \A c, i : Own(c, i)' = Own(c, i)
      /\ \A c : Linked(c)' = Linked(c)
      /\ \A c, t : Has(c, t)' = Has(c, t)
  BY <1>1 DEF Own, Linked, Has
<1>3. /\ \A c, i : BackTo(c, i)' = BackTo(c, i)
      /\ \A c, open : ReachOn(c, open)' = ReachOn(c, open)
      /\ \A d, m, n : Joined(d, m, n)' = Joined(d, m, n)
  BY <1>1, <1>2 DEF BackTo, ReachOn, Joined
<1>4. \A c, i, open : ReachBack(c, i, open)' = ReachBack(c, i, open)
  BY <1>3 DEF ReachBack
<1>5. /\ \A c, i, open : Complete(c, i, open)' = Complete(c, i, open)
      /\ \A c, i, open : Context(c, i, open)' = Context(c, i, open)
      /\ \A open : Mentions(open)' = Mentions(open)
  <2>1. \A c, i, open : Complete(c, i, open)' = Complete(c, i, open)
    BY <1>3, <1>4 DEF Complete
  <2>2. \A c, i, open : Context(c, i, open)' = Context(c, i, open)
    BY <1>1, <1>2, <1>3, <1>4, Zenon DEF Context
  <2>3. \A open : Mentions(open)' = Mentions(open)
    BY <1>1 DEF Mentions
  <2>. QED  BY <2>1, <2>2, <2>3
<1>6. \A open : /\ Contexts(open)' = Contexts(open)
                /\ Excerpts(open)' = Excerpts(open)
                /\ AllComplete(open)' = AllComplete(open)
  BY <1>5 DEF Contexts, Excerpts, AllComplete
<1>7. Matching' = Matching /\ Ambiguous' = Ambiguous
  BY <1>1, <1>2 DEF Matching, Ambiguous
<1>8. ScanOutcome' = ScanOutcome
  BY <1>1, <1>2, <1>7 DEF ScanOutcome
<1>9. InFull' = InFull
  BY <1>1, <1>5 DEF InFull
<1>. QED  BY <1>1, <1>2, <1>6, <1>7, <1>8, <1>9

LEMMA RecordFixed ==
  ASSUME UNCHANGED <<corpus, searches, scan, candidates, opened, limited>>
  PROVE  Concluded' = Concluded /\ Frontier' = Frontier
<1>1. /\ Contexts(opened)' = Contexts(opened) /\ Excerpts(opened)' = Excerpts(opened)
      /\ AllComplete(opened)' = AllComplete(opened)
  BY CorpusTermsFixed, Zenon
<1>2. Record' = Record
  BY <1>1 DEF Record
<1>3. Frontier' = Frontier
  BY CorpusTermsFixed DEF Frontier
<1>. QED  BY <1>2, <1>3 DEF Concluded

\* The least and the greatest of some numbers.
LEMMA LeastIsMin ==
  ASSUME NEW T \in SUBSET Nat, T # {}
  PROVE  Min(T) \in T /\ \A n \in T : Min(T) <= n
<1>1. \E n \in T : \A m \in T : n <= m
  BY LeastNatural
<1>. QED  BY <1>1 DEF Min

LEMMA GreatestIsMax ==
  ASSUME NEW T \in SUBSET Nat, NEW k \in T, NEW n \in Nat, \A m \in T : m <= n
  PROVE  Max(T) \in T /\ \A m \in T : m <= Max(T)
<1>. DEFINE Room == {n - m : m \in T}
<1>1. Room \in SUBSET Nat /\ Room # {}
  <2>1. \A m \in T : n - m \in Nat
    OBVIOUS
  <2>2. n - k \in Room
    OBVIOUS
  <2>. QED  BY <2>1, <2>2
<1>2. PICK r \in Room : \A q \in Room : r <= q
  BY <1>1, LeastNatural
<1>3. \E x \in T : \A y \in T : x >= y
  <2>1. PICK x \in T : r = n - x
    OBVIOUS
  <2>2. ASSUME NEW y \in T PROVE x >= y
    <3>1. n - x <= n - y
      BY <1>2, <2>1
    <3>. QED  BY <2>1, <3>1
  <2>. QED  BY <2>2
<1>4. Max(T) \in T /\ \A y \in T : Max(T) >= y
  BY <1>3 DEF Max
<1>. QED  BY <1>4

\* A corpus has finitely many chunks.
LEMMA ChunksFinite ==
  ASSUME corpus \in Seq(Seq(Texts))
  PROVE  IsFiniteSet(Chunks)
<1>. DEFINE Of(d) == {d} \X DOMAIN corpus[d]
            Sets == {Of(d) : d \in DOMAIN corpus}
<1>1. DOMAIN corpus = 1..Len(corpus) /\ Len(corpus) \in Nat
  OBVIOUS
<1>2. \A d \in DOMAIN corpus : IsFiniteSet(Of(d))
  <2>. SUFFICES ASSUME NEW d \in DOMAIN corpus PROVE IsFiniteSet(Of(d))
    OBVIOUS
  <2>1. corpus[d] \in Seq(Texts)
    OBVIOUS
  <2>2. DOMAIN corpus[d] = 1..Len(corpus[d]) /\ Len(corpus[d]) \in Nat
    BY <2>1
  <2>3. IsFiniteSet(1..Len(corpus[d]))
    BY <2>2, FS_Interval
  <2>4. IsFiniteSet(DOMAIN corpus[d])
    BY <2>2, <2>3, Zenon
  <2>5. IsFiniteSet({d})
    BY FS_Singleton
  <2>. QED  BY <2>4, <2>5, FS_Product
<1>3. IsFiniteSet(Sets)
  <2>1. IsFiniteSet(DOMAIN corpus)
    BY <1>1, FS_Interval
  <2>. DEFINE of == [d \in DOMAIN corpus |-> Of(d)]
  <2>2. Sets = {of[d] : d \in DOMAIN corpus}
    OBVIOUS
  <2>. HIDE DEF of, Sets
  <2>3. DOMAIN of = DOMAIN corpus /\ of = [d \in DOMAIN corpus |-> of[d]]
    BY DEF of
  <2>. QED  BY <2>1, <2>2, <2>3, FiniteImage
<1>4. \A T \in Sets : IsFiniteSet(T)
  BY <1>2
<1>5. IsFiniteSet(UNION Sets)
  <2>. HIDE DEF Sets
  <2>. QED  BY <1>3, <1>4, FS_UNION
<1>. QED  BY <1>5 DEF Chunks

LEMMA ProbeInvInit == Init => ProbeInv
<1>. SUFFICES ASSUME Init PROVE ProbeInv
  OBVIOUS
<1>1. corpus \in Seq(Seq(Texts))
  BY CasesAssumption DEF Init
<1>. QED  BY <1>1 DEF Init, ProbeInit, ProbeInv, NoScan, NoProbe

\* A conclusion is not mistaken for none.
LEMMA ConcludedIsOne == Concluded # NoProbe
<1>1. Derive(Record) # "none"
  BY DEF Derive
<1>. QED  BY <1>1 DEF Concluded, NoProbe

LEMMA SearchKeepsInv ==
  ASSUME ProbeInv, Search
  PROVE  ProbeInv'
<1>. USE DEF ProbeInv
<1>0. /\ phase = "searching" /\ UNCHANGED <<corpus, phase, scan, opened, limited, probe>>
      /\ probe = NoProbe
  BY DEF Search
<1>1. Chunks' = Chunks /\ ScanOutcome' = ScanOutcome
  BY <1>0, CorpusTermsFixed
<1>2. PICK hits \in SUBSET Chunks, done \in BOOLEAN :
         /\ searches' = Append(searches, [completed |-> done, results |-> hits])
         /\ candidates' = candidates \cup hits
  <2>1. \/ \E hits \in SUBSET Chunks :
              /\ searches' = Append(searches, [completed |-> TRUE, results |-> hits])
              /\ candidates' = candidates \cup hits
        \/ /\ searches' = Append(searches, [completed |-> FALSE, results |-> {}])
           /\ candidates' = candidates
    BY Zenon DEF Search
  <2>2. candidates \cup {} = candidates /\ {} \in SUBSET Chunks
    OBVIOUS
  <2>. QED  BY <2>1, <2>2, Zenon
<1>3. searches' \in Seq([completed : BOOLEAN, results : SUBSET candidates'])
  <2>1. searches \in Seq([completed : BOOLEAN, results : SUBSET candidates'])
    <3>1. [completed : BOOLEAN, results : SUBSET candidates] \subseteq [completed : BOOLEAN, results : SUBSET candidates']
      BY <1>2
    <3>. QED  BY <3>1, SeqMonotonic
  <2>2. [completed |-> done, results |-> hits] \in [completed : BOOLEAN, results : SUBSET candidates']
    BY <1>2
  <2>. QED  BY <1>2, <2>1, <2>2
<1>4. candidates' \subseteq Chunks' /\ scan'.chunks \subseteq candidates'
  BY <1>0, <1>1, <1>2
<1>5. opened' \subseteq Chunks' /\ (scan'.status = "complete" => scan' = ScanOutcome')
  BY <1>0, <1>1
<1>. QED  BY <1>0, <1>3, <1>4, <1>5 DEF ProbeInv

LEMMA ScanKeepsInv ==
  ASSUME ProbeInv, Scan
  PROVE  ProbeInv'
<1>. USE DEF ProbeInv
<1>0. /\ phase = "searching" /\ phase' = "opening" /\ UNCHANGED <<corpus, searches, opened, limited, probe>>
      /\ candidates' = candidates \cup scan'.chunks /\ probe = NoProbe
  BY DEF Scan
<1>1. Chunks' = Chunks /\ ScanOutcome' = ScanOutcome
  BY <1>0, CorpusTermsFixed
<1>2. ScanOutcome.chunks \subseteq Chunks
  BY DEF ScanOutcome, Matching
<1>3. scan' = ScanOutcome \/ scan' = [status |-> "failed", chunks |-> {}]
  BY DEF Scan, FailedScan
<1>4. scan'.chunks \subseteq Chunks /\ (scan'.status = "complete" => scan' = ScanOutcome)
  BY <1>2, <1>3
<1>5. searches' \in Seq([completed : BOOLEAN, results : SUBSET candidates'])
  <2>1. [completed : BOOLEAN, results : SUBSET candidates] \subseteq [completed : BOOLEAN, results : SUBSET candidates']
    BY <1>0
  <2>2. searches \in Seq([completed : BOOLEAN, results : SUBSET candidates'])
    BY <2>1, SeqMonotonic
  <2>. QED  BY <1>0, <2>2
<1>6. candidates' \subseteq Chunks' /\ scan'.chunks \subseteq candidates' /\ opened' \subseteq Chunks'
  BY <1>0, <1>1, <1>4
<1>. QED  BY <1>0, <1>1, <1>4, <1>5, <1>6 DEF ProbeInv

LEMMA OpenKeepsInv ==
  ASSUME ProbeInv, Open
  PROVE  ProbeInv'
<1>. USE DEF ProbeInv
<1>0. /\ phase = "opening" /\ phase' = "expanding" /\ UNCHANGED <<corpus, searches, scan, candidates, probe>>
      /\ opened' \in SUBSET candidates /\ probe = NoProbe
      /\ limited' = (Cardinality(candidates) > OpenLimit)
      /\ Cardinality(opened') = Min({OpenLimit, Cardinality(candidates)})
  BY DEF Open
<1>1. Chunks' = Chunks /\ ScanOutcome' = ScanOutcome
  BY <1>0, CorpusTermsFixed
<1>2. IsFiniteSet(candidates) /\ Cardinality(candidates) \in Nat /\ OpenLimit \in Nat
  BY ChunksFinite, FS_Subset, FS_CardinalityType, ProbeAssumption
<1>3. ~limited' => opened' = candidates
  <2>. SUFFICES ASSUME ~limited' PROVE opened' = candidates
    OBVIOUS
  <2>. DEFINE n == Cardinality(candidates)
  <2>0. ~(n > OpenLimit)
    BY <1>0, Zenon
  <2>. HIDE DEF n
  <2>1. n \in Nat /\ OpenLimit \in Nat
    BY <1>2, Zenon DEF n
  <2>2. {OpenLimit, n} \in SUBSET Nat /\ {OpenLimit, n} # {}
    BY <2>1
  <2>3. Min({OpenLimit, n}) \in {OpenLimit, n} /\ \A m \in {OpenLimit, n} : Min({OpenLimit, n}) <= m
    BY <2>2, LeastIsMin
  <2>4. Min({OpenLimit, n}) = n
    BY <2>0, <2>1, <2>3
  <2>5. Cardinality(opened') = Cardinality(candidates)
    BY <1>0, <2>4, Zenon DEF n
  <2>. QED  BY <1>0, <1>2, <2>5, FS_Subset
<1>4. opened' \subseteq Chunks' /\ candidates' \subseteq Chunks'
  BY <1>0, <1>1
<1>. QED  BY <1>0, <1>1, <1>3, <1>4 DEF ProbeInv

LEMMA ExpandKeepsInv ==
  ASSUME ProbeInv, Expand
  PROVE  ProbeInv'
<1>. USE DEF ProbeInv
<1>0. /\ phase = "expanding" /\ ~limited /\ UNCHANGED <<corpus, phase, searches, scan, candidates, probe>>
      /\ opened' = opened \cup Frontier \/ (opened' = opened /\ limited')
      /\ probe = NoProbe
  BY DEF Expand
<1>1. Chunks' = Chunks /\ ScanOutcome' = ScanOutcome
  BY <1>0, CorpusTermsFixed
<1>2. Frontier \subseteq Chunks
  BY DEF Frontier, Linked
<1>3. opened' \subseteq Chunks' /\ candidates' \subseteq Chunks' /\ (limited' \/ candidates' \subseteq opened')
  BY <1>0, <1>1, <1>2
<1>. QED  BY <1>0, <1>1, <1>3 DEF ProbeInv

\* The other steps leave what a probe rests on alone, begin again, or conclude.
LEMMA RestKeepsInv ==
  ASSUME ProbeInv, UNCHANGED <<corpus, searches, scan, candidates, opened, limited>>,
         \/ UNCHANGED <<phase, probe>>
         \/ phase = "concluded" /\ phase' = "idle" /\ UNCHANGED probe
         \/ phase \in {"searching", "opening", "expanding"} /\ phase' = "raised" /\ UNCHANGED probe
         \/ phase = "expanding" /\ (limited \/ Frontier = {}) /\ phase' = "concluded" /\ probe' = Concluded
  PROVE  ProbeInv'
<1>. USE DEF ProbeInv
<1>1. /\ Chunks' = Chunks /\ ScanOutcome' = ScanOutcome
      /\ Concluded' = Concluded /\ Frontier' = Frontier
  BY CorpusTermsFixed, RecordFixed
<1>2. Concluded # NoProbe
  BY ConcludedIsOne
<1>3. /\ corpus' \in Seq(Seq(Texts)) /\ candidates' \subseteq Chunks' /\ opened' \subseteq Chunks'
      /\ searches' \in Seq([completed : BOOLEAN, results : SUBSET candidates'])
      /\ scan'.status = "complete" => scan' = ScanOutcome'
      /\ scan'.chunks \subseteq candidates'
  BY <1>1
<1>4. phase' = "expanding" => limited' \/ candidates' \subseteq opened'
  OBVIOUS
<1>5. /\ probe' # NoProbe =>
          /\ phase' \in {"concluded", "idle"} /\ probe' = Concluded'
          /\ limited' \/ (candidates' \subseteq opened' /\ Frontier' = {})
      /\ phase' = "concluded" => probe' # NoProbe
  BY <1>1, <1>2
<1>. QED  BY <1>3, <1>4, <1>5, Zenon DEF ProbeInv

LEMMA ProbeInvNext == ProbeInv /\ [Next]_vars => ProbeInv'
<1>. SUFFICES ASSUME ProbeInv, [Next]_vars PROVE ProbeInv'
  OBVIOUS
<1>1. CASE StartProbe
  <2>1. /\ phase' = "searching" /\ searches' = <<>> /\ scan' = NoScan /\ candidates' = {} /\ opened' = {}
        /\ probe' = NoProbe /\ UNCHANGED corpus
    BY <1>1 DEF StartProbe, BeginProbe
  <2>. QED  BY <2>1 DEF ProbeInv, NoScan
<1>2. CASE Search \/ Scan \/ Open \/ Expand
  BY <1>2, SearchKeepsInv, ScanKeepsInv, OpenKeepsInv, ExpandKeepsInv
<1>3. CASE Conclude
  BY <1>3, RestKeepsInv DEF Conclude
<1>4. CASE ReadFails
  BY <1>4, RestKeepsInv DEF ReadFails
<1>5. CASE KeepProbe
  BY <1>5, RestKeepsInv DEF KeepProbe
<1>6. CASE Fail \/ Verify \/ VerifyRaises \/ Rehearse
  BY <1>6, RestKeepsInv DEF Fail, Verify, VerifyRaises, Rehearse, probeVars
<1>7. CASE UNCHANGED vars
  BY <1>7, RestKeepsInv DEF vars, probeVars
<1>. QED  BY <1>1, <1>2, <1>3, <1>4, <1>5, <1>6, <1>7 DEF Next, ProbeStep

LEMMA AlwaysProbeInv == Spec => []ProbeInv
BY ProbeInvInit, ProbeInvNext, PTL DEF Spec

\* What it takes to find nothing: everything with the phrase is open, in its whole context, and
\* none of it may speak of a value.
LEMMA NotFoundMeans ==
  ASSUME ProbeInv, probe.conclusion = "not_found_in_probe"
  PROVE  /\ phase \in {"concluded", "idle"} /\ probe = Concluded /\ Derive(Record) = "not_found_in_probe"
         /\ SearchesComplete(Record) /\ ~limited
         /\ scan = ScanOutcome /\ scan.status = "complete" /\ scan.chunks = Matching
         /\ AllComplete(opened) /\ Matching \subseteq opened
         /\ \A o \in Contexts(opened) : ~Evidence(o) /\ ~Unknown(o)
<1>1. probe # NoProbe
  BY DEF NoProbe
<1>2. /\ phase \in {"concluded", "idle"} /\ probe = Concluded
      /\ scan.status = "complete" => scan = ScanOutcome
      /\ limited \/ candidates \subseteq opened
  BY <1>1, Zenon DEF ProbeInv
<1>3. Derive(Record) = "not_found_in_probe"
  BY <1>2 DEF Concluded
<1>4. SearchesComplete(Record) /\ ~NeedsReview(Record) /\ Coverage(Record)
  BY <1>3 DEF Derive
<1>5. Record.scanned /\ Record.matching \subseteq Record.candidates
  BY <1>4 DEF Coverage
<1>6. scan.status = "complete" /\ ~limited /\ AllComplete(opened)
  BY <1>5 DEF Record
<1>7. scan.chunks \subseteq candidates \cup opened
  BY <1>5 DEF Record
<1>8. scan = ScanOutcome
  BY <1>2, <1>6
<1>9. scan.chunks = Matching
  BY <1>6, <1>8 DEF ScanOutcome
<1>10. ~Record.unresolved /\ ~Record.values
  BY <1>4 DEF NeedsReview
<1>11. \A o \in Contexts(opened) : ~Unknown(o) /\ ~UnresolvedPredicate(o) /\ ~QualitativePredicate(o) /\ ~NumericCandidate(o)
  BY <1>10 DEF Record
<1>12. Matching \subseteq opened
  BY <1>2, <1>6, <1>7, <1>9
<1>13. \A o \in Contexts(opened) : ~Evidence(o) /\ ~Unknown(o)
  BY <1>11 DEF Evidence
<1>. QED  BY <1>2, <1>3, <1>4, <1>6, <1>8, <1>9, <1>12, <1>13

\* The verifier, which has the record and scans the corpus again, comes to the conclusion of the probe.
LEMMA DerivedAgain ==
  ASSUME ProbeInv, probe # NoProbe
  PROVE  DeriveAgain(probe.record, ScanOutcome) = probe.conclusion
<1>1. probe = Concluded
  BY Zenon DEF ProbeInv
<1>2. probe.record = Record /\ probe.conclusion = Derive(Record)
  BY <1>1 DEF Concluded
<1>3. CASE Derive(Record) # "not_found_in_probe"
  BY <1>2, <1>3, Zenon DEF DeriveAgain
<1>4. CASE Derive(Record) = "not_found_in_probe"
  <2>1. /\ scan = ScanOutcome /\ scan.status = "complete"
        /\ AllComplete(opened) /\ \A o \in Contexts(opened) : ~Evidence(o) /\ ~Unknown(o)
    BY <1>2, <1>4, NotFoundMeans
  <2>2. Record.matching = scan.chunks /\ Record.opened = opened /\ Record.occurrences = Excerpts(opened)
    BY DEF Record
  <2>3. DeriveAgain(Record, ScanOutcome) = "not_found_in_probe"
    BY <1>4, <2>1, <2>2, Zenon DEF DeriveAgain
  <2>. QED  BY <1>2, <1>4, <2>3
<1>. QED  BY <1>3, <1>4

(***************************************************************************)
(* Texts, their sentences and the sentences that refer back.               *)
(***************************************************************************)
LEMMA BehindAt ==
  ASSUME NEW S, NEW s \in Seq(S), NEW i \in 0..Len(s)
  PROVE  /\ Behind(s, i) \in Seq(S) /\ Len(Behind(s, i)) = Len(s) - i
         /\ DOMAIN Behind(s, i) = 1..(Len(s) - i)
         /\ \A k \in 1..(Len(s) - i) : Behind(s, i)[k] = s[i + k]
BY DEF Behind

LEMMA ConcatAt ==
  ASSUME NEW S, NEW s \in Seq(S), NEW t \in Seq(S)
  PROVE  /\ s \o t \in Seq(S) /\ Len(s \o t) = Len(s) + Len(t)
         /\ DOMAIN (s \o t) = 1..(Len(s) + Len(t))
         /\ \A k \in 1..Len(s) : (s \o t)[k] = s[k]
         /\ \A k \in 1..Len(t) : (s \o t)[Len(s) + k] = t[k]
OBVIOUS

\* A part of two sequences that agree there.
LEMMA PartSame ==
  ASSUME NEW S, NEW s \in Seq(S), NEW t \in Seq(S), NEW i \in 1..Len(s), NEW j \in 1..Len(s),
         i <= Len(t), j <= Len(t), \A k \in i..j : s[k] = t[k]
  PROVE  SubSeq(s, i, j) = SubSeq(t, i, j)
<1>1. \A k \in i..j : s[k] \in S /\ t[k] \in S
  OBVIOUS
<1>2. /\ SubSeq(s, i, j) \in Seq(S) /\ SubSeq(t, i, j) \in Seq(S)
      /\ Len(SubSeq(s, i, j)) = Len(SubSeq(t, i, j))
      /\ \A k \in 1..(j - i + 1) : SubSeq(s, i, j)[k] = s[i + k - 1] /\ SubSeq(t, i, j)[k] = t[i + k - 1]
      /\ Len(SubSeq(s, i, j)) = IF i <= j THEN j - i + 1 ELSE 0
  BY <1>1, SubSeqProperties
<1>3. \A k \in 1..(j - i + 1) : i + k - 1 \in i..j
  OBVIOUS
<1>4. \A k \in 1..(j - i + 1) : SubSeq(s, i, j)[k] = SubSeq(t, i, j)[k]
  BY <1>2, <1>3
<1>5. \A k \in 1..Len(SubSeq(s, i, j)) : k \in 1..(j - i + 1)
  BY <1>2
<1>. QED  BY <1>2, <1>4, <1>5, SeqEqual

LEMMA BeforeAt ==
  ASSUME NEW S, NEW s \in Seq(S), NEW i \in 1..(Len(s) + 1)
  PROVE  /\ Before(s, i) \in Seq(S) /\ Len(Before(s, i)) = i - 1
         /\ DOMAIN Before(s, i) = 1..(i - 1)
         /\ \A k \in 1..(i - 1) : Before(s, i)[k] = s[k]
BY DEF Before

\* The first sentence goes as far as no sentence has ended before.
LEMMA FirstStopAt ==
  ASSUME NEW t \in Texts
  PROVE  /\ FirstStop(t) \in 0..Len(t)
         /\ \A k \in 1..Len(t) : k <= FirstStop(t) <=> \A j \in 1..(k - 1) : t[j] \notin Stops
         /\ t # <<>> => FirstStop(t) > 0
<1>. DEFINE T == Positions(t, Stops) \cup {Len(t)}
<1>1. Len(t) \in Nat /\ DOMAIN t = 1..Len(t)
  BY DEF Texts
<1>2. T \in SUBSET Nat /\ T # {} /\ T \subseteq 0..Len(t)
  BY <1>1 DEF Positions
<1>3. Min(T) \in T /\ \A n \in T : Min(T) <= n
  <2>. HIDE DEF T
  <2>. QED  BY <1>2, LeastIsMin
<1>4. \A j \in 1..Len(t) : j \in T <=> t[j] \in Stops \/ j = Len(t)
  BY <1>1 DEF Positions
<1>5. Len(t) \in T /\ (t # <<>> => Len(t) > 0 /\ 0 \notin T)
  BY <1>1 DEF Positions, Texts
<1>. DEFINE f == Min(T)
<1>. HIDE DEF T, f
<1>6. f \in T /\ f \in 0..Len(t) /\ \A n \in T : f <= n
  BY <1>2, <1>3 DEF f
<1>7. t # <<>> => f > 0
  BY <1>1, <1>5, <1>6
<1>8. ASSUME NEW k \in 1..Len(t) PROVE k <= f <=> \A j \in 1..(k - 1) : t[j] \notin Stops
  <2>1. ASSUME k <= f, NEW j \in 1..(k - 1) PROVE t[j] \notin Stops
    <3>1. j \in 1..Len(t) /\ ~(f <= j)
      BY <1>1, <1>6, <2>1
    <3>. QED  BY <1>4, <1>6, <3>1
  <2>2. ASSUME \A j \in 1..(k - 1) : t[j] \notin Stops PROVE k <= f
    <3>1. SUFFICES ASSUME ~(k <= f) PROVE FALSE
      OBVIOUS
    <3>2. f \in 1..(k - 1) /\ f \in 1..Len(t) /\ f # Len(t)
      <4>1. t # <<>>
        BY <1>1
      <4>2. f > 0 /\ f < k /\ f \in Nat /\ Len(t) \in Nat /\ k <= Len(t)
        BY <1>1, <1>6, <1>7, <3>1, <4>1
      <4>. HIDE DEF f
      <4>. QED  BY <4>2
    <3>. QED  BY <1>4, <1>6, <2>2, <3>2
  <2>. QED  BY <2>1, <2>2
<1>9. FirstStop(t) = f
  BY DEF FirstStop, T, f
<1>. QED  BY <1>6, <1>7, <1>8, <1>9

LEMMA FirstSentenceAt ==
  ASSUME NEW t \in Texts
  PROVE  /\ FirstSentence(t) \in Texts /\ Len(FirstSentence(t)) = FirstStop(t)
         /\ DOMAIN FirstSentence(t) = 1..FirstStop(t)
         /\ \A k \in 1..FirstStop(t) : FirstSentence(t)[k] = t[k]
BY FirstStopAt DEF FirstSentence, Texts

\* What is behind the last stop has none.
LEMMA LastStopAt ==
  ASSUME NEW t \in Texts
  PROVE  /\ LastStop(t) \in 0..Len(t)
         /\ LastStop(t) # 0 => t[LastStop(t)] \in Stops
         /\ \A k \in (LastStop(t) + 1)..Len(t) : t[k] \notin Stops
<1>. DEFINE T == Positions(t, Stops) \cup {0}
<1>1. Len(t) \in Nat /\ DOMAIN t = 1..Len(t)
  BY DEF Texts
<1>2. T \in SUBSET Nat /\ 0 \in T /\ \A n \in T : n <= Len(t)
  BY <1>1 DEF Positions
<1>3. \A j \in 1..Len(t) : j \in T <=> t[j] \in Stops
  BY <1>1 DEF Positions
<1>. HIDE DEF T
<1>4. Max(T) \in T /\ \A m \in T : m <= Max(T)
  BY <1>1, <1>2, GreatestIsMax
<1>5. LastStop(t) = Max(T)
  BY DEF LastStop, T
<1>. DEFINE f == Max(T)
<1>. HIDE DEF f
<1>6. f \in T /\ f \in 0..Len(t) /\ \A m \in T : m <= f
  <2>1. f \in T /\ \A m \in T : m <= f
    BY <1>4 DEF f
  <2>2. f \in Nat /\ f <= Len(t)
    BY <1>2, <2>1
  <2>. QED  BY <1>1, <2>1, <2>2
<1>7. f # 0 => t[f] \in Stops
  BY <1>1, <1>3, <1>6
<1>8. ASSUME NEW k \in (f + 1)..Len(t) PROVE t[k] \notin Stops
  <2>1. k \in 1..Len(t) /\ ~(k <= f)
    BY <1>1, <1>6
  <2>. QED  BY <1>3, <1>6, <2>1
<1>. QED  BY <1>5, <1>6, <1>7, <1>8 DEF f

\* What refers back goes as far as every sentence begun does.
LEMMA ChainAt ==
  ASSUME NEW t \in Texts
  PROVE  /\ Chain(t) \in Texts /\ Len(Chain(t)) <= Len(t) /\ DOMAIN Chain(t) = 1..Len(Chain(t))
         /\ \A k \in 1..Len(t) :
               k <= Len(Chain(t)) <=>
                  \A i \in 1..k : i = 1 \/ t[i - 1] \in Stops => RefersBack(FirstSentence(Behind(t, i - 1)))
         /\ \A k \in 1..Len(Chain(t)) : Chain(t)[k] = t[k]
<1>. DEFINE starts == {1, Len(t) + 1} \cup {i + 1 : i \in Positions(t, Stops)}
            Refers(i) == RefersBack(FirstSentence(Behind(t, i - 1)))
            broken == {i \in starts : ~Refers(i)}
<1>1. Len(t) \in Nat /\ DOMAIN t = 1..Len(t)
  BY DEF Texts
<1>2. starts \subseteq 1..(Len(t) + 1)
  BY <1>1 DEF Positions
<1>3. \A i \in 1..Len(t) : i \in starts <=> i = 1 \/ t[i - 1] \in Stops
  <2>1. \A i \in 1..Len(t) : i \in starts <=> i = 1 \/ (i - 1 \in 1..Len(t) /\ t[i - 1] \in Stops)
    BY <1>1 DEF Positions
  <2>2. \A i \in 1..Len(t) : i # 1 => i - 1 \in 1..Len(t)
    BY <1>1
  <2>. HIDE DEF starts
  <2>. QED  BY <2>1, <2>2
<1>4. Len(t) + 1 \in broken
  <2>1. Behind(t, Len(t)) = <<>>
    BY BehindAt DEF Texts
  <2>2. FirstSentence(<<>>) = <<>>
    <3>1. <<>> \in Texts
      BY DEF Texts
    <3>2. FirstStop(<<>>) = 0
      BY <3>1, FirstStopAt
    <3>3. FirstSentence(<<>>) \in Texts /\ Len(FirstSentence(<<>>)) = 0
      BY <3>1, <3>2, FirstSentenceAt
    <3>. QED  BY <3>3 DEF Texts
  <2>3. ~Refers(Len(t) + 1)
    BY <1>1, <2>1, <2>2 DEF RefersBack
  <2>. HIDE DEF Refers
  <2>. QED  BY <2>3
<1>. HIDE DEF starts, Refers
<1>5. broken \in SUBSET Nat /\ broken \subseteq 1..(Len(t) + 1)
  <2>1. broken \subseteq 1..(Len(t) + 1)
    BY <1>2
  <2>2. 1..(Len(t) + 1) \subseteq Nat
    BY <1>1
  <2>. QED  BY <2>1, <2>2
<1>6. Min(broken) \in broken /\ \A n \in broken : Min(broken) <= n
  <2>. HIDE DEF broken
  <2>. QED  BY <1>4, <1>5, LeastIsMin
<1>. DEFINE b == Min(broken)
<1>7. b \in 1..(Len(t) + 1)
  BY <1>5, <1>6
<1>8. Chain(t) = SubSeq(t, 1, b - 1)
  BY DEF Chain, starts, Refers
<1>9. ASSUME NEW k \in 1..Len(t) PROVE k <= b - 1 <=> \A i \in 1..k : i = 1 \/ t[i - 1] \in Stops => Refers(i)
  <2>1. ASSUME k <= b - 1, NEW i \in 1..k, i = 1 \/ t[i - 1] \in Stops PROVE Refers(i)
    <3>1. i \in starts
      BY <1>1, <1>3, <2>1
    <3>. HIDE DEF b
    <3>2. ~(b <= i)
      BY <1>7, <2>1
    <3>3. i \notin broken
      BY <1>6, <3>2 DEF b
    <3>. QED  BY <3>1, <3>3
  <2>2. ASSUME ~(k <= b - 1) PROVE \E i \in 1..k : (i = 1 \/ t[i - 1] \in Stops) /\ ~Refers(i)
    <3>1. b \in 1..k /\ b \in 1..Len(t)
      <4>. HIDE DEF b
      <4>. QED  BY <1>1, <1>7, <2>2
    <3>2. b \in starts /\ ~Refers(b)
      BY <1>6
    <3>. HIDE DEF b
    <3>. QED  BY <1>3, <3>1, <3>2
  <2>. HIDE DEF b
  <2>. QED  BY <2>1, <2>2
<1>. HIDE DEF b
<1>10. /\ Chain(t) \in Texts /\ Len(Chain(t)) = b - 1
       /\ \A k \in 1..(b - 1) : Chain(t)[k] = t[k]
  BY <1>1, <1>7, <1>8 DEF Texts
<1>11. DOMAIN Chain(t) = 1..Len(Chain(t)) /\ Len(Chain(t)) <= Len(t)
  BY <1>1, <1>7, <1>10 DEF Texts
<1>. QED  BY <1>9, <1>10, <1>11 DEF Refers

(***************************************************************************)
(* A text that is cut short says nothing that the whole text does not say. *)
(***************************************************************************)
Begins(s, t) == Len(s) <= Len(t) /\ \A k \in 1..Len(s) : s[k] = t[k]

LEMMA BeginsBehind ==
  ASSUME NEW s \in Texts, NEW t \in Texts, Begins(s, t), NEW i \in 0..Len(s)
  PROVE  Behind(s, i) \in Texts /\ Behind(t, i) \in Texts /\ Begins(Behind(s, i), Behind(t, i))
<1>1. s \in Seq(Tokens) /\ t \in Seq(Tokens) /\ Len(s) \in Nat /\ Len(t) \in Nat /\ i \in 0..Len(t)
  BY DEF Begins, Texts
<1>2. /\ Behind(s, i) \in Texts /\ Len(Behind(s, i)) = Len(s) - i
      /\ \A k \in 1..(Len(s) - i) : Behind(s, i)[k] = s[i + k]
  BY <1>1, BehindAt DEF Texts
<1>3. /\ Behind(t, i) \in Texts /\ Len(Behind(t, i)) = Len(t) - i
      /\ \A k \in 1..(Len(t) - i) : Behind(t, i)[k] = t[i + k]
  BY <1>1, BehindAt DEF Texts
<1>4. Len(s) - i <= Len(t) - i
  BY <1>1 DEF Begins
<1>5. ASSUME NEW k \in 1..(Len(s) - i) PROVE Behind(s, i)[k] = Behind(t, i)[k]
  <2>1. i + k \in 1..Len(s) /\ k \in 1..(Len(t) - i)
    BY <1>1, <1>4
  <2>. QED  BY <1>2, <1>3, <2>1 DEF Begins
<1>. QED  BY <1>2, <1>3, <1>4, <1>5 DEF Begins

LEMMA BeginsFirstSentence ==
  ASSUME NEW s \in Texts, NEW t \in Texts, Begins(s, t)
  PROVE  FirstSentence(s) \in Texts /\ FirstSentence(t) \in Texts /\ Begins(FirstSentence(s), FirstSentence(t))
<1>1. Len(s) \in Nat /\ Len(t) \in Nat /\ Len(s) <= Len(t) /\ \A k \in 1..Len(s) : s[k] = t[k]
  BY DEF Begins, Texts
<1>2. /\ FirstStop(s) \in 0..Len(s)
      /\ \A k \in 1..Len(s) : k <= FirstStop(s) <=> \A j \in 1..(k - 1) : s[j] \notin Stops
  BY FirstStopAt
<1>3. /\ FirstStop(t) \in 0..Len(t)
      /\ \A k \in 1..Len(t) : k <= FirstStop(t) <=> \A j \in 1..(k - 1) : t[j] \notin Stops
  BY FirstStopAt
<1>4. ASSUME NEW k \in 1..FirstStop(s) PROVE k <= FirstStop(t)
  <2>1. k \in 1..Len(s) /\ k \in 1..Len(t) /\ k <= FirstStop(s)
    BY <1>1, <1>2
  <2>2. \A j \in 1..(k - 1) : s[j] \notin Stops
    BY <1>2, <2>1
  <2>3. \A j \in 1..(k - 1) : t[j] \notin Stops
    BY <1>1, <2>1, <2>2
  <2>. QED  BY <1>3, <2>1, <2>3
<1>5. FirstStop(s) <= FirstStop(t)
  <2>. DEFINE f == FirstStop(s)
              g == FirstStop(t)
  <2>. HIDE DEF f, g
  <2>1. f \in Nat /\ g \in Nat /\ (f > 0 => f <= g)
    BY <1>1, <1>2, <1>3, <1>4 DEF f, g
  <2>2. f <= g
    BY <2>1
  <2>. QED  BY <2>2 DEF f, g
<1>6. ASSUME NEW k \in 1..FirstStop(s) PROVE FirstSentence(s)[k] = FirstSentence(t)[k]
  <2>1. k \in 1..FirstStop(t) /\ k \in 1..Len(s)
    BY <1>1, <1>2, <1>3, <1>5
  <2>. QED  BY <1>1, <2>1, FirstSentenceAt
<1>. QED  BY <1>5, <1>6, FirstSentenceAt DEF Begins

LEMMA BeginsOccurs ==
  ASSUME NEW s \in Texts, NEW t \in Texts, Begins(s, t), NEW tokens, Occurs(tokens, s)
  PROVE  Occurs(tokens, t)
<1>1. PICK k \in DOMAIN s : s[k] \in tokens
  BY DEF Occurs, Positions
<1>2. k \in DOMAIN t /\ t[k] = s[k]
  BY DEF Begins, Texts
<1>. QED  BY <1>1, <1>2 DEF Occurs, Positions

LEMMA BeginsRefersBack ==
  ASSUME NEW s \in Texts, NEW t \in Texts, Begins(s, t), RefersBack(s)
  PROVE  RefersBack(t)
<1>1. s # <<>> /\ Occurs({"it"}, s) /\ s[1] \in Temporals \cup {"it"}
  BY DEF RefersBack
<1>2. t # <<>> /\ t[1] = s[1]
  BY <1>1 DEF Begins, Texts
<1>. QED  BY <1>1, <1>2, BeginsOccurs DEF RefersBack

LEMMA BeginsChain ==
  ASSUME NEW s \in Texts, NEW t \in Texts, Begins(s, t)
  PROVE  Begins(Chain(s), Chain(t))
<1>1. Len(s) \in Nat /\ Len(t) \in Nat /\ Len(s) <= Len(t) /\ \A k \in 1..Len(s) : s[k] = t[k]
  BY DEF Begins, Texts
<1>. DEFINE Refers(x, i) == RefersBack(FirstSentence(Behind(x, i - 1)))
<1>2. /\ Chain(s) \in Texts /\ Len(Chain(s)) \in Nat /\ Len(Chain(s)) <= Len(s)
      /\ \A k \in 1..Len(s) :
            k <= Len(Chain(s)) <=> \A i \in 1..k : i = 1 \/ s[i - 1] \in Stops => Refers(s, i)
      /\ \A k \in 1..Len(Chain(s)) : Chain(s)[k] = s[k]
  BY ChainAt DEF Texts
<1>3. /\ Chain(t) \in Texts /\ Len(Chain(t)) \in Nat /\ Len(Chain(t)) <= Len(t)
      /\ \A k \in 1..Len(t) :
            k <= Len(Chain(t)) <=> \A i \in 1..k : i = 1 \/ t[i - 1] \in Stops => Refers(t, i)
      /\ \A k \in 1..Len(Chain(t)) : Chain(t)[k] = t[k]
  BY ChainAt DEF Texts
<1>4. ASSUME NEW i \in 1..Len(s), Refers(s, i) PROVE Refers(t, i)
  <2>1. i - 1 \in 0..Len(s)
    BY <1>1
  <2>. QED  BY <1>4, <2>1, BeginsBehind, BeginsFirstSentence, BeginsRefersBack
<1>. HIDE DEF Refers
<1>5. ASSUME NEW k \in 1..Len(Chain(s)) PROVE k <= Len(Chain(t))
  <2>1. k \in 1..Len(s) /\ k \in 1..Len(t) /\ k <= Len(Chain(s))
    BY <1>1, <1>2
  <2>2. ASSUME NEW i \in 1..k, i = 1 \/ t[i - 1] \in Stops PROVE Refers(t, i)
    <3>1. i \in 1..Len(s) /\ (i = 1 \/ i - 1 \in 1..Len(s))
      BY <1>1, <2>1
    <3>2. i = 1 \/ s[i - 1] \in Stops
      BY <1>1, <2>2, <3>1
    <3>3. Refers(s, i)
      BY <1>2, <2>1, <3>2
    <3>. QED  BY <1>4, <3>1, <3>3
  <2>. QED  BY <1>3, <2>1, <2>2
<1>6. Len(Chain(s)) <= Len(Chain(t))
  <2>. DEFINE f == Len(Chain(s))
              g == Len(Chain(t))
  <2>. HIDE DEF f, g
  <2>1. f \in Nat /\ g \in Nat /\ (f > 0 => f <= g)
    BY <1>2, <1>3, <1>5 DEF f, g
  <2>2. f <= g
    BY <2>1
  <2>. QED  BY <2>2 DEF f, g
<1>7. ASSUME NEW k \in 1..Len(Chain(s)) PROVE Chain(s)[k] = Chain(t)[k]
  <2>1. k \in 1..Len(Chain(t)) /\ k \in 1..Len(s)
    BY <1>1, <1>2, <1>3, <1>6
  <2>. QED  BY <1>1, <1>2, <1>3, <2>1
<1>. QED  BY <1>6, <1>7 DEF Begins

LEMMA RestAt ==
  ASSUME NEW t \in Texts
  PROVE  Rest(t) \in Texts /\ Len(Rest(t)) = Len(t) - FirstStop(t)
<1>1. FirstStop(t) \in 0..Len(t)
  BY FirstStopAt
<1>. QED  BY <1>1, BehindAt DEF Rest, Texts

\* The sentences behind the first one that refer back to it.
LEMMA BeginsRestChain ==
  ASSUME NEW s \in Texts, NEW t \in Texts, Begins(s, t)
  PROVE  Begins(Chain(Rest(s)), Chain(Rest(t)))
<1>1. Len(s) \in Nat /\ Len(t) \in Nat /\ Len(s) <= Len(t) /\ \A k \in 1..Len(s) : s[k] = t[k]
  BY DEF Begins, Texts
<1>2. /\ FirstStop(s) \in 0..Len(s) /\ FirstStop(t) \in 0..Len(t)
      /\ FirstSentence(s) \in Texts /\ FirstSentence(t) \in Texts
  BY FirstStopAt, FirstSentenceAt
<1>3. Rest(s) \in Texts /\ Rest(t) \in Texts /\ Len(Rest(s)) = Len(s) - FirstStop(s)
  BY RestAt
<1>4. CASE FirstStop(s) = Len(s)
  <2>1. Len(Rest(s)) = 0
    BY <1>1, <1>3, <1>4
  <2>2. Len(Chain(Rest(s))) <= 0 /\ Chain(Rest(s)) \in Texts /\ Chain(Rest(t)) \in Texts
    BY <1>3, <2>1, ChainAt
  <2>. QED  BY <2>2 DEF Begins, Texts
<1>5. CASE FirstStop(s) # Len(s)
  <2>1. FirstStop(t) = FirstStop(s)
    <3>. DEFINE f == FirstStop(s)
                g == FirstStop(t)
    <3>1. f \in Nat /\ g \in Nat /\ f <= g
      BY <1>1, <1>2, BeginsFirstSentence, FirstSentenceAt DEF Begins
    <3>2. PICK n \in 1..Len(s) : n = f + 1
      BY <1>1, <1>2, <1>5
    <3>3. /\ \A k \in 1..Len(s) : k <= f <=> \A j \in 1..(k - 1) : s[j] \notin Stops
          /\ \A k \in 1..Len(t) : k <= g <=> \A j \in 1..(k - 1) : t[j] \notin Stops
      BY FirstStopAt
    <3>. HIDE DEF f, g
    <3>4. n \in 1..Len(t) /\ ~(n <= f) /\ n - 1 = f
      BY <1>1, <3>1, <3>2
    <3>5. ~ \A j \in 1..(n - 1) : s[j] \notin Stops
      BY <3>3, <3>4
    <3>6. PICK j \in 1..(n - 1) : s[j] \in Stops
      BY <3>5
    <3>7. j \in 1..Len(s)
      BY <1>1, <3>4
    <3>8. t[j] \in Stops
      BY <1>1, <3>6, <3>7
    <3>9. ~(n <= g)
      BY <3>3, <3>4, <3>8
    <3>10. f = g
      BY <3>1, <3>2, <3>9
    <3>. QED  BY <3>10 DEF f, g
  <2>2. Begins(Rest(s), Rest(t))
    BY <1>2, <2>1, BeginsBehind DEF Rest
  <2>. QED  BY <1>3, <2>2, BeginsChain
<1>. QED  BY <1>4, <1>5

\* An occurrence of the metric between two texts.
Between(o) == o.before \in Texts /\ o.after \in Texts
Said(o) == o.before \o <<"metric">> \o o.after
Closes(s, t) == Len(s) <= Len(t) /\ \A k \in 1..Len(s) : s[k] = t[Len(t) - Len(s) + k]
Cut(e, o) == Between(e) /\ Between(o) /\ Closes(e.before, o.before) /\ Begins(e.after, o.after)

LEMMA SaidAt ==
  ASSUME NEW o, Between(o)
  PROVE  /\ Said(o) \in Texts /\ Len(Said(o)) = Len(o.before) + 1 + Len(o.after)
         /\ \A k \in 1..Len(o.before) : Said(o)[k] = o.before[k]
         /\ Said(o)[Len(o.before) + 1] = "metric"
         /\ \A k \in 1..Len(o.after) : Said(o)[Len(o.before) + 1 + k] = o.after[k]
<1>. DEFINE b == o.before
            a == o.after
            m == <<"metric">>
<1>1. b \in Seq(Tokens) /\ a \in Seq(Tokens) /\ m \in Seq(Tokens) /\ Len(m) = 1 /\ m[1] = "metric"
  <2>1. b \in Seq(Tokens) /\ a \in Seq(Tokens)
    BY DEF Between, Texts
  <2>2. "metric" \in Tokens
    BY DEF Tokens, Plain
  <2>. QED  BY <2>1, <2>2
<1>. HIDE DEF a, b, m
<1>. DEFINE bm == b \o m
<1>2. /\ bm \in Seq(Tokens) /\ Len(bm) = Len(b) + 1
      /\ \A k \in 1..Len(b) : bm[k] = b[k]
      /\ bm[Len(b) + 1] = "metric"
  <2>0. b \in Seq(Tokens) /\ m \in Seq(Tokens)
    BY <1>1
  <2>1. /\ bm \in Seq(Tokens) /\ Len(bm) = Len(b) + Len(m)
        /\ \A k \in 1..Len(b) : bm[k] = b[k]
    BY <2>0
  <2>2. Len(m) = 1 /\ m[1] = "metric" /\ 1 \in 1..Len(m)
    BY <1>1
  <2>3. \A k \in 1..Len(m) : bm[Len(b) + k] = m[k]
    BY <2>0
  <2>. HIDE DEF bm
  <2>. QED  BY <2>1, <2>2, <2>3
<1>. HIDE DEF bm
<1>3. /\ bm \o a \in Seq(Tokens) /\ Len(bm \o a) = Len(bm) + Len(a)
      /\ \A k \in 1..Len(bm) : (bm \o a)[k] = bm[k]
      /\ \A k \in 1..Len(a) : (bm \o a)[Len(bm) + k] = a[k]
  <2>1. bm \in Seq(Tokens) /\ a \in Seq(Tokens)
    BY <1>1, <1>2
  <2>. QED  BY <2>1
<1>4. Said(o) = bm \o a
  BY DEF Said, bm, b, a, m
<1>6. /\ Said(o) \in Texts /\ Len(Said(o)) = Len(b) + 1 + Len(a)
      /\ \A k \in 1..Len(b) : Said(o)[k] = b[k]
      /\ Said(o)[Len(b) + 1] = "metric"
      /\ \A k \in 1..Len(a) : Said(o)[Len(b) + 1 + k] = a[k]
  <2>1. Len(b) \in Nat
    BY <1>1
  <2>. QED  BY <1>2, <1>3, <1>4, <2>1 DEF Texts
<1>. QED  BY <1>6 DEF a, b

\* What is said around it is found at the same distance from the metric.
Shifted(s, t, shift) == \A k \in 1..Len(s) : k + shift \in 1..Len(t) /\ t[k + shift] = s[k]

LEMMA CutSaid ==
  ASSUME NEW e, NEW o, Cut(e, o)
  PROVE  \E shift \in Nat : Shifted(Said(e), Said(o), shift)
<1>. DEFINE b == Len(e.before)
            c == Len(o.before)
            x == Len(e.after)
            y == Len(o.after)
            s == Said(e)
            t == Said(o)
<1>1. b \in Nat /\ c \in Nat /\ x \in Nat /\ y \in Nat /\ b <= c /\ x <= y
  BY DEF Cut, Between, Begins, Closes, Texts
<1>2. /\ Len(s) = b + 1 + x /\ Len(t) = c + 1 + y
      /\ s[b + 1] = "metric" /\ t[c + 1] = "metric"
  BY SaidAt DEF Cut
<1>3. \A k \in 1..b : s[k] = e.before[k] /\ t[c - b + k] = o.before[c - b + k] /\ e.before[k] = o.before[c - b + k]
  <2>1. \A k \in 1..b : s[k] = e.before[k] /\ e.before[k] = o.before[c - b + k]
    BY SaidAt DEF Cut, Closes
  <2>2. \A k \in 1..c : t[k] = o.before[k]
    BY SaidAt DEF Cut
  <2>. HIDE DEF b, c, s, t
  <2>3. \A k \in 1..b : c - b + k \in 1..c
    BY <1>1
  <2>. QED  BY <2>1, <2>2, <2>3
<1>4. \A k \in 1..x : s[b + 1 + k] = t[c + 1 + k]
  <2>1. \A k \in 1..x : s[b + 1 + k] = e.after[k] /\ e.after[k] = o.after[k]
    BY SaidAt DEF Cut, Begins
  <2>2. \A k \in 1..y : t[c + 1 + k] = o.after[k]
    BY SaidAt DEF Cut
  <2>. HIDE DEF b, c, s, t, x, y
  <2>3. \A k \in 1..x : k \in 1..y
    BY <1>1
  <2>. QED  BY <2>1, <2>2, <2>3
<1>. HIDE DEF b, c, s, t, x, y
<1>5. ASSUME NEW k \in 1..Len(s) PROVE k + (c - b) \in 1..Len(t) /\ t[k + (c - b)] = s[k]
  <2>1. k + (c - b) \in 1..Len(t)
    BY <1>1, <1>2
  <2>2. CASE k <= b
    <3>1. k \in 1..b /\ c - b + k = k + (c - b)
      BY <1>1, <1>2, <2>2
    <3>. QED  BY <1>3, <2>1, <3>1
  <2>3. CASE k = b + 1
    <3>1. k + (c - b) = c + 1
      BY <1>1, <2>3
    <3>. QED  BY <1>2, <2>1, <2>3, <3>1
  <2>4. CASE k > b + 1
    <3>1. PICK n \in 1..x : k = b + 1 + n
      <4>1. k - (b + 1) \in 1..x /\ k = b + 1 + (k - (b + 1))
        BY <1>1, <1>2, <2>4
      <4>. QED  BY <4>1
    <3>2. k + (c - b) = c + 1 + n
      BY <1>1, <3>1
    <3>. QED  BY <1>4, <2>1, <3>1, <3>2
  <2>. QED  BY <1>1, <1>2, <2>2, <2>3, <2>4
<1>6. c - b \in Nat
  BY <1>1
<1>7. Shifted(s, t, c - b)
  BY <1>5 DEF Shifted
<1>. QED  BY <1>6, <1>7, Zenon DEF s, t

LEMMA CutNumeric ==
  ASSUME NEW e, NEW o, Cut(e, o), NumericCandidate(e)
  PROVE  NumericCandidate(o)
<1>0. e.after \in Texts /\ o.after \in Texts /\ Begins(e.after, o.after) /\ e.before \in Texts /\ o.before \in Texts
  BY DEF Cut, Between
<1>1. CASE Occurs(Numbers, FirstSentence(e.after))
  <2>1. Occurs(Numbers, FirstSentence(o.after))
    BY <1>0, <1>1, BeginsFirstSentence, BeginsOccurs
  <2>. QED  BY <2>1 DEF NumericCandidate
<1>2. CASE Occurs(Numbers, Chain(Rest(e.after)))
  <2>1. Rest(e.after) \in Texts /\ Rest(o.after) \in Texts
    BY <1>0, RestAt
  <2>2. Chain(Rest(e.after)) \in Texts /\ Chain(Rest(o.after)) \in Texts
    BY <2>1, ChainAt
  <2>3. Occurs(Numbers, Chain(Rest(o.after)))
    BY <1>0, <1>2, <2>2, BeginsRestChain, BeginsOccurs
  <2>. QED  BY <2>3 DEF NumericCandidate
<1>3. CASE e.before # <<>> /\ Last(e.before) \in Numbers
  <2>1. Len(e.before) > 0 /\ Len(e.before) \in Nat /\ Len(o.before) \in Nat
    BY <1>0, <1>3 DEF Texts
  <2>2. e.before[Len(e.before)] = o.before[Len(o.before)] /\ Len(o.before) > 0
    <3>. DEFINE n == Len(e.before)
    <3>1. n \in 1..n
      BY <2>1
    <3>2. n <= Len(o.before) /\ e.before[n] = o.before[Len(o.before) - n + n]
      BY <3>1 DEF Cut, Closes
    <3>. HIDE DEF n
    <3>3. Len(o.before) - n + n = Len(o.before)
      BY <2>1 DEF n
    <3>. QED  BY <2>1, <3>2, <3>3 DEF n
  <2>3. o.before # <<>>
    BY <2>2
  <2>. QED  BY <1>3, <2>2, <2>3 DEF NumericCandidate, Last
<1>. QED  BY <1>1, <1>2, <1>3 DEF NumericCandidate

LEMMA CutQualitative ==
  ASSUME NEW e, NEW o, Cut(e, o), QualitativePredicate(e)
  PROVE  QualitativePredicate(o)
<1>. DEFINE s == Chain(Rest(e.after))
            t == Chain(Rest(o.after))
<1>1. s \in Texts /\ t \in Texts /\ Begins(s, t)
  <2>1. e.after \in Texts /\ o.after \in Texts /\ Begins(e.after, o.after)
    BY DEF Cut, Between
  <2>2. Rest(e.after) \in Texts /\ Rest(o.after) \in Texts
    BY <2>1, RestAt
  <2>. QED  BY <2>1, <2>2, BeginsRestChain, ChainAt
<1>2. PICK i, j \in DOMAIN s :
         i < j /\ s[i] = "it" /\ ~Occurs(Stops, SubSeq(s, i, j)) /\ s[j] \notin Values
  BY DEF QualitativePredicate
<1>. HIDE DEF s, t
<1>3. i \in DOMAIN t /\ j \in DOMAIN t /\ t[i] = s[i] /\ t[j] = s[j] /\ i \in 1..Len(s) /\ j \in 1..Len(s)
  BY <1>1 DEF Begins, Texts
<1>4. SubSeq(t, i, j) = SubSeq(s, i, j)
  <2>1. s \in Seq(Tokens) /\ t \in Seq(Tokens) /\ i <= Len(t) /\ j <= Len(t)
    BY <1>1, <1>3 DEF Texts
  <2>2. \A k \in i..j : t[k] = s[k]
    BY <1>1, <1>3 DEF Begins
  <2>. QED  BY <1>3, <2>1, <2>2, PartSame
<1>. QED  BY <1>2, <1>3, <1>4 DEF QualitativePredicate, t

LEMMA CutUnresolved ==
  ASSUME NEW e, NEW o, Cut(e, o), UnresolvedPredicate(e)
  PROVE  UnresolvedPredicate(o)
<1>. DEFINE s == Said(e)
            t == Said(o)
<1>0. \E shift \in Nat : Shifted(s, t, shift)
  BY CutSaid
<1>. DEFINE Joins(x, i, m) == \A j \in (i + 1)..(m - 1) : x[j] \in Plain
            Speaks(x, m, i) ==
               /\ x[m] = "metric"
               /\ \/ i < m /\ x[i] = "stated" /\ Joins(x, i, m)
                  \/ m < i /\ Joins(x, m, i) /\ x[i] = "stated"
                  \/ m < i /\ Joins(x, m, i) /\ x[i] \in {"is", "it"} /\ Occurs(Tokens \ Stops, Behind(x, i))
<1>1. s \in Texts /\ t \in Texts /\ Len(s) \in Nat /\ Len(t) \in Nat /\ DOMAIN s = 1..Len(s) /\ DOMAIN t = 1..Len(t)
  <2>1. s \in Texts /\ t \in Texts
    BY SaidAt DEF Cut
  <2>. HIDE DEF s, t
  <2>. QED  BY <2>1 DEF Texts
<1>2. PICK m, i \in Positions(s, {"metric", "is", "it", "stated"}) : Speaks(s, m, i)
  BY DEF UnresolvedPredicate, Said
<1>3. PICK d \in Nat : \A k \in 1..Len(s) : k + d \in 1..Len(t) /\ t[k + d] = s[k]
  <2>. HIDE DEF s, t, Speaks
  <2>. QED  BY <1>0, Zenon DEF Shifted
<1>. HIDE DEF s, t
<1>4. m \in 1..Len(s) /\ i \in 1..Len(s)
  BY <1>1 DEF Positions
<1>5. m + d \in Positions(t, {"metric", "is", "it", "stated"}) /\ i + d \in Positions(t, {"metric", "is", "it", "stated"})
  BY <1>1, <1>3, <1>4 DEF Positions
<1>6. \A x, y \in 1..Len(s) : Joins(s, x, y) => Joins(t, x + d, y + d)
  <2>. SUFFICES ASSUME NEW x \in 1..Len(s), NEW y \in 1..Len(s), Joins(s, x, y)
                PROVE  Joins(t, x + d, y + d)
    BY Zenon
  <2>. SUFFICES ASSUME NEW j \in ((x + d) + 1)..((y + d) - 1)
                PROVE  t[j] \in Plain
    BY Zenon
  <2>1. j - d \in (x + 1)..(y - 1) /\ j - d \in 1..Len(s) /\ j = (j - d) + d
    BY <1>1
  <2>2. s[j - d] \in Plain
    BY <2>1
  <2>3. t[(j - d) + d] = s[j - d]
    BY <1>3, <2>1
  <2>. QED  BY <2>1, <2>2, <2>3
<1>7. Occurs(Tokens \ Stops, Behind(s, i)) => Occurs(Tokens \ Stops, Behind(t, i + d))
  <2>. SUFFICES ASSUME Occurs(Tokens \ Stops, Behind(s, i)) PROVE Occurs(Tokens \ Stops, Behind(t, i + d))
    OBVIOUS
  <2>1. /\ DOMAIN Behind(s, i) = 1..(Len(s) - i) /\ \A k \in 1..(Len(s) - i) : Behind(s, i)[k] = s[i + k]
    BY <1>1, <1>4, BehindAt DEF Texts
  <2>2. /\ i + d \in 0..Len(t)
        /\ DOMAIN Behind(t, i + d) = 1..(Len(t) - (i + d)) /\ \A k \in 1..(Len(t) - (i + d)) : Behind(t, i + d)[k] = t[i + d + k]
    <3>1. i + d \in 0..Len(t)
      BY <1>1, <1>3, <1>4
    <3>. QED  BY <1>1, <3>1, BehindAt DEF Texts
  <2>3. PICK k \in 1..(Len(s) - i) : s[i + k] \in Tokens \ Stops
    BY <2>1 DEF Occurs, Positions
  <2>4. i + k \in 1..Len(s) /\ (i + k) + d = i + d + k
    BY <1>1, <1>4
  <2>5. i + d + k \in 1..Len(t) /\ t[i + d + k] = s[i + k]
    BY <1>3, <2>4
  <2>6. k \in 1..(Len(t) - (i + d))
    BY <1>1, <1>4, <2>5
  <2>. QED  BY <2>2, <2>3, <2>5, <2>6 DEF Occurs, Positions
<1>8. t[m + d] = s[m] /\ t[i + d] = s[i] /\ (i < m => i + d < m + d) /\ (m < i => m + d < i + d)
  BY <1>3, <1>4
<1>. HIDE DEF Joins
<1>9. Speaks(t, m + d, i + d)
  BY <1>2, <1>4, <1>6, <1>7, <1>8
<1>. USE DEF Joins, s, t
<1>. QED  BY <1>5, <1>9 DEF UnresolvedPredicate, Said

LEMMA CutEvidence ==
  ASSUME NEW e, NEW o, Cut(e, o), Evidence(e)
  PROVE  Evidence(o)
BY CutNumeric, CutQualitative, CutUnresolved DEF Evidence

(***************************************************************************)
(* Texts joined end to end.                                                *)
(***************************************************************************)
Flattens(f, s) == f = [i \in 1..Len(s) |-> IF i = 1 THEN s[i] ELSE f[i - 1] \o s[i]]

\* The function by which the library joins sequences exists.
LEMMA FlattensExists ==
  ASSUME NEW S, NEW s \in Seq(S)
  PROVE  \E f : Flattens(f, s)
<1>. DEFINE Value(g, i) == IF i = 1 THEN s[i] ELSE g[i - 1] \o s[i]
            Upto(g, n) == \A i \in 1..n : g[i] = Value(g, i)
            Bad == {n \in Nat : ~ \E g : Upto(g, n)}
<1>1. Len(s) \in Nat
  OBVIOUS
<1>2. Bad = {}
  <2>1. SUFFICES ASSUME Bad # {} PROVE FALSE
    OBVIOUS
  <2>2. PICK n \in Bad : \A m \in Bad : n <= m
    <3>1. Bad \in SUBSET Nat
      OBVIOUS
    <3>. HIDE DEF Bad
    <3>. QED  BY <2>1, <3>1, LeastNatural
  <2>3. n # 0
    <3>1. Upto(<<>>, 0)
      OBVIOUS
    <3>2. 0 \notin Bad
      <4>. HIDE DEF Upto
      <4>. QED  BY <3>1
    <3>. QED  BY <3>2
  <2>4. n \in Nat /\ n - 1 \in Nat /\ ~(n <= n - 1)
    BY <2>3
  <2>5. PICK g : Upto(g, n - 1)
    <3>1. n - 1 \notin Bad
      BY <2>2, <2>4
    <3>. HIDE DEF Upto
    <3>. QED  BY <2>4, <3>1
  <2>. DEFINE h == [i \in 1..n |-> Value(g, i)]
  <2>6. \A i \in 1..(n - 1) : h[i] = g[i]
    BY <2>4, <2>5
  <2>7. ASSUME NEW i \in 1..n PROVE h[i] = Value(h, i)
    <3>1. CASE i = 1
      BY <3>1
    <3>2. CASE i # 1
      <4>1. i - 1 \in 1..(n - 1)
        BY <2>4, <3>2
      <4>2. h[i - 1] = g[i - 1]
        BY <2>6, <4>1
      <4>3. h[i] = g[i - 1] \o s[i]
        BY <3>2
      <4>. HIDE DEF h
      <4>. QED  BY <3>2, <4>2, <4>3
    <3>. QED  BY <3>1, <3>2
  <2>8. Upto(h, n)
    BY <2>7
  <2>. HIDE DEF Upto, h
  <2>. QED  BY <2>2, <2>8
<1>3. PICK g : Upto(g, Len(s))
  <2>. HIDE DEF Upto
  <2>. QED  BY <1>1, <1>2
<1>. DEFINE h == [i \in 1..Len(s) |-> g[i]]
<1>4. ASSUME NEW i \in 1..Len(s) PROVE h[i] = Value(h, i)
  <2>1. CASE i = 1
    BY <1>3, <2>1
  <2>2. CASE i # 1
    <3>1. i - 1 \in 1..Len(s)
      BY <1>1, <2>2
    <3>2. h[i - 1] = g[i - 1] /\ h[i] = g[i]
      BY <3>1
    <3>3. g[i] = g[i - 1] \o s[i]
      BY <1>3, <2>2
    <3>. HIDE DEF h
    <3>. QED  BY <2>2, <3>2, <3>3
  <2>. QED  BY <2>1, <2>2
<1>5. h = [i \in 1..Len(s) |-> Value(h, i)]
  <2>1. h = [i \in 1..Len(s) |-> h[i]]
    OBVIOUS
  <2>. HIDE DEF h, Value
  <2>. QED  BY <1>4, <2>1
<1>6. Flattens(h, s)
  BY <1>5 DEF Flattens
<1>. QED  BY <1>6

LEMMA FlattenIs ==
  ASSUME NEW S, NEW s \in Seq(S), Len(s) # 0
  PROVE  \E f : Flattens(f, s) /\ FlattenSeq(s) = f[Len(s)]
<1>. DEFINE f == CHOOSE f : Flattens(f, s)
<1>1. Flattens(f, s)
  BY FlattensExists
<1>2. FlattenSeq(s) = f[Len(s)]
  BY DEF FlattenSeq, Flattens
<1>. HIDE DEF f
<1>. QED  BY <1>1, <1>2

LEMMA FlattensAgree ==
  ASSUME NEW S, NEW s \in Seq(S), NEW t \in Seq(S), NEW f, Flattens(f, s), NEW g, Flattens(g, t),
         NEW n \in 1..Len(s), n <= Len(t), \A i \in 1..n : s[i] = t[i]
  PROVE  f[n] = g[n]
<1>. DEFINE Bad == {m \in 1..n : f[m] # g[m]}
<1>1. Len(s) \in Nat /\ Len(t) \in Nat /\ n \in Nat
  OBVIOUS
<1>2. /\ \A i \in 1..Len(s) : f[i] = IF i = 1 THEN s[i] ELSE f[i - 1] \o s[i]
      /\ \A i \in 1..Len(t) : g[i] = IF i = 1 THEN t[i] ELSE g[i - 1] \o t[i]
  BY DEF Flattens
<1>3. SUFFICES ASSUME Bad # {} PROVE FALSE
  BY <1>1
<1>4. PICK m \in Bad : \A k \in Bad : m <= k
  <2>1. Bad \in SUBSET Nat
    OBVIOUS
  <2>. HIDE DEF Bad
  <2>. QED  BY <1>3, <2>1, LeastNatural
<1>5. m \in 1..n /\ m \in 1..Len(s) /\ m \in 1..Len(t) /\ s[m] = t[m] /\ f[m] # g[m]
  BY <1>1
<1>6. CASE m = 1
  BY <1>2, <1>5, <1>6
<1>7. CASE m # 1
  <2>1. m - 1 \in 1..n /\ ~(m <= m - 1)
    BY <1>5, <1>7
  <2>2. f[m - 1] = g[m - 1]
    BY <1>4, <2>1
  <2>3. f[m] = f[m - 1] \o s[m] /\ g[m] = g[m - 1] \o t[m]
    BY <1>2, <1>5, <1>7
  <2>. HIDE DEF Bad
  <2>. QED  BY <1>5, <2>2, <2>3
<1>. QED  BY <1>6, <1>7

LEMMA FlattenEmpty == FlattenSeq(<<>>) = <<>>
BY DEF FlattenSeq

\* One more sequence is put behind the others.
LEMMA FlattenAppend ==
  ASSUME NEW S, NEW s \in Seq(Seq(S)), NEW x \in Seq(S)
  PROVE  FlattenSeq(Append(s, x)) = FlattenSeq(s) \o x
<1>. DEFINE t == Append(s, x)
            n == Len(s)
<1>1. /\ t \in Seq(Seq(S)) /\ Len(t) = n + 1 /\ t[n + 1] = x /\ n \in Nat
      /\ \A i \in 1..n : t[i] = s[i]
  OBVIOUS
<1>. HIDE DEF t
<1>2. PICK g : Flattens(g, t) /\ FlattenSeq(t) = g[n + 1]
  BY <1>1, FlattenIs
<1>. HIDE DEF n
<1>3. /\ n + 1 = 1 => g[n + 1] = x
      /\ n + 1 # 1 => g[n + 1] = g[n] \o x
  <2>1. PICK k \in 1..Len(t) : k = n + 1
    BY <1>1
  <2>2. \A i \in 1..Len(t) : g[i] = IF i = 1 THEN t[i] ELSE g[i - 1] \o t[i]
    BY <1>2 DEF Flattens
  <2>3. g[k] = IF k = 1 THEN t[k] ELSE g[k - 1] \o t[k]
    BY <2>2, Zenon
  <2>4. t[k] = x /\ k - 1 = n
    BY <1>1, <2>1
  <2>. QED  BY <2>1, <2>3, <2>4, Zenon
<1>4. CASE n = 0
  <2>1. s = <<>> /\ FlattenSeq(s) = <<>>
    BY <1>4, FlattenEmpty DEF n
  <2>2. g[n + 1] = x
    BY <1>3, <1>4
  <2>3. <<>> \o x = x
    BY ConcatEmptySeq
  <2>. QED  BY <1>2, <2>1, <2>2, <2>3 DEF t
<1>5. CASE n # 0
  <2>1. PICK f : Flattens(f, s) /\ FlattenSeq(s) = f[n]
    BY <1>5, FlattenIs DEF n
  <2>2. n \in 1..Len(s) /\ n <= Len(t)
    BY <1>1, <1>5 DEF n
  <2>3. f[n] = g[n]
    <3>. DEFINE T == Seq(S)
    <3>1. s \in Seq(T) /\ t \in Seq(T) /\ \A i \in 1..n : s[i] = t[i]
      BY <1>1
    <3>2. Flattens(f, s) /\ Flattens(g, t)
      BY <1>2, <2>1
    <3>. HIDE DEF T
    <3>. QED  BY <2>2, <3>1, <3>2, FlattensAgree
  <2>4. n + 1 # 1
    BY <1>1, <1>5
  <2>5. g[n + 1] = g[n] \o x
    BY <1>3, <2>4, Zenon
  <2>. QED  BY <1>2, <2>1, <2>3, <2>5, Zenon DEF t
<1>. QED  BY <1>4, <1>5

\* Joined sequences are a sequence.
LEMMA FlattenType ==
  ASSUME NEW S, NEW s \in Seq(Seq(S))
  PROVE  FlattenSeq(s) \in Seq(S)
<1>. DEFINE Bad == {n \in Nat : \E x \in Seq(Seq(S)) : Len(x) = n /\ FlattenSeq(x) \notin Seq(S)}
<1>1. SUFFICES ASSUME Bad # {} PROVE FALSE
  OBVIOUS
<1>2. PICK n \in Bad : \A k \in Bad : n <= k
  <2>1. Bad \in SUBSET Nat
    OBVIOUS
  <2>. HIDE DEF Bad
  <2>. QED  BY <1>1, <2>1, LeastNatural
<1>3. PICK x \in Seq(Seq(S)) : Len(x) = n /\ FlattenSeq(x) \notin Seq(S)
  OBVIOUS
<1>4. x # <<>>
  BY <1>3, FlattenEmpty
<1>5. PICK y \in Seq(Seq(S)), z \in Seq(S) : x = Append(y, z)
  BY <1>4, SequenceEmptyOrAppend
<1>6. Len(y) \in Nat /\ ~(n <= Len(y))
  BY <1>3, <1>5
<1>7. FlattenSeq(y) \in Seq(S)
  BY <1>2, <1>6
<1>8. FlattenSeq(x) = FlattenSeq(y) \o z
  BY <1>5, FlattenAppend
<1>. QED  BY <1>3, <1>7, <1>8

LEMMA ConcatAppend ==
  ASSUME NEW S, NEW s \in Seq(S), NEW t \in Seq(S), NEW x \in S
  PROVE  s \o Append(t, x) = Append(s \o t, x) /\ s \o t \in Seq(S)
<1>1. s \o t \in Seq(S)
  BY ConcatProperties
<1>2. Append(t, x) = t \o <<x>> /\ Append(s \o t, x) = (s \o t) \o <<x>>
  BY <1>1, AppendIsConcat
<1>3. <<x>> \in Seq(S)
  OBVIOUS
<1>4. (s \o t) \o <<x>> = s \o (t \o <<x>>)
  BY <1>3, ConcatAssociative
<1>. QED  BY <1>1, <1>2, <1>4, Zenon

LEMMA FlattenOneMore ==
  ASSUME NEW S, NEW s \in Seq(Seq(S)), NEW t \in Seq(Seq(S)), NEW x \in Seq(S),
         FlattenSeq(s \o t) = FlattenSeq(s) \o FlattenSeq(t)
  PROVE  FlattenSeq(s \o Append(t, x)) = FlattenSeq(s) \o FlattenSeq(Append(t, x))
<1>. DEFINE a == FlattenSeq(s)
            b == FlattenSeq(t)
<1>1. a \in Seq(S) /\ b \in Seq(S)
  BY FlattenType
<1>2. s \o Append(t, x) = Append(s \o t, x) /\ s \o t \in Seq(Seq(S))
  BY ConcatAppend
<1>3. FlattenSeq(Append(s \o t, x)) = (a \o b) \o x
  BY <1>2, FlattenAppend
<1>4. FlattenSeq(Append(t, x)) = b \o x
  BY FlattenAppend
<1>. HIDE DEF a, b
<1>5. (a \o b) \o x = a \o (b \o x)
  BY <1>1, ConcatAssociative
<1>. QED  BY <1>2, <1>3, <1>4, <1>5, Zenon DEF a

\* What is joined may be cut into two parts anywhere.
LEMMA FlattenConcat ==
  ASSUME NEW S, NEW s \in Seq(Seq(S)), NEW t \in Seq(Seq(S))
  PROVE  FlattenSeq(s \o t) = FlattenSeq(s) \o FlattenSeq(t)
<1>. DEFINE Apart(x) == FlattenSeq(s \o x) # FlattenSeq(s) \o FlattenSeq(x)
            Bad == {n \in Nat : \E x \in Seq(Seq(S)) : Len(x) = n /\ Apart(x)}
<1>1. SUFFICES ASSUME Bad # {} PROVE FALSE
  <2>1. SUFFICES ASSUME Apart(t) PROVE Len(t) \in Bad
    BY Zenon
  <2>2. Len(t) \in Nat
    OBVIOUS
  <2>. QED  BY <2>1, <2>2, Zenon
<1>2. \E n \in Bad : \A k \in Bad : n <= k
  <2>1. Bad \in SUBSET Nat
    OBVIOUS
  <2>. HIDE DEF Bad
  <2>. QED  BY <1>1, <2>1, LeastNatural
<1>3. ~Apart(<<>>)
  <2>1. FlattenSeq(s) \in Seq(S)
    BY FlattenType
  <2>2. s \o <<>> = s /\ FlattenSeq(s) \o <<>> = FlattenSeq(s)
    BY <2>1, ConcatEmptySeq
  <2>. QED  BY <2>2, FlattenEmpty
<1>4. \A y \in Seq(Seq(S)), z \in Seq(S) : ~Apart(y) => ~Apart(Append(y, z))
  BY FlattenOneMore
<1>. HIDE DEF Apart
<1>5. PICK n \in Nat, x \in Seq(Seq(S)) :
         Len(x) = n /\ Apart(x) /\ \A y \in Seq(Seq(S)) : Apart(y) => n <= Len(y)
  <2>1. \A y \in Seq(Seq(S)) : Apart(y) => Len(y) \in Bad
    OBVIOUS
  <2>. QED  BY <1>2, <2>1
<1>6. PICK y \in Seq(Seq(S)), z \in Seq(S) : x = Append(y, z)
  BY <1>3, <1>5, SequenceEmptyOrAppend
<1>7. Len(y) \in Nat /\ ~(n <= Len(y))
  BY <1>5, <1>6
<1>. QED  BY <1>4, <1>5, <1>6, <1>7

(***************************************************************************)
(* The context of an occurrence.                                           *)
(***************************************************************************)
LEMMA JoinedIs ==
  ASSUME corpus \in Seq(Seq(Texts)), NEW d \in DOMAIN corpus, NEW from \in Nat \ {0}, NEW to \in Nat,
         from <= to + 1, to <= Len(corpus[d])
  PROVE  /\ SubSeq(corpus[d], from, to) \in Seq(Texts) /\ Len(SubSeq(corpus[d], from, to)) = to + 1 - from
         /\ \A k \in 1..(to + 1 - from) : SubSeq(corpus[d], from, to)[k] = corpus[d][from + k - 1]
         /\ Joined(d, from, to) = FlattenSeq(SubSeq(corpus[d], from, to))
         /\ Joined(d, from, to) \in Texts
<1>. DEFINE q == corpus[d]
            part == SubSeq(q, from, to)
            n == to + 1 - from
            own == [k \in 1..n |-> q[from + k - 1]]
<1>1. q \in Seq(Texts) /\ Len(q) \in Nat /\ n \in Nat
  OBVIOUS
<1>. HIDE DEF q
<1>2. \A k \in from..to : q[k] \in Texts
  BY <1>1 DEF q
<1>3. /\ part \in Seq(Texts) /\ Len(part) = n
      /\ \A k \in 1..n : part[k] = q[from + k - 1]
  <2>1. /\ part \in Seq(Texts) /\ Len(part) = IF from <= to THEN to - from + 1 ELSE 0
        /\ \A k \in 1..(to - from + 1) : part[k] = q[from + k - 1]
    BY <1>2, SubSeqProperties
  <2>2. to - from + 1 = n /\ (IF from <= to THEN to - from + 1 ELSE 0) = n
    OBVIOUS
  <2>. HIDE DEF part, n
  <2>. QED  BY <2>1, <2>2
<1>4. own \in Seq(Texts) /\ Len(own) = n
  <2>1. \A k \in 1..n : from + k - 1 \in from..to
    OBVIOUS
  <2>2. \A k \in 1..n : q[from + k - 1] \in Texts
    BY <1>2, <2>1
  <2>. HIDE DEF n
  <2>. QED  BY <1>1, <2>2
<1>5. own = part
  <2>1. \A k \in 1..Len(own) : own[k] = part[k]
    BY <1>3, <1>4
  <2>. HIDE DEF own, part, n
  <2>. QED  BY <1>3, <1>4, <2>1, SeqEqual
<1>6. Joined(d, from, to) = FlattenSeq(own)
  BY DEF Joined, q
<1>7. FlattenSeq(part) \in Texts
  <2>. HIDE DEF part
  <2>. QED  BY <1>3, FlattenType DEF Texts
<1>. QED  BY <1>3, <1>5, <1>6, <1>7, Zenon DEF q

LEMMA JoinedSplit ==
  ASSUME corpus \in Seq(Seq(Texts)), NEW d \in DOMAIN corpus, NEW from \in Nat \ {0}, NEW mid \in Nat, NEW to \in Nat,
         from <= mid + 1, mid <= to, to <= Len(corpus[d])
  PROVE  Joined(d, from, to) = Joined(d, from, mid) \o Joined(d, mid + 1, to)
<1>. DEFINE q == corpus[d]
            left == SubSeq(q, from, mid)
            right == SubSeq(q, mid + 1, to)
<1>0. q \in Seq(Texts) /\ Len(q) \in Nat
  OBVIOUS
<1>1. /\ left \in Seq(Texts) /\ right \in Seq(Texts)
      /\ Joined(d, from, mid) = FlattenSeq(left) /\ Joined(d, mid + 1, to) = FlattenSeq(right)
  BY JoinedIs
<1>2. Joined(d, from, to) = FlattenSeq(SubSeq(q, from, to))
  BY JoinedIs
<1>3. SubSeq(q, from, to) = left \o right
  <2>1. from \in 1..(Len(q) + 1) /\ mid \in (from - 1)..Len(q) /\ to \in mid..Len(q)
    BY <1>0
  <2>. HIDE DEF q
  <2>. QED  BY <1>0, <2>1, ConcatAdjacentSubSeq
<1>4. FlattenSeq(left \o right) = FlattenSeq(left) \o FlattenSeq(right)
  <2>. HIDE DEF left, right
  <2>. QED  BY <1>1, FlattenConcat DEF Texts
<1>. QED  BY <1>1, <1>2, <1>3, <1>4, Zenon

\* A chunk is one of a document, and a text.
LEMMA ChunkAt ==
  ASSUME corpus \in Seq(Seq(Texts)), NEW c \in Chunks
  PROVE  /\ c[1] \in DOMAIN corpus /\ corpus[c[1]] \in Seq(Texts) /\ Len(corpus[c[1]]) \in Nat
         /\ c[2] \in 1..Len(corpus[c[1]]) /\ Text(c) \in Texts /\ c = <<c[1], c[2]>>
<1>1. PICK d \in DOMAIN corpus : c \in {d} \X DOMAIN corpus[d]
  BY DEF Chunks
<1>2. c[1] = d /\ c[2] \in DOMAIN corpus[d] /\ c = <<c[1], c[2]>>
  BY <1>1
<1>3. corpus[d] \in Seq(Texts)
  OBVIOUS
<1>4. DOMAIN corpus[d] = 1..Len(corpus[d]) /\ Len(corpus[d]) \in Nat
  BY <1>3
<1>5. corpus[d][c[2]] \in Texts
  BY <1>2, <1>3, <1>4
<1>. QED  BY <1>2, <1>3, <1>4, <1>5 DEF Text

LEMMA ChunksAre ==
  ASSUME corpus \in Seq(Seq(Texts)), NEW d \in DOMAIN corpus, NEW k \in 1..Len(corpus[d])
  PROVE  <<d, k>> \in Chunks
BY DEF Chunks

\* Where the walk back stops: at the nearest chunk before that ends a sentence, or at the start.
LEMMA BackToAt ==
  ASSUME corpus \in Seq(Seq(Texts)), NEW c \in Chunks, NEW i
  PROVE  /\ BackTo(c, i) \in 1..c[2]
         /\ Occurs(Stops, Own(c, i)) \/ BackTo(c, i) = 1 \/ Occurs(Stops, corpus[c[1]][BackTo(c, i)])
         /\ ~Occurs(Stops, Own(c, i)) => BackTo(c, i) = 1 \/ BackTo(c, i) < c[2]
<1>. DEFINE n == c[2]
            T == {k \in 1..(n - 1) : Occurs(Stops, corpus[c[1]][k])}
<1>1. n \in Nat /\ n > 0
  BY ChunkAt
<1>2. CASE Occurs(Stops, Own(c, i))
  BY <1>1, <1>2 DEF BackTo
<1>3. CASE ~Occurs(Stops, Own(c, i))
  <2>1. Min({1, n}) = 1
    <3>. HIDE DEF n
    <3>1. {1, n} \in SUBSET Nat /\ {1, n} # {}
      BY <1>1
    <3>2. Min({1, n}) \in {1, n} /\ \A m \in {1, n} : Min({1, n}) <= m
      BY <3>1, LeastIsMin
    <3>. QED  BY <1>1, <3>2
  <2>2. BackTo(c, i) = Max(T \cup {1})
    BY <1>3, <2>1, Zenon DEF BackTo
  <2>3. /\ Max(T \cup {1}) \in T \cup {1}
    <3>1. T \cup {1} \in SUBSET Nat /\ 1 \in T \cup {1} /\ \A m \in T \cup {1} : m <= n
      BY <1>1
    <3>. HIDE DEF T, n
    <3>. QED  BY <1>1, <3>1, GreatestIsMax
  <2>. DEFINE b == BackTo(c, i)
  <2>4. b \in T \/ b = 1
    BY <2>2, <2>3, Zenon
  <2>5. b \in T => b \in 1..(n - 1) /\ Occurs(Stops, corpus[c[1]][b])
    OBVIOUS
  <2>. HIDE DEF b, T
  <2>6. b \in 1..n /\ (b = 1 \/ Occurs(Stops, corpus[c[1]][b])) /\ (b = 1 \/ b < n)
    BY <1>1, <2>4, <2>5
  <2>. QED  BY <1>3, <2>6 DEF b
<1>. QED  BY <1>2, <1>3

\* The whole document is open, or all of it is.
AllOpen(c, open) == \A k \in 1..Len(corpus[c[1]]) : <<c[1], k>> \in open

LEMMA AllOpenIsComplete ==
  ASSUME corpus \in Seq(Seq(Texts)), NEW c \in Chunks, NEW i, NEW open, AllOpen(c, open)
  PROVE  Complete(c, i, open)
<1>. DEFINE n == Len(corpus[c[1]])
            b == BackTo(c, i)
            back == {k \in b..c[2] : \A j \in k..(c[2] - 1) : <<c[1], j>> \in open}
            on == {k \in c[2]..n : \A j \in (c[2] + 1)..k : <<c[1], j>> \in open}
<1>1. n \in Nat /\ c[2] \in 1..n /\ b \in 1..c[2] /\ \A k \in 1..n : <<c[1], k>> \in open
  BY ChunkAt, BackToAt DEF AllOpen
<1>2. ReachBack(c, i, open) = Min(back) /\ ReachOn(c, open) = Max(on)
  BY DEF ReachBack, ReachOn
<1>. HIDE DEF n, b
<1>3. b \in back /\ back \subseteq b..c[2] /\ n \in on /\ on \subseteq c[2]..n
  BY <1>1
<1>. HIDE DEF back, on
<1>4. Min(back) = b
  <2>1. back \in SUBSET Nat /\ back # {}
    BY <1>1, <1>3
  <2>. DEFINE f == Min(back)
  <2>2. f \in back /\ \A m \in back : f <= m
    BY <2>1, LeastIsMin
  <2>. HIDE DEF f
  <2>3. f \in b..c[2] /\ f <= b
    BY <1>3, <2>2
  <2>4. f = b
    BY <1>1, <2>3
  <2>. QED  BY <2>4 DEF f
<1>5. Max(on) = n
  <2>1. on \in SUBSET Nat /\ \A m \in on : m <= n
    BY <1>1, <1>3
  <2>. DEFINE f == Max(on)
  <2>2. f \in on /\ \A m \in on : m <= f
    BY <1>1, <1>3, <2>1, GreatestIsMax
  <2>. HIDE DEF f
  <2>3. f \in c[2]..n /\ n <= f
    BY <1>3, <2>2
  <2>4. f = n
    BY <1>1, <2>3
  <2>. QED  BY <2>4 DEF f
<1>. QED  BY <1>2, <1>4, <1>5 DEF Complete, n, b

\* What a context is as a whole.
Whole(c, i) ==
    LET back == Joined(c[1], BackTo(c, i), c[2] - 1) \o Own(c, i)
    IN [before |-> Behind(back, LastStop(back)),
        after  |-> Behind(Text(c), i) \o Joined(c[1], c[2] + 1, Len(corpus[c[1]]))]

LEMMA CompleteIsWhole ==
  ASSUME NEW c, NEW i, NEW open, Complete(c, i, open)
  PROVE  Context(c, i, open) = Whole(c, i)
BY DEF Complete, Context, Whole

LEMMA WholeTyped ==
  ASSUME corpus \in Seq(Seq(Texts)), NEW c \in Chunks, NEW i \in 1..Len(Text(c))
  PROVE  /\ Joined(c[1], BackTo(c, i), c[2] - 1) \in Texts /\ Own(c, i) \in Texts
         /\ Behind(Text(c), i) \in Texts /\ Joined(c[1], c[2] + 1, Len(corpus[c[1]])) \in Texts
         /\ Between(Whole(c, i))
<1>. DEFINE n == Len(corpus[c[1]])
            joined == Joined(c[1], BackTo(c, i), c[2] - 1)
            behind == Joined(c[1], c[2] + 1, n)
            back == joined \o Own(c, i)
<1>1. c[1] \in DOMAIN corpus /\ n \in Nat /\ c[2] \in 1..n /\ Text(c) \in Texts /\ BackTo(c, i) \in 1..c[2]
  BY ChunkAt, BackToAt
<1>2. joined \in Texts /\ behind \in Texts
  <2>. DEFINE b == BackTo(c, i)
  <2>1. b \in Nat \ {0} /\ c[2] - 1 \in Nat /\ b <= c[2] - 1 + 1 /\ c[2] - 1 <= n
    BY <1>1
  <2>2. c[2] + 1 \in Nat \ {0} /\ c[2] + 1 <= n + 1 /\ n <= n
    BY <1>1
  <2>3. joined \in Texts
    BY <1>1, <2>1, JoinedIs
  <2>4. behind \in Texts
    BY <1>1, <2>2, JoinedIs
  <2>. QED  BY <2>3, <2>4
<1>3. Own(c, i) \in Texts /\ Behind(Text(c), i) \in Texts
  BY <1>1, BeforeAt, BehindAt DEF Own, Texts
<1>. HIDE DEF joined, behind
<1>4. back \in Texts /\ Behind(Text(c), i) \o behind \in Texts
  BY <1>2, <1>3, ConcatProperties DEF Texts
<1>5. Behind(back, LastStop(back)) \in Texts
  <2>. HIDE DEF back
  <2>1. LastStop(back) \in 0..Len(back)
    BY <1>4, LastStopAt
  <2>. QED  BY <1>4, <2>1, BehindAt DEF Texts
<1>6. Between(Whole(c, i))
  BY <1>4, <1>5 DEF Between, Whole, joined, behind
<1>. QED  BY <1>2, <1>3, <1>6 DEF joined, behind

(***************************************************************************)
(* A probe in which nothing failed says what the corpus says.              *)
(***************************************************************************)
\* When there is no link left to follow, a document is open as a whole or not at all.
LEMMA ClosedIsWhole ==
  ASSUME corpus \in Seq(Seq(Texts)), opened \subseteq Chunks, Frontier = {}, NEW c \in opened
  PROVE  AllOpen(c, opened)
<1>. DEFINE d == c[1]
            n == Len(corpus[d])
            Shut(k) == <<d, k>> \notin opened
            Above == {k \in Nat : c[2] + k <= n /\ Shut(c[2] + k)}
            Below == {k \in Nat : k < c[2] /\ Shut(c[2] - k)}
<1>1. c \in Chunks /\ n \in Nat /\ c[2] \in 1..n /\ c = <<d, c[2]>> /\ d \in DOMAIN corpus
  BY ChunkAt
<1>2. \A k \in 1..n : <<d, k>> \in Chunks
  BY <1>1, ChunksAre
<1>3. ASSUME NEW k \in 1..n, NEW j \in 1..n, ~Shut(k), j = k + 1 \/ j + 1 = k PROVE ~Shut(j)
  <2>1. <<d, j>> \in Linked(<<d, k>>)
    BY <1>2, <1>3 DEF Linked
  <2>2. <<d, j>> \in UNION {Linked(x) : x \in opened}
    BY <1>3, <2>1
  <2>3. \A e : e \in UNION {Linked(x) : x \in opened} => e \in opened
    BY Zenon DEF Frontier
  <2>. QED  BY <2>2, <2>3, Zenon
<1>4. ~Shut(c[2])
  BY <1>1
<1>. HIDE DEF Shut, n, d
<1>5. Above = {}
  <2>1. SUFFICES ASSUME Above # {} PROVE FALSE
    OBVIOUS
  <2>2. PICK k \in Above : \A m \in Above : k <= m
    <3>1. Above \in SUBSET Nat
      OBVIOUS
    <3>. HIDE DEF Above
    <3>. QED  BY <2>1, <3>1, LeastNatural
  <2>3. k # 0
    BY <1>1, <1>4
  <2>4. k - 1 \in Nat /\ ~(k <= k - 1) /\ c[2] + (k - 1) <= n
    BY <1>1, <2>3
  <2>5. ~Shut(c[2] + (k - 1))
    BY <2>2, <2>4
  <2>6. c[2] + k \in 1..n /\ c[2] + (k - 1) \in 1..n /\ c[2] + k = c[2] + (k - 1) + 1
    BY <1>1, <2>3
  <2>7. ~Shut(c[2] + k)
    BY <1>3, <2>5, <2>6
  <2>. QED  BY <2>7
<1>6. Below = {}
  <2>1. SUFFICES ASSUME Below # {} PROVE FALSE
    OBVIOUS
  <2>2. PICK k \in Below : \A m \in Below : k <= m
    <3>1. Below \in SUBSET Nat
      OBVIOUS
    <3>. HIDE DEF Below
    <3>. QED  BY <2>1, <3>1, LeastNatural
  <2>3. k # 0
    BY <1>1, <1>4
  <2>4. k - 1 \in Nat /\ ~(k <= k - 1) /\ k - 1 < c[2]
    BY <1>1, <2>3
  <2>5. ~Shut(c[2] - (k - 1))
    BY <2>2, <2>4
  <2>6. c[2] - k \in 1..n /\ c[2] - (k - 1) \in 1..n /\ c[2] - k + 1 = c[2] - (k - 1)
    BY <1>1, <2>3
  <2>7. ~Shut(c[2] - k)
    BY <1>3, <2>5, <2>6
  <2>. QED  BY <2>7
<1>7. ASSUME NEW k \in 1..n PROVE ~Shut(k)
  <2>1. CASE k >= c[2]
    <3>1. k - c[2] \in Nat /\ c[2] + (k - c[2]) = k /\ k <= n
      BY <1>1, <2>1
    <3>. QED  BY <1>5, <3>1
  <2>2. CASE ~(k >= c[2])
    <3>1. c[2] - k \in Nat /\ c[2] - (c[2] - k) = k /\ c[2] - k < c[2]
      BY <1>1, <2>2
    <3>. QED  BY <1>6, <3>1
  <2>. QED  BY <2>1, <2>2
<1>. QED  BY <1>7 DEF AllOpen, Shut, n, d

\* A mention is in a chunk with the phrase.
LEMMA MentionAt ==
  ASSUME corpus \in Seq(Seq(Texts)), NEW open \in SUBSET Chunks, NEW m \in Mentions(open)
  PROVE  /\ m[1] \in open /\ m[1] \in Chunks /\ m[2] \in 1..Len(Text(m[1])) /\ Text(m[1])[m[2]] = "metric"
         /\ m[1] \in Matching /\ m = <<m[1], m[2]>>
<1>0. PICK c \in open : m \in {<<c, i>> : i \in {j \in DOMAIN Text(c) : Text(c)[j] = "metric"}}
  BY DEF Mentions
<1>1. PICK i \in DOMAIN Text(c) : m = <<c, i>> /\ Text(c)[i] = "metric"
  BY <1>0
<1>2. c \in Chunks /\ Text(c) \in Texts
  BY ChunkAt
<1>3. DOMAIN Text(c) = 1..Len(Text(c))
  BY <1>2 DEF Texts
<1>4. c \in Matching
  BY <1>1, <1>2 DEF Matching, Has, Occurs, Positions
<1>. QED  BY <1>1, <1>2, <1>3, <1>4

LEMMA MentionsAre ==
  ASSUME corpus \in Seq(Seq(Texts)), NEW open, NEW c \in open, NEW i \in 1..Len(Text(c)),
         c \in Chunks, Text(c)[i] = "metric"
  PROVE  <<c, i>> \in Mentions(open) /\ c \in Matching
<1>1. Text(c) \in Texts
  BY ChunkAt
<1>2. i \in DOMAIN Text(c)
  BY <1>1 DEF Texts
<1>3. c \in Matching
  BY <1>2 DEF Matching, Has, Occurs, Positions
<1>. QED  BY <1>2, <1>3 DEF Mentions

\* An excerpt is a context cut on either side.
LEMMA ExcerptIsCut ==
  ASSUME NEW c, NEW o, Between(o)
  PROVE  Cut(Excerpt(c, o), o) /\ Excerpt(c, o).chunk = c
<1>. DEFINE b == o.before
            a == o.after
            f == Max({1, Len(b) + 1 - Window})
            g == Min({Window, Len(a)})
            x == SubSeq(b, f, Len(b))
            y == SubSeq(a, 1, g)
            e == Excerpt(c, o)
<1>1. b \in Seq(Tokens) /\ a \in Seq(Tokens) /\ Len(b) \in Nat /\ Len(a) \in Nat /\ Window \in Nat
  BY ProbeAssumption DEF Between, Texts
<1>. HIDE DEF a, b
<1>2. f \in 1..(Len(b) + 1)
  <2>. DEFINE T == {1, Len(b) + 1 - Window}
  <2>1. CASE Len(b) + 1 - Window \in Nat
    <3>1. T \in SUBSET Nat /\ 1 \in T /\ Len(b) + 1 \in Nat /\ \A m \in T : m <= Len(b) + 1
      BY <1>1, <2>1
    <3>2. Max(T) \in T /\ \A m \in T : m <= Max(T)
      <4>. HIDE DEF T
      <4>. QED  BY <3>1, GreatestIsMax
    <3>. HIDE DEF f
    <3>3. f \in T /\ 1 <= f
      BY <3>2 DEF f
    <3>. QED  BY <1>1, <3>1, <3>3
  <2>2. CASE Len(b) + 1 - Window \notin Nat
    <3>1. \A z \in T : z = 1 \/ z = Len(b) + 1 - Window
      OBVIOUS
    <3>2. 1 >= Len(b) + 1 - Window /\ Len(b) + 1 - Window # 1 /\ ~(Len(b) + 1 - Window >= 1)
      BY <1>1, <2>2
    <3>3. \E z \in T : \A w \in T : z >= w
      BY <3>2
    <3>4. Max(T) \in T /\ \A w \in T : Max(T) >= w
      BY <3>3 DEF Max
    <3>5. Max(T) = 1
      BY <3>2, <3>4
    <3>. QED  BY <1>1, <3>5
  <2>. QED  BY <2>1, <2>2
<1>3. g \in 0..Len(a)
  <2>. DEFINE T == {Window, Len(a)}
  <2>1. T \in SUBSET Nat /\ T # {}
    BY <1>1
  <2>2. Min(T) \in T /\ \A m \in T : Min(T) <= m
    <3>. HIDE DEF T
    <3>. QED  BY <2>1, LeastIsMin
  <2>3. g \in T /\ g <= Len(a)
    BY <2>2
  <2>. HIDE DEF g
  <2>. QED  BY <1>1, <2>1, <2>3
<1>. HIDE DEF f, g
<1>4. x \in Seq(Tokens) /\ Len(x) = Len(b) + 1 - f /\ \A k \in 1..Len(x) : x[k] = b[f + k - 1]
  BY <1>1, <1>2
<1>5. y \in Seq(Tokens) /\ Len(y) = g /\ \A k \in 1..Len(y) : y[k] = a[k]
  BY <1>1, <1>3
<1>6. e.before = x /\ e.after = y /\ e.chunk = c
  BY DEF Excerpt, x, y, f, g, a, b
<1>. HIDE DEF x, y, e
<1>7. Closes(x, b)
  <2>1. Len(x) <= Len(b) /\ Len(b) - Len(x) = f - 1
    BY <1>1, <1>2, <1>4
  <2>2. \A k \in 1..Len(x) : Len(b) - Len(x) + k = f + k - 1
    BY <1>2, <1>4, <2>1
  <2>. QED  BY <1>4, <2>1, <2>2 DEF Closes
<1>8. Begins(y, a)
  BY <1>1, <1>3, <1>5 DEF Begins
<1>. QED  BY <1>1, <1>4, <1>5, <1>6, <1>7, <1>8 DEF Cut, Between, Texts, a, b, e

\* The record of a probe that found all and followed every link is complete, and needs review
\* exactly if the whole contexts do.
LEMMA CompleteRecord ==
  ASSUME ProbeInv, ~limited, candidates \subseteq opened, Frontier = {}, scan.status = "complete"
  PROVE  /\ Contexts(opened) = InFull /\ Coverage(Record)
         /\ NeedsReview(Record) <=> \E o \in InFull : Evidence(o) \/ Unknown(o)
<1>1. /\ corpus \in Seq(Seq(Texts)) /\ opened \subseteq Chunks /\ scan = ScanOutcome /\ scan.chunks \subseteq candidates
      /\ searches \in Seq([completed : BOOLEAN, results : SUBSET candidates])
  BY Zenon DEF ProbeInv
<1>2. scan.chunks = Matching
  BY <1>1 DEF ScanOutcome
<1>3. \A c \in opened : AllOpen(c, opened)
  BY <1>1, ClosedIsWhole
<1>4. \A c \in Chunks : AllOpen(c, Chunks)
  BY <1>1, ChunkAt, ChunksAre DEF AllOpen
<1>5. Mentions(opened) = Mentions(Chunks)
  <2>1. ASSUME NEW m \in Mentions(opened) PROVE m \in Mentions(Chunks)
    <3>1. m[1] \in Chunks /\ m[2] \in 1..Len(Text(m[1])) /\ Text(m[1])[m[2]] = "metric" /\ m = <<m[1], m[2]>>
      BY <1>1, MentionAt
    <3>2. <<m[1], m[2]>> \in Mentions(Chunks)
      BY <1>1, <3>1, MentionsAre
    <3>. QED  BY <3>1, <3>2, Zenon
  <2>2. ASSUME NEW m \in Mentions(Chunks) PROVE m \in Mentions(opened)
    <3>1. m[1] \in opened /\ m[1] \in Chunks /\ m[2] \in 1..Len(Text(m[1])) /\ Text(m[1])[m[2]] = "metric" /\ m = <<m[1], m[2]>>
      BY <1>1, <1>2, MentionAt
    <3>2. <<m[1], m[2]>> \in Mentions(opened)
      BY <1>1, <3>1, MentionsAre
    <3>. QED  BY <3>1, <3>2, Zenon
  <2>. QED  BY <2>1, <2>2
<1>6. ASSUME NEW m \in Mentions(opened)
      PROVE  /\ Complete(m[1], m[2], opened) /\ Context(m[1], m[2], opened) = Whole(m[1], m[2])
             /\ Context(m[1], m[2], Chunks) = Whole(m[1], m[2]) /\ Between(Whole(m[1], m[2]))
             /\ m[1] \in opened
  <2>1. m[1] \in opened /\ m[1] \in Chunks /\ m[2] \in 1..Len(Text(m[1]))
    BY <1>1, MentionAt
  <2>2. Complete(m[1], m[2], opened) /\ Complete(m[1], m[2], Chunks)
    BY <1>1, <1>3, <1>4, <2>1, AllOpenIsComplete
  <2>3. Between(Whole(m[1], m[2]))
    BY <1>1, <2>1, WholeTyped
  <2>. QED  BY <2>1, <2>2, <2>3, CompleteIsWhole
<1>7. Contexts(opened) = InFull
  <2>1. \A m \in Mentions(opened) : Context(m[1], m[2], opened) = Context(m[1], m[2], Chunks)
    BY <1>6
  <2>. QED  BY <1>5, <2>1 DEF Contexts, InFull
<1>8. AllComplete(opened)
  BY <1>6 DEF AllComplete
<1>. DEFINE occ == Excerpts(opened)
<1>9. \A o \in occ : o.chunk \in opened /\ (Evidence(o) => \E f \in Contexts(opened) : Evidence(f))
  <2>1. SUFFICES ASSUME NEW m \in Mentions(opened), NEW o, o = Excerpt(m[1], Context(m[1], m[2], opened))
                 PROVE  o.chunk \in opened /\ (Evidence(o) => \E f \in Contexts(opened) : Evidence(f))
    BY DEF Excerpts
  <2>. DEFINE f == Context(m[1], m[2], opened)
  <2>2. Between(f) /\ f \in Contexts(opened) /\ m[1] \in opened
    BY <1>6 DEF Contexts
  <2>. HIDE DEF f
  <2>3. Cut(o, f) /\ o.chunk = m[1]
    BY <2>1, <2>2, ExcerptIsCut DEF f
  <2>. QED  BY <2>2, <2>3, CutEvidence
<1>10. \A c \in Matching : \E o \in occ : o.chunk = c
  <2>1. SUFFICES ASSUME NEW c \in Matching PROVE \E o \in occ : o.chunk = c
    OBVIOUS
  <2>2. c \in Chunks /\ c \in opened
    BY <1>1, <1>2 DEF Matching
  <2>3. PICK i \in DOMAIN Text(c) : Text(c)[i] = "metric"
    BY DEF Matching, Has, Occurs, Positions
  <2>4. <<c, i>> \in Mentions(opened)
    BY <2>2, <2>3 DEF Mentions
  <2>5. PICK m \in Mentions(opened) : m[1] = c
    BY <2>4
  <2>. DEFINE o == Excerpt(m[1], Context(m[1], m[2], opened))
  <2>6. o \in occ /\ o.chunk = c
    <3>1. o.chunk = m[1]
      BY DEF Excerpt
    <3>. QED  BY <2>5, <3>1 DEF Excerpts
  <2>. QED  BY <2>6
<1>11. Coverage(Record)
  <2>1. /\ Record.scanned /\ Record.candidates = opened /\ Record.opened = opened
        /\ Record.matching = Matching /\ Record.occurrences = occ /\ Record.searches = searches
    <3>1. candidates \cup opened = opened
      OBVIOUS
    <3>. QED  BY <1>2, <1>8, <3>1 DEF Record
  <2>2. ASSUME NEW i \in DOMAIN searches PROVE searches[i].results \subseteq opened
    <3>. DEFINE T == [completed : BOOLEAN, results : SUBSET candidates]
    <3>1. searches \in Seq(T)
      BY <1>1
    <3>2. searches[i] \in T
      <4>. HIDE DEF T
      <4>. QED  BY <3>1
    <3>. QED  BY <3>2
  <2>3. Matching \subseteq {o.chunk : o \in occ} /\ {o.chunk : o \in occ} \subseteq opened /\ Matching \subseteq opened
    <3>. HIDE DEF occ
    <3>. QED  BY <1>1, <1>2, <1>9, <1>10
  <2>. QED  BY <2>1, <2>2, <2>3, Zenon DEF Coverage
<1>12. NeedsReview(Record) <=> \E o \in InFull : Evidence(o) \/ Unknown(o)
  <2>1. /\ Record.occurrences = occ
        /\ Record.unresolved <=> \E o \in InFull : Unknown(o) \/ UnresolvedPredicate(o) \/ QualitativePredicate(o)
        /\ Record.values <=> \E o \in InFull : NumericCandidate(o)
    BY <1>7 DEF Record
  <2>2. (\E o \in occ : Evidence(o)) => \E f \in InFull : Evidence(f)
    <3>. HIDE DEF occ
    <3>. QED  BY <1>7, <1>9
  <2>3. NeedsReview(Record) => \E o \in InFull : Evidence(o) \/ Unknown(o)
    <3>. HIDE DEF occ
    <3>. QED  BY <2>1, <2>2, Zenon DEF NeedsReview, Evidence
  <2>4. (\E o \in InFull : Evidence(o) \/ Unknown(o)) => NeedsReview(Record)
    <3>. HIDE DEF occ
    <3>. QED  BY <2>1, Zenon DEF NeedsReview, Evidence
  <2>. QED  BY <2>3, <2>4
<1>. QED  BY <1>7, <1>11, <1>12

LEMMA ProbeIsJudged ==
  ASSUME ProbeInv, probe # NoProbe, SearchesComplete(probe.record), ~limited, scan.status = "complete"
  PROVE  probe.conclusion = Judged
<1>1. /\ probe = Concluded
      /\ limited \/ (candidates \subseteq opened /\ Frontier = {})
  BY Zenon DEF ProbeInv
<1>2. probe.record = Record /\ probe.conclusion = Derive(Record)
  BY <1>1 DEF Concluded
<1>3. Coverage(Record) /\ (NeedsReview(Record) <=> \E o \in InFull : Evidence(o) \/ Unknown(o))
  BY <1>1, CompleteRecord
<1>4. SearchesComplete(Record)
  BY <1>2
<1>. QED  BY <1>2, <1>3, <1>4, Zenon DEF Derive, Judged

LEMMA ProbeInvDecides == ProbeInv => ProbeDecides
<1>. SUFFICES ASSUME ProbeInv, phase = "concluded" PROVE
        /\ SearchesComplete(probe.record) /\ ~limited /\ scan.status = "complete" => probe.conclusion = Judged
        /\ DeriveAgain(probe.record, ScanOutcome) = probe.conclusion
  BY Zenon DEF ProbeDecides
<1>1. probe # NoProbe
  BY Zenon DEF ProbeInv
<1>. QED  BY <1>1, ProbeIsJudged, DerivedAgain

\* In every run, whatever the corpus, the ranking of the searches and the failures: a probe in which
\* nothing failed, and whose context fits, says of the corpus what its documents say read from end to
\* end; and the verifier, with the record and a scan that does not fail, comes to the conclusion of
\* the probe (absence.py:427-492, 627-782).
THEOREM ProbesDecide == Spec => []ProbeDecides
BY AlwaysProbeInv, ProbeInvDecides, PTL

(***************************************************************************)
(* The agreement of the authorities.                                       *)
(***************************************************************************)
LEMMA StatusIsNoAbsence ==
  ASSUME NEW claim, NEW docs
  PROVE  Status(claim, docs) # "not_found"
<1>1. \A values, seen : Relation(values, seen) \in {"date_variant", "conflict", "possible_conflict"}
  BY DEF Relation
<1>. QED  BY <1>1 DEF Status

LEMMA JudgementInit == Init => JudgementHolds
BY DEF Init, ProbeInit, JudgementHolds, Range

LEMMA JudgementNext == VerdictInv /\ JudgementHolds /\ [Next]_vars => JudgementHolds'
<1>. SUFFICES ASSUME VerdictInv, JudgementHolds, [Next]_vars PROVE JudgementHolds'
  OBVIOUS
<1>0. /\ phase = "idle" => probed \in {NoProbe, probe}
      /\ phase # "idle" => verdicts = <<>>
      /\ "not_found" \in Range(verdicts) => probe.conclusion = "not_found_in_probe"
      /\ outcome = "running" => verdicts = <<>>
  BY Zenon DEF JudgementHolds, VerdictInv
<1>1. Range(<<>>) = {}
  BY DEF Range
<1>2. ASSUME verdicts' = <<>>, phase' = "idle" => probed' \in {NoProbe, probe'} PROVE JudgementHolds'
  BY <1>1, <1>2 DEF JudgementHolds
<1>3. CASE StartProbe
  <2>1. verdicts' = verdicts /\ outcome = "running" /\ phase' = "searching"
    BY <1>3 DEF StartProbe, BeginProbe, claimVars
  <2>. QED  BY <1>0, <1>2, <2>1
<1>4. CASE ProbeStep
  <2>1. phase # "idle" /\ phase' # "idle" /\ verdicts' = verdicts
    BY <1>4 DEF ProbeStep, claimVars, Search, Scan, Open, Expand, Conclude, ReadFails
  <2>. QED  BY <1>0, <1>2, <2>1
<1>5. CASE KeepProbe
  <2>1. phase = "concluded" /\ verdicts' = verdicts /\ probed' = probe /\ probe' = probe
    BY <1>5 DEF KeepProbe
  <2>. QED  BY <1>0, <1>2, <2>1
<1>6. CASE Fail \/ VerifyRaises \/ UNCHANGED vars
  <2>1. UNCHANGED <<phase, probed, probe, verdicts>>
    BY <1>6 DEF Fail, VerifyRaises, probeVars, vars, claimVars
  <2>2. Range(verdicts)' = Range(verdicts)
    BY <2>1 DEF Range
  <2>. QED  BY <1>0, <2>1, <2>2, Zenon DEF JudgementHolds
<1>7. CASE Verify
  <2>1. phase = "idle" /\ UNCHANGED <<phase, probed, probe>>
    BY <1>7 DEF Verify
  <2>0. PICK failing : verdicts' = Verdicts(failing)
    BY <1>7 DEF Verify
  <2>2. ASSUME NEW i \in DOMAIN draft, NEW rescan, VerifyClaim(draft[i], probed, rescan) = "not_found"
        PROVE  probe.conclusion = "not_found_in_probe"
    <3>1. probed.conclusion = "not_found_in_probe"
      BY <2>2, StatusIsNoAbsence DEF VerifyClaim
    <3>2. probed # NoProbe
      BY <3>1 DEF NoProbe
    <3>. QED  BY <1>0, <2>1, <3>1, <3>2
  <2>3. "not_found" \in Range(verdicts') => probe.conclusion = "not_found_in_probe"
    BY <2>0, <2>2 DEF Range, Verdicts
  <2>. QED  BY <1>0, <2>1, <2>3 DEF JudgementHolds
<1>8. CASE Rehearse
  <2>1. verdicts' = <<>> /\ probed' = NoProbe
    BY <1>8 DEF Rehearse
  <2>. QED  BY <1>2, <2>1
<1>. QED  BY <1>3, <1>4, <1>5, <1>6, <1>7, <1>8 DEF Next

\* The verdict that a metric was not found is that of the last probe.
THEOREM JudgementInvariant == Spec => []JudgementHolds
<1>1. VerdictInv /\ JudgementHolds /\ [Next]_vars => VerdictInv' /\ JudgementHolds'
  BY VerdictNext, JudgementNext
<1>. QED  BY <1>1, VerdictInit, JudgementInit, PTL DEF Spec

\* A metric right behind which the text goes on as the binder would have it.
Speaks(t, m) ==
    /\ t[m] = "metric"
    /\ \/ m + 1 <= Len(t) /\ t[m + 1] = "stated"
       \/ m + 2 <= Len(t) /\ t[m + 1] = "is" /\ t[m + 2] \in Values

\* What the binder takes for a report goes on that way.
LEMMA BoundSpeaks ==
  ASSUME NEW o \in Observations, NEW a \in Texts, Binds(o, a)
  PROVE  \E m \in 1..Len(a) : Speaks(a, m)
<1>1. PICK b \in Positions(a, {"metric"}) \X Positions(a, {o.value}) :
         b[1] < b[2] /\ (SubSeq(a, b[1] + 1, b[2] - 1) = <<"is">> \/ NextSentence(SubSeq(a, b[1] + 1, b[2] - 1), o))
  BY DEF Binds, Bindings
<1>. DEFINE m == b[1]
            v == b[2]
            between == SubSeq(a, m + 1, v - 1)
<1>2. /\ a \in Seq(Tokens) /\ Len(a) \in Nat /\ m \in 1..Len(a) /\ v \in 1..Len(a) /\ m < v
      /\ a[m] = "metric" /\ a[v] = o.value /\ o.value \in Values
  <2>1. a \in Seq(Tokens) /\ Len(a) \in Nat /\ DOMAIN a = 1..Len(a)
    BY DEF Texts
  <2>2. o.value \in Values
    BY DEF Observations
  <2>. QED  BY <1>1, <2>1, <2>2 DEF Positions
<1>3. /\ between \in Seq(Tokens) /\ Len(between) = v - 1 - m
      /\ \A k \in 1..Len(between) : between[k] = a[m + k]
  <2>. HIDE DEF m, v
  <2>1. \A k \in (m + 1)..(v - 1) : a[k] \in Tokens
    BY <1>2
  <2>2. /\ between \in Seq(Tokens) /\ Len(between) = IF m + 1 <= v - 1 THEN v - 1 - (m + 1) + 1 ELSE 0
        /\ \A k \in 1..(v - 1 - (m + 1) + 1) : between[k] = a[m + 1 + k - 1]
    BY <1>2, <2>1, SubSeqProperties
  <2>3. Len(between) = v - 1 - m
    BY <1>2, <2>2
  <2>. HIDE DEF between
  <2>4. \A k \in 1..Len(between) : k \in 1..(v - 1 - (m + 1) + 1) /\ m + 1 + k - 1 = m + k
    BY <1>2, <2>3
  <2>. QED  BY <2>2, <2>3, <2>4
<1>4. between = <<"is">> \/ NextSentence(between, o)
  BY <1>1
<1>. HIDE DEF m, v, between
<1>5. CASE between = <<"is">>
  <2>1. Len(between) = 1 /\ between[1] = "is"
    BY <1>5
  <2>2. v = m + 2 /\ a[m + 1] = "is"
    <3>1. v - 1 - m = 1
      BY <1>3, <2>1
    <3>2. between[1] = a[m + 1]
      BY <1>3, <2>1
    <3>3. v \in Nat /\ m \in Nat
      BY <1>2
    <3>. QED  BY <2>1, <3>1, <3>2, <3>3
  <2>. QED  BY <1>2, <2>2 DEF Speaks
<1>6. CASE NextSentence(between, o)
  <2>. DEFINE T == Positions(between, {"."})
              stop == Min(T)
              said == Before(between, stop)
  <2>1. T # {} /\ \E x \in BOOLEAN : PositiveAntecedent(said, o.value, x)
    BY <1>6 DEF NextSentence, Occurs
  <2>2. stop \in 1..Len(between)
    <3>1. T \subseteq 1..Len(between)
      BY <1>3 DEF Positions
    <3>2. T \in SUBSET Nat
      BY <1>3, <3>1
    <3>. HIDE DEF T
    <3>3. Min(T) \in T
      BY <2>1, <3>2, LeastIsMin
    <3>. QED  BY <3>1, <3>3
  <2>. HIDE DEF T, stop
  <2>3. /\ Len(said) = stop - 1 /\ \A k \in 1..(stop - 1) : said[k] = between[k]
    <3>1. stop \in 1..(Len(between) + 1)
      BY <1>3, <2>2
    <3>. QED  BY <1>3, <3>1, BeforeAt
  <2>4. said = <<"stated">> \/ (Len(said) > 1 /\ said[1] = "is" /\ said[2] \in Values)
    BY <2>1 DEF PositiveAntecedent
  <2>. HIDE DEF said
  <2>5. \A k \in 1..(stop - 1) : said[k] = a[m + k] /\ m + k \in 1..Len(a)
    BY <1>2, <1>3, <2>2, <2>3
  <2>6. CASE said = <<"stated">>
    <3>1. Len(said) = 1 /\ said[1] = "stated"
      BY <2>6
    <3>2. 1 \in 1..(stop - 1)
      BY <2>2, <2>3, <3>1
    <3>3. a[m + 1] = "stated" /\ m + 1 \in 1..Len(a)
      BY <2>5, <3>1, <3>2
    <3>. QED  BY <1>2, <3>3 DEF Speaks
  <2>7. CASE Len(said) > 1 /\ said[1] = "is" /\ said[2] \in Values
    <3>1. 1 \in 1..(stop - 1) /\ 2 \in 1..(stop - 1)
      BY <1>3, <2>2, <2>3, <2>7
    <3>2. a[m + 1] = "is" /\ a[m + 2] \in Values /\ m + 2 \in 1..Len(a)
      BY <2>5, <2>7, <3>1
    <3>. QED  BY <1>2, <3>2 DEF Speaks
  <2>. QED  BY <2>4, <2>6, <2>7
<1>. QED  BY <1>4, <1>5, <1>6

\* An assertion stands in its chunk.
LEMMA AssertedAt ==
  ASSUME NEW text \in Texts, NEW r \in References, NEW p \in Candidates(r, text)
  PROVE  /\ Asserted(r, text, p) \in Texts /\ p[1] \in Nat /\ p[2] \in Nat
         /\ p[1] + p[2] + Len(Asserted(r, text, p)) <= Len(text)
         /\ \A k \in 1..Len(Asserted(r, text, p)) : Asserted(r, text, p)[k] = text[p[1] + p[2] + k]
<1>. DEFINE q == Quoted(r, text, p)
            a == Asserted(r, text, p)
            i == p[1]
            j == p[2]
            n == Len(r.quote)
            l == Len(r.assertion)
<1>1. text \in Seq(Tokens) /\ Len(text) \in Nat /\ n \in Nat /\ l \in Nat
  BY DEF Texts, References
<1>2. i \in 0..(Len(text) - n)
  BY DEF Candidates, Matches
<1>3. q \in Seq(Tokens) /\ Len(q) = n /\ \A k \in 1..n : q[k] = text[i + k]
  <2>1. q = SubSeq(text, i + 1, i + n)
    BY DEF Quoted, Found
  <2>. HIDE DEF q, i, n
  <2>. QED  BY <1>1, <1>2, <2>1
<1>4. j \in 0..(Len(q) - l)
  BY DEF Candidates, Matches, Quoted
<1>5. a \in Seq(Tokens) /\ Len(a) = l /\ \A k \in 1..l : a[k] = q[j + k]
  <2>1. a = SubSeq(q, j + 1, j + l)
    BY DEF Asserted, Found
  <2>. HIDE DEF q, a, j, l
  <2>. QED  BY <1>1, <1>3, <1>4, <2>1
<1>. HIDE DEF q, a, i, j, n, l
<1>6. i \in Nat /\ j \in Nat /\ i + j + l <= Len(text)
  BY <1>1, <1>2, <1>3, <1>4
<1>7. ASSUME NEW k \in 1..l PROVE a[k] = text[i + j + k]
  <2>1. j + k \in 1..n /\ i + (j + k) = i + j + k
    BY <1>1, <1>3, <1>4, <1>6
  <2>2. q[j + k] = text[i + (j + k)]
    BY <1>3, <2>1
  <2>. QED  BY <1>5, <2>1, <2>2
<1>8. /\ a \in Texts /\ i \in Nat /\ j \in Nat
      /\ i + j + Len(a) <= Len(text)
      /\ \A k \in 1..Len(a) : a[k] = text[i + j + k]
  BY <1>5, <1>6, <1>7 DEF Texts
<1>. QED  BY <1>8 DEF a, i, j

\* With the metric for its anchor, a reference gives the binder what the source says.
LEMMA AnchoredIsSame ==
  ASSUME NEW r, r.anchor = "metric", NEW a \in Texts
  PROVE  Anchored(r, a) = a
<1>1. a = [i \in DOMAIN a |-> a[i]]
  BY DEF Texts
<1>2. Anchored(r, a) = [i \in DOMAIN a |-> a[i]]
  BY DEF Anchored
<1>. QED  BY <1>1, <1>2

\* An observation is supported by a chunk that speaks of the metric.
LEMMA SupportedSpeaks ==
  ASSUME corpus \in Seq(Seq(Texts)), NEW o \in Observations, Supported(o, corpus)
  PROVE  \E c \in Chunks : \E m \in 1..Len(Text(c)) : Speaks(Text(c), m)
<1>1. PICK r \in o.evidence :
         /\ Resolves(r, corpus) /\ Sound(r, VerifyFor(r, o, TextOf(r, corpus)))
         /\ VerifyFor(r, o, TextOf(r, corpus)).bound
  BY DEF Supported
<1>. DEFINE c == r.chunk
            text == TextOf(r, corpus)
<1>2. r \in References /\ r.anchor = "metric"
  BY <1>1 DEF Observations, Sound
<1>3. c \in Chunks /\ Text(c) = text
  <2>1. c \in Nat \X Nat
    BY <1>2 DEF References
  <2>2. c = <<c[1], c[2]>> /\ c[1] \in DOMAIN corpus /\ c[2] \in DOMAIN corpus[c[1]]
    BY <1>1, <2>1 DEF Resolves
  <2>3. Text(c) = text
    BY DEF Text, TextOf
  <2>. HIDE DEF text, c
  <2>4. c \in {c[1]} \X DOMAIN corpus[c[1]]
    BY <2>2
  <2>5. c \in Chunks
    BY <2>2, <2>4, Zenon DEF Chunks
  <2>. QED  BY <2>3, <2>5
<1>4. text \in Texts
  BY <1>3, ChunkAt
<1>. HIDE DEF text, c
<1>5. PICK p \in Candidates(r, text) : Binds(o, Anchored(r, Asserted(r, text, p)))
  BY <1>1 DEF VerifyFor, Outcome, text
<1>. DEFINE a == Asserted(r, text, p)
<1>6. /\ a \in Texts /\ p[1] \in Nat /\ p[2] \in Nat /\ p[1] + p[2] + Len(a) <= Len(text)
      /\ \A k \in 1..Len(a) : a[k] = text[p[1] + p[2] + k]
  BY <1>2, <1>4, AssertedAt
<1>7. Binds(o, a)
  BY <1>2, <1>5, <1>6, AnchoredIsSame
<1>. HIDE DEF a
<1>8. PICK m \in 1..Len(a) : Speaks(a, m)
  BY <1>6, <1>7, BoundSpeaks
<1>. DEFINE s == p[1] + p[2]
<1>9. /\ s \in Nat /\ s + Len(a) <= Len(text) /\ Len(a) \in Nat /\ Len(text) \in Nat
      /\ \A k \in 1..Len(a) : a[k] = text[s + k]
  BY <1>4, <1>6 DEF Texts
<1>. HIDE DEF s
<1>10. s + m \in 1..Len(text) /\ Speaks(text, s + m)
  <2>1. text[s + m] = a[m] /\ s + m \in 1..Len(text)
    BY <1>9
  <2>2. m + 1 <= Len(a) => m + 1 \in 1..Len(a) /\ s + (m + 1) = s + m + 1 /\ s + m + 1 <= Len(text)
    BY <1>9
  <2>3. m + 2 <= Len(a) => m + 2 \in 1..Len(a) /\ s + (m + 2) = s + m + 2 /\ s + m + 2 <= Len(text) /\ m + 1 <= Len(a)
    BY <1>9
  <2>4. m + 1 <= Len(a) => text[s + m + 1] = a[m + 1]
    BY <1>9, <2>2
  <2>5. m + 2 <= Len(a) => text[s + m + 2] = a[m + 2]
    BY <1>9, <2>3
  <2>. QED  BY <1>8, <2>1, <2>2, <2>3, <2>4, <2>5 DEF Speaks
<1>. QED  BY <1>3, <1>10

\* The analysis of a mention that goes on that way finds evidence.
LEMMA SpeakingIsEvidence ==
  ASSUME corpus \in Seq(Seq(Texts)), NEW c \in Chunks, NEW m \in 1..Len(Text(c)), Speaks(Text(c), m)
  PROVE  Evidence(Whole(c, m))
<1>. DEFINE text == Text(c)
            o == Whole(c, m)
            after == o.after
            rest == Joined(c[1], c[2] + 1, Len(corpus[c[1]]))
<1>1. text \in Texts /\ Len(text) \in Nat /\ Behind(text, m) \in Texts /\ rest \in Texts /\ Between(o)
  BY ChunkAt, WholeTyped DEF Texts
<1>2. after = Behind(text, m) \o rest
  BY DEF Whole
<1>3. /\ Len(Behind(text, m)) = Len(text) - m /\ \A k \in 1..(Len(text) - m) : Behind(text, m)[k] = text[m + k]
  BY <1>1, BehindAt DEF Texts
<1>4. after \in Texts
  BY <1>1 DEF Between
<1>5. \A k \in 1..(Len(text) - m) : k \in 1..Len(after) /\ after[k] = text[m + k]
  <2>. HIDE DEF rest, text
  <2>. DEFINE b == Behind(text, m)
  <2>1. b \in Seq(Tokens) /\ rest \in Seq(Tokens) /\ Len(rest) \in Nat
    BY <1>1 DEF Texts
  <2>2. Len(b) = Len(text) - m /\ \A k \in 1..(Len(text) - m) : b[k] = text[m + k]
    BY <1>3
  <2>. HIDE DEF b
  <2>3. Len(b \o rest) = Len(b) + Len(rest) /\ \A k \in 1..Len(b) : (b \o rest)[k] = b[k]
    BY <2>1
  <2>4. after = b \o rest
    BY <1>2 DEF b
  <2>. HIDE DEF after
  <2>. QED  BY <1>1, <2>1, <2>2, <2>3, <2>4
<1>. HIDE DEF text, o, after
<1>6. CASE m + 1 <= Len(text) /\ text[m + 1] = "stated"
  <2>. DEFINE n == Len(o.before) + 1
  <2>1. 1 \in 1..Len(after) /\ after[1] = "stated"
    <3>1. 1 \in 1..(Len(text) - m)
      BY <1>1, <1>6
    <3>. QED  BY <1>5, <1>6, <3>1
  <2>2. /\ Said(o) \in Texts /\ Len(Said(o)) = n + Len(o.after) /\ Said(o)[n] = "metric"
        /\ \A k \in 1..Len(o.after) : Said(o)[n + k] = o.after[k]
    BY <1>1, SaidAt
  <2>3. n \in Nat /\ n > 0 /\ Len(o.after) \in Nat
    BY <1>1 DEF Between, Texts
  <2>. HIDE DEF n
  <2>4. Said(o)[n + 1] = "stated" /\ n \in 1..Len(Said(o)) /\ n + 1 \in 1..Len(Said(o))
    <3>1. 1 \in 1..Len(o.after) /\ o.after[1] = "stated"
      BY <2>1 DEF after
    <3>2. Said(o)[n + 1] = o.after[1]
      BY <2>2, <3>1
    <3>3. Len(o.after) > 0 /\ n \in 1..(n + Len(o.after)) /\ n + 1 \in 1..(n + Len(o.after))
      BY <2>3, <3>1
    <3>. QED  BY <2>2, <3>1, <3>2, <3>3
  <2>5. DOMAIN Said(o) = 1..Len(Said(o))
    BY <2>2 DEF Texts
  <2>6. n \in Positions(Said(o), {"metric", "is", "it", "stated"}) /\ n + 1 \in Positions(Said(o), {"metric", "is", "it", "stated"})
    BY <2>2, <2>4, <2>5 DEF Positions
  <2>7. (n + 1)..(n + 1 - 1) = {} /\ n < n + 1
    BY <2>3
  <2>8. UnresolvedPredicate(o)
    <3>. DEFINE said == Said(o)
                i == n + 1
    <3>1. said = o.before \o <<"metric">> \o o.after
      BY DEF Said
    <3>2. /\ n \in Positions(said, {"metric", "is", "it", "stated"}) /\ said[n] = "metric"
          /\ i \in Positions(said, {"metric", "is", "it", "stated"}) /\ said[i] = "stated"
          /\ n < i /\ \A j \in (n + 1)..(i - 1) : said[j] \in Plain
      BY <2>2, <2>4, <2>6, <2>7
    <3>. HIDE DEF said, i
    <3>. QED  BY <3>1, <3>2, Zenon DEF UnresolvedPredicate
  <2>. QED  BY <2>8 DEF Evidence, o
<1>7. CASE m + 2 <= Len(text) /\ text[m + 1] = "is" /\ text[m + 2] \in Values
  <2>1. 1 \in 1..Len(after) /\ after[1] = "is" /\ 2 \in 1..Len(after) /\ after[2] \in Values
    <3>1. 1 \in 1..(Len(text) - m) /\ 2 \in 1..(Len(text) - m)
      BY <1>1, <1>7
    <3>. QED  BY <1>5, <1>7, <3>1
  <2>2. \A k \in 1..(2 - 1) : after[k] \notin Stops
    BY <2>1 DEF Stops
  <2>3. 2 <= FirstStop(after)
    BY <1>4, <2>1, <2>2, FirstStopAt
  <2>4. 2 \in DOMAIN FirstSentence(after) /\ FirstSentence(after)[2] = after[2]
    <3>1. FirstStop(after) \in Nat
      BY <1>4, FirstStopAt DEF Texts
    <3>2. 2 \in 1..FirstStop(after)
      BY <2>3, <3>1
    <3>. QED  BY <1>4, <3>2, FirstSentenceAt
  <2>5. Occurs(Numbers, FirstSentence(after))
    BY <2>1, <2>4 DEF Occurs, Positions, Numbers
  <2>6. NumericCandidate(o)
    BY <2>5 DEF NumericCandidate, after
  <2>. QED  BY <2>6 DEF Evidence, o
<1>. QED  BY <1>6, <1>7 DEF Speaks, text

\* Where nothing was found, no mention has evidence around it.
LEMMA NothingSaid ==
  ASSUME ProbeInv, probe.conclusion = "not_found_in_probe", NEW c \in Chunks, NEW m \in 1..Len(Text(c)),
         Text(c)[m] = "metric"
  PROVE  ~Evidence(Whole(c, m))
<1>1. corpus \in Seq(Seq(Texts))
  BY Zenon DEF ProbeInv
<1>2. c \in Matching
  BY <1>1, MentionsAre
<1>3. c \in opened /\ AllComplete(opened) /\ \A o \in Contexts(opened) : ~Evidence(o)
  BY <1>2, NotFoundMeans
<1>4. <<c, m>> \in Mentions(opened)
  BY <1>1, <1>3, MentionsAre
<1>5. Complete(c, m, opened) /\ Context(c, m, opened) \in Contexts(opened)
  BY <1>3, <1>4 DEF AllComplete, Contexts
<1>6. Whole(c, m) \in Contexts(opened)
  BY <1>5, CompleteIsWhole
<1>. QED  BY <1>3, <1>6

LEMMA NothingSpeaks ==
  ASSUME ProbeInv, probe.conclusion = "not_found_in_probe", NEW c \in Chunks, NEW m \in 1..Len(Text(c))
  PROVE  ~Speaks(Text(c), m)
<1>1. corpus \in Seq(Seq(Texts))
  BY Zenon DEF ProbeInv
<1>2. SUFFICES ASSUME Speaks(Text(c), m) PROVE FALSE
  OBVIOUS
<1>3. Text(c)[m] = "metric"
  BY <1>2 DEF Speaks
<1>. QED  BY <1>1, <1>2, <1>3, SpeakingIsEvidence, NothingSaid

LEMMA InvAgree == ProbeInv /\ VerdictInv /\ JudgementHolds => AuthoritiesAgree
<1>. SUFFICES ASSUME ProbeInv, VerdictInv, JudgementHolds, NEW i \in DOMAIN verdicts, NEW j \in DOMAIN verdicts,
                     verdicts[i] = "not_found", verdicts[j] \in Reporting
              PROVE  FALSE
  BY DEF AuthoritiesAgree
<1>1. corpus \in Seq(Seq(Texts)) /\ probe.conclusion = "not_found_in_probe"
  <2>1. "not_found" \in Range(verdicts)
    BY DEF Range
  <2>. QED  BY <2>1, Zenon DEF ProbeInv, JudgementHolds
<1>2. draft[j] \in Claims /\ Settled(draft[j], verdicts[j])
  BY DEF VerdictInv
<1>3. Status(draft[j], corpus) \in Reporting
  BY <1>2 DEF Settled, Reporting
<1>4. draft[j].observations # <<>> /\ \A o \in Range(draft[j].observations) : Supported(o, corpus)
  BY <1>3 DEF Status, Reporting
<1>5. PICK o \in Observations : Supported(o, corpus)
  <2>. DEFINE seen == draft[j].observations
  <2>1. seen \in Seq(Observations)
    BY <1>2 DEF Claims
  <2>. HIDE DEF seen
  <2>2. seen # <<>> => 1 \in DOMAIN seen /\ seen[1] \in Observations
    BY <2>1
  <2>. QED  BY <1>4, <2>2 DEF Range, seen
<1>6. PICK c \in Chunks, m \in Nat : m \in 1..Len(Text(c)) /\ Speaks(Text(c), m)
  <2>1. PICK c \in Chunks : \E m \in 1..Len(Text(c)) : Speaks(Text(c), m)
    BY <1>1, <1>5, SupportedSpeaks
  <2>2. Text(c) \in Texts
    BY <1>1, ChunkAt
  <2>. QED  BY <2>1, <2>2 DEF Texts
<1>. QED  BY <1>1, <1>6, NothingSpeaks

\* In every run, whatever the corpus and the draft: a run never says both that the metric was not
\* found and that it has a value.  What the binder takes for a report of the metric is evidence for
\* the analysis of the same mention, and a probe that finds nothing has analysed every mention in its
\* whole context (verification.py:865-1042, absence.py:627-782).
THEOREM AuthoritiesAlwaysAgree == Spec => []AuthoritiesAgree
BY AlwaysProbeInv, AlwaysVerdictInv, JudgementInvariant, InvAgree, PTL

(***************************************************************************)
(* A run and its rehearsal.                                                *)
(***************************************************************************)
\* What was not found is what the documents, read from end to end, do not have.
LEMMA NotFoundIsJudged ==
  ASSUME ProbeInv, probe.conclusion = "not_found_in_probe"
  PROVE  Judged = "not_found_in_probe"
<1>1. probe # NoProbe
  BY DEF NoProbe
<1>2. probe = Concluded /\ SearchesComplete(Record) /\ ~limited /\ scan.status = "complete"
  BY NotFoundMeans
<1>3. probe.record = Record
  BY <1>2 DEF Concluded
<1>4. SearchesComplete(probe.record)
  BY <1>2, <1>3
<1>. QED  BY <1>1, <1>2, <1>4, ProbeIsJudged

\* The status of a claim is not about its request.
LEMMA StatusIgnoresRequest ==
  ASSUME NEW claim \in Claims, NEW request, NEW docs
  PROVE  Status([claim EXCEPT !.request = request], docs) = Status(claim, docs)
<1>. DEFINE other == [claim EXCEPT !.request = request]
<1>1. other.observations = claim.observations /\ other.context = claim.context
  BY DEF Claims
<1>. HIDE DEF other
<1>2. /\ Unresolved(other, docs) = Unresolved(claim, docs)
      /\ Checked(other, docs) = Checked(claim, docs) /\ Classified(other, docs) = Classified(claim, docs)
  BY <1>1, Zenon DEF Unresolved, Cited, Checked, Classified
<1>3. Status(other, docs) = Status(claim, docs)
  BY <1>1, <1>2, Zenon DEF Status
<1>. QED  BY <1>3 DEF other

LEMMA JudgedFixed == corpus' = corpus => Judged' = Judged
BY CorpusTermsFixed DEF Judged

\* A run that is refused stays as it is.
RefusalInv ==
    /\ RehearsalHolds
    /\ outcome = "refused" => phase = "idle"
    /\ RehearsalConfirms

LEMMA RefusalInit == Init => RefusalInv
BY DEF Init, RefusalInv, RehearsalHolds, RehearsalConfirms, Live

\* What remains of a rehearsal when neither its draft nor its verdicts change.
LEMMA RehearsalKept ==
  ASSUME RehearsalHolds, UNCHANGED <<draft, verdicts, sealed, corpus>>,
         outcome' = "completed" => outcome = "completed",
         outcome' = "running" /\ probed' = NoProbe => outcome = "running" /\ probed = NoProbe /\ at' = at
  PROVE  RehearsalHolds'
<1>1. Judged' = Judged /\ Live' = Live
  BY JudgedFixed DEF Live
<1>2. \A claim : Pure(claim)' = Pure(claim) /\ Status(claim, corpus)' = Status(claim, corpus)
  BY DEF Pure
<1>3. /\ DOMAIN draft' = DOMAIN draft /\ DOMAIN verdicts' = DOMAIN verdicts /\ Range(verdicts)' = Range(verdicts)
      /\ Range(sealed)' = Range(sealed)
  BY DEF Range
<1>4. outcome' = "completed" =>
         /\ draft' # <<>> /\ verdicts' = [i \in DOMAIN draft' |-> verdicts'[i]]
         /\ Range(verdicts)' \subseteq Authoritative
  BY <1>3, Zenon DEF RehearsalHolds
<1>5. ASSUME ~Live'
      PROVE  /\ draft' # <<>> /\ sealed' = [i \in DOMAIN draft' |-> sealed'[i]]
             /\ Range(sealed)' \subseteq Authoritative
             /\ \A i \in DOMAIN draft' :
                   IF draft'[i].request
                     THEN sealed'[i] = "not_found" /\ Pure(draft[i])' /\ Judged' = "not_found_in_probe"
                     ELSE sealed'[i] = Status(draft[i], corpus)'
             /\ outcome' = "running" /\ probed' = NoProbe => at' = 1
  <2>1. /\ draft # <<>> /\ sealed = [i \in DOMAIN draft |-> sealed[i]] /\ Range(sealed) \subseteq Authoritative
        /\ \A i \in DOMAIN draft :
              IF draft[i].request
                THEN sealed[i] = "not_found" /\ Pure(draft[i]) /\ Judged = "not_found_in_probe"
                ELSE sealed[i] = Status(draft[i], corpus)
        /\ outcome = "running" /\ probed = NoProbe => at = 1
    BY <1>1, <1>5, Zenon DEF RehearsalHolds
  <2>2. draft' = draft /\ sealed' = sealed /\ corpus' = corpus
    OBVIOUS
  <2>. QED  BY <1>1, <1>2, <1>3, <2>1, <2>2, Zenon
<1>. QED  BY <1>4, <1>5, Zenon DEF RehearsalHolds

\* A rehearsal starts with what was sealed.
LEMMA RehearsalStarts ==
  ASSUME ProbeInv, VerdictInv, JudgementHolds, RehearsalHolds, Rehearse
  PROVE  RehearsalHolds' /\ outcome' = "running"
<1>1. /\ outcome = "completed" /\ outcome' = "running" /\ sealed' = verdicts /\ at' = 1 /\ corpus' = corpus
      /\ draft' = [i \in DOMAIN draft |-> [draft[i] EXCEPT !.request = (verdicts[i] = "not_found")]]
  BY DEF Rehearse, probeVars
<1>2. /\ draft # <<>> /\ verdicts = [i \in DOMAIN draft |-> verdicts[i]] /\ DOMAIN verdicts = DOMAIN draft
      /\ Range(verdicts) \subseteq Authoritative
  <2>1. draft # <<>> /\ verdicts = [i \in DOMAIN draft |-> verdicts[i]] /\ Range(verdicts) \subseteq Authoritative
    BY <1>1, Zenon DEF RehearsalHolds
  <2>2. DOMAIN [i \in DOMAIN draft |-> verdicts[i]] = DOMAIN draft
    OBVIOUS
  <2>. QED  BY <2>1, <2>2, Zenon
<1>3. draft \in Seq(Claims) /\ \A i \in DOMAIN verdicts : Settled(draft[i], verdicts[i])
  BY Zenon DEF VerdictInv
<1>4. "not_found" \in Range(verdicts) => Judged' = "not_found_in_probe"
  BY <1>1, NotFoundIsJudged, JudgedFixed, Zenon DEF JudgementHolds
<1>5. DOMAIN draft' = DOMAIN draft /\ Range(sealed)' = Range(verdicts) /\ draft' # <<>>
  <2>1. DOMAIN draft' = DOMAIN draft /\ Range(sealed)' = Range(verdicts)
    BY <1>1 DEF Range
  <2>2. DOMAIN draft # {}
    BY <1>2, <1>3
  <2>3. draft' # <<>>
    BY <2>1, <2>2
  <2>. QED  BY <2>1, <2>3
<1>6. sealed' = [i \in DOMAIN draft' |-> sealed'[i]]
  BY <1>1, <1>2, <1>5
<1>7. ASSUME NEW i \in DOMAIN draft
      PROVE  IF draft'[i].request
               THEN sealed'[i] = "not_found" /\ Pure(draft[i])' /\ Judged' = "not_found_in_probe"
               ELSE sealed'[i] = Status(draft[i], corpus)'
  <2>1. draft[i] \in Claims /\ Settled(draft[i], verdicts[i]) /\ verdicts[i] \in Range(verdicts)
    BY <1>2, <1>3 DEF Range
  <2>2. /\ draft'[i] = [draft[i] EXCEPT !.request = (verdicts[i] = "not_found")]
        /\ draft'[i].request = (verdicts[i] = "not_found")
        /\ draft'[i].observations = draft[i].observations /\ draft'[i].context = draft[i].context
    BY <1>1, <2>1 DEF Claims
  <2>3. CASE verdicts[i] = "not_found"
    <3>1. draft[i].request
      BY <2>1, <2>3, StatusIsNoAbsence DEF Settled
    <3>2. Pure(draft[i])
      BY <2>1, <2>3, <3>1 DEF Settled
    <3>3. Pure(draft[i])'
      BY <2>2, <3>2 DEF Pure
    <3>. QED  BY <1>1, <1>4, <2>1, <2>2, <2>3, <3>3
  <2>4. CASE verdicts[i] # "not_found"
    <3>1. ~draft[i].request
      BY <1>2, <2>1, <2>4 DEF Settled, Authoritative
    <3>2. verdicts[i] = Status(draft[i], corpus)
      BY <2>1, <3>1 DEF Settled
    <3>3. Status(draft'[i], corpus') = Status(draft[i], corpus)
      BY <1>1, <2>1, <2>2, StatusIgnoresRequest
    <3>. QED  BY <1>1, <2>2, <2>4, <3>2, <3>3
  <2>. QED  BY <2>3, <2>4
<1>8. /\ draft' # <<>> /\ sealed' = [i \in DOMAIN draft' |-> sealed'[i]]
      /\ Range(sealed)' \subseteq Authoritative /\ at' = 1 /\ outcome' = "running"
      /\ \A i \in DOMAIN draft' :
            IF draft'[i].request
              THEN sealed'[i] = "not_found" /\ Pure(draft[i])' /\ Judged' = "not_found_in_probe"
              ELSE sealed'[i] = Status(draft[i], corpus)'
  BY <1>1, <1>2, <1>5, <1>6, <1>7, Zenon
<1>. QED  BY <1>8, Zenon DEF RehearsalHolds

\* A rehearsal whose own probe was not cut short, and confirmed by scans that did not fail, gives the
\* verdicts that were sealed.
LEMMA RehearsalAgrees ==
  ASSUME ProbeInv, VerdictInv, JudgementHolds, RehearsalHolds, Verify, ~Live, unconfirmed' = {},
         probed # NoProbe => SearchesComplete(probed.record) /\ scan.status = "complete" /\ ~limited
  PROVE  outcome' = "completed"
<1>1. /\ outcome = "running" /\ phase = "idle" /\ Requested = {}
      /\ verdicts' = Verdicts({})
  BY DEF Verify
<1>2. /\ draft # <<>> /\ sealed = [i \in DOMAIN draft |-> sealed[i]]
      /\ Range(sealed) \subseteq Authoritative
      /\ \A i \in DOMAIN draft :
            IF draft[i].request
              THEN sealed[i] = "not_found" /\ Pure(draft[i]) /\ Judged = "not_found_in_probe"
              ELSE sealed[i] = Status(draft[i], corpus)
      /\ probed = NoProbe => at = 1
  BY <1>1, Zenon DEF RehearsalHolds
<1>3. draft \in Seq(Claims) /\ probed \in {NoProbe, probe}
  BY <1>1, Zenon DEF VerdictInv, JudgementHolds
<1>4. ASSUME NEW i \in DOMAIN draft PROVE VerifyClaim(draft[i], probed, ScanOutcome) = sealed[i]
  <2>1. CASE ~draft[i].request
    BY <1>2, <2>1 DEF VerifyClaim
  <2>2. CASE draft[i].request
    <3>1. probed # NoProbe
      <4>1. SUFFICES ASSUME probed = NoProbe PROVE FALSE
        OBVIOUS
      <4>2. i \in at..Len(draft)
        BY <1>2, <1>3, <4>1
      <4>. QED  BY <1>1, <2>2, <4>2 DEF Requested
    <3>2. probed = probe
      BY <1>3, <3>1
    <3>3. probe.conclusion = "not_found_in_probe"
      BY <1>2, <2>2, <3>1, <3>2, ProbeIsJudged
    <3>4. DeriveAgain(probe.record, ScanOutcome) = "not_found_in_probe"
      BY <3>1, <3>2, <3>3, DerivedAgain
    <3>. QED  BY <1>2, <2>2, <3>2, <3>3, <3>4 DEF VerifyClaim
  <2>. QED  BY <2>1, <2>2
<1>5. verdicts' = sealed
  BY <1>1, <1>2, <1>4 DEF Verdicts
<1>6. Range(verdicts') \subseteq Authoritative
  BY <1>2, <1>5
<1>. QED  BY <1>2, <1>5, <1>6, Zenon DEF Verify

LEMMA RefusalNext ==
  ProbeInv /\ VerdictInv /\ JudgementHolds /\ RefusalInv /\ [Next]_vars => RefusalInv'
<1>. SUFFICES ASSUME ProbeInv, VerdictInv, JudgementHolds, RefusalInv, [Next]_vars PROVE RefusalInv'
  OBVIOUS
<1>1. /\ RehearsalHolds
      /\ outcome = "refused" => phase = "idle"
      /\ outcome = "refused" => unconfirmed # {} \/ (probed # NoProbe /\
            (~SearchesComplete(probed.record) \/ scan.status # "complete" \/ limited))
  BY Zenon DEF RefusalInv, RehearsalConfirms
<1>2. ASSUME RehearsalHolds', outcome' # "refused" PROVE RefusalInv'
  BY <1>2 DEF RefusalInv, RehearsalConfirms
<1>3. CASE StartProbe
  <2>1. /\ UNCHANGED <<draft, verdicts, sealed, corpus, outcome, probed, at>> /\ outcome = "running"
    BY <1>3 DEF StartProbe, BeginProbe, claimVars
  <2>. QED  BY <1>1, <1>2, <2>1, RehearsalKept
<1>4. CASE ProbeStep
  <2>1. UNCHANGED <<draft, verdicts, sealed, corpus, outcome, probed, at>> /\ phase # "idle"
    BY <1>4 DEF ProbeStep, claimVars, Search, Scan, Open, Expand, Conclude, ReadFails
  <2>. QED  BY <1>1, <1>2, <2>1, RehearsalKept
<1>5. CASE KeepProbe
  <2>1. UNCHANGED <<draft, verdicts, sealed, corpus, outcome>> /\ phase = "concluded" /\ probed' = probe
    BY <1>5 DEF KeepProbe
  <2>2. probe # NoProbe
    BY <2>1, Zenon DEF ProbeInv
  <2>. QED  BY <1>1, <1>2, <2>1, <2>2, RehearsalKept
<1>6. CASE Fail \/ VerifyRaises
  <2>1. UNCHANGED <<draft, verdicts, sealed, corpus, probed, at>> /\ outcome' = "failed"
    BY <1>6 DEF Fail, VerifyRaises, probeVars
  <2>. QED  BY <1>1, <1>2, <2>1, RehearsalKept
<1>7. CASE Rehearse
  BY <1>1, <1>2, <1>7, RehearsalStarts
<1>8. CASE Verify
  <2>1. /\ UNCHANGED <<draft, sealed, corpus, probed, at, phase, scan, limited>> /\ phase = "idle"
        /\ \E failing : verdicts' = Verdicts(failing)
        /\ outcome' \in {"completed", "incomplete", "refused"}
        /\ outcome' = "completed" => draft # <<>> /\ Range(verdicts') \subseteq Authoritative
        /\ outcome' = "refused" => ~Live
    BY <1>8 DEF Verify
  <2>2. RehearsalHolds'
    <3>1. Judged' = Judged /\ Live' = Live
      BY <2>1, JudgedFixed DEF Live
    <3>2. \A claim : Pure(claim)' = Pure(claim) /\ Status(claim, corpus)' = Status(claim, corpus)
      BY <2>1 DEF Pure
    <3>3. outcome' = "completed" =>
             /\ draft' # <<>> /\ verdicts' = [i \in DOMAIN draft' |-> verdicts'[i]]
             /\ Range(verdicts)' \subseteq Authoritative
      BY <2>1 DEF Range, Verdicts
    <3>4. ~Live' =>
             /\ draft' # <<>> /\ sealed' = [i \in DOMAIN draft' |-> sealed'[i]]
             /\ Range(sealed)' \subseteq Authoritative
             /\ \A i \in DOMAIN draft' :
                   IF draft'[i].request
                     THEN sealed'[i] = "not_found" /\ Pure(draft[i])' /\ Judged' = "not_found_in_probe"
                     ELSE sealed'[i] = Status(draft[i], corpus)'
      <4>1. ~Live =>
               /\ draft # <<>> /\ sealed = [i \in DOMAIN draft |-> sealed[i]]
               /\ Range(sealed) \subseteq Authoritative
               /\ \A i \in DOMAIN draft :
                     IF draft[i].request
                       THEN sealed[i] = "not_found" /\ Pure(draft[i]) /\ Judged = "not_found_in_probe"
                       ELSE sealed[i] = Status(draft[i], corpus)
        BY <1>1, Zenon DEF RehearsalHolds
      <4>2. draft' = draft /\ sealed' = sealed /\ corpus' = corpus /\ Range(sealed)' = Range(sealed)
        BY <2>1 DEF Range
      <4>. QED  BY <3>1, <3>2, <4>1, <4>2, Zenon
    <3>. QED  BY <2>1, <3>3, <3>4, Zenon DEF RehearsalHolds
  <2>3. RehearsalConfirms'
    <3>1. SUFFICES ASSUME outcome' = "refused", unconfirmed' = {}
                   PROVE  probed # NoProbe /\ (~SearchesComplete(probed.record) \/ scan.status # "complete" \/ limited)
      <4>1. \A p : SearchesComplete(p)' = SearchesComplete(p)
        BY DEF SearchesComplete
      <4>. QED  BY <2>1, <4>1 DEF RehearsalConfirms
    <3>. QED  BY <1>1, <1>8, <2>1, <3>1, RehearsalAgrees
  <2>. QED  BY <2>1, <2>2, <2>3 DEF RefusalInv
<1>9. CASE UNCHANGED vars
  <2>1. UNCHANGED <<draft, verdicts, sealed, corpus, outcome, probed, at, phase, scan, limited, unconfirmed>>
    BY <1>9 DEF vars, probeVars, claimVars
  <2>2. RehearsalHolds'
    BY <1>1, <2>1, RehearsalKept
  <2>. QED  BY <1>1, <2>1, <2>2 DEF RefusalInv, RehearsalConfirms, SearchesComplete
<1>. QED  BY <1>3, <1>4, <1>5, <1>6, <1>7, <1>8, <1>9 DEF Next

\* In every run: the rehearsal of a completed run is refused only when one of its own probes was cut
\* short or a scan that was to confirm it failed.  What was not found is absent from the documents read from end to end, so whichever chunks
\* the new searches rank first, a probe that completes finds nothing again; and the status of every
\* other claim is a function of the claim and the corpus (service.py:578-665, absence.py:427-456).
THEOREM RehearsalAlwaysConfirms == Spec => []RehearsalConfirms
<1>1. RefusalInv => RehearsalConfirms
  BY Zenon DEF RefusalInv
<1>2. Spec => []RefusalInv
  <2>1. ProbeInv /\ VerdictInv /\ JudgementHolds /\ RefusalInv /\ [Next]_vars => RefusalInv'
    BY RefusalNext
  <2>. QED  BY <2>1, RefusalInit, AlwaysProbeInv, AlwaysVerdictInv, JudgementInvariant, PTL DEF Spec
<1>. QED  BY <1>1, <1>2, PTL

(***************************************************************************)
(* Absence, of a document read from end to end.                            *)
(***************************************************************************)
LEMMA FlatIs ==
  ASSUME corpus \in Seq(Seq(Texts)), NEW d \in DOMAIN corpus
  PROVE  Flat(d) = Joined(d, 1, Len(corpus[d])) /\ Flat(d) \in Texts /\ Joined(d, 1, 0) = <<>>
<1>. DEFINE q == corpus[d]
            n == Len(q)
<1>1. q \in Seq(Texts) /\ n \in Nat
  OBVIOUS
<1>2. SubSeq(q, 1, n) = q /\ SubSeq(q, 1, 0) = <<>>
  <2>. HIDE DEF q
  <2>. QED  BY <1>1
<1>3. Joined(d, 1, n) = FlattenSeq(SubSeq(q, 1, n)) /\ Joined(d, 1, n) \in Texts
  <2>. HIDE DEF n
  <2>1. n <= Len(corpus[d]) /\ 1 <= n + 1 /\ 1 \in Nat \ {0}
    BY <1>1 DEF n
  <2>. QED  BY <1>1, <2>1, JoinedIs
<1>4. Joined(d, 1, 0) = FlattenSeq(SubSeq(q, 1, 0))
  <2>1. 0 <= Len(corpus[d]) /\ 1 <= 0 + 1 /\ 1 \in Nat \ {0} /\ 0 \in Nat
    BY <1>1
  <2>. QED  BY <2>1, JoinedIs
<1>. QED  BY <1>2, <1>3, <1>4, FlattenEmpty, Zenon DEF Flat

LEMMA JoinedOne ==
  ASSUME corpus \in Seq(Seq(Texts)), NEW d \in DOMAIN corpus, NEW k \in 1..Len(corpus[d])
  PROVE  Joined(d, k, k) = corpus[d][k]
<1>. DEFINE q == corpus[d]
            x == q[k]
<1>1. q \in Seq(Texts) /\ Len(q) \in Nat
  OBVIOUS
<1>2. x \in Texts /\ k \in Nat \ {0} /\ k <= k + 1 /\ k <= Len(q)
  <2>. HIDE DEF q
  <2>1. k \in 1..Len(q)
    BY DEF q
  <2>2. q[k] \in Texts
    BY <1>1, <2>1
  <2>. QED  BY <1>1, <2>1, <2>2
<1>3. Joined(d, k, k) = FlattenSeq(SubSeq(q, k, k))
  BY <1>2, JoinedIs
<1>4. SubSeq(q, k, k) = Append(<<>>, x)
  <2>. DEFINE part == SubSeq(q, k, k)
  <2>1. part \in Seq(Texts) /\ Len(part) = 1 /\ part[1] = x
    <3>1. k + 1 - k = 1 /\ k + 1 - 1 = k
      BY <1>2
    <3>2. /\ part \in Seq(Texts) /\ Len(part) = k + 1 - k
          /\ \A j \in 1..(k + 1 - k) : part[j] = q[k + j - 1]
      BY <1>2, JoinedIs
    <3>. HIDE DEF part, q
    <3>. QED  BY <3>1, <3>2
  <2>. HIDE DEF part, x
  <2>2. Append(<<>>, x) \in Seq(Texts) /\ Len(Append(<<>>, x)) = 1 /\ Append(<<>>, x)[1] = x
    BY <1>2
  <2>3. \A j \in 1..Len(part) : part[j] = Append(<<>>, x)[j]
    BY <2>1, <2>2
  <2>4. part = Append(<<>>, x)
    BY <2>1, <2>2, <2>3, SeqEqual
  <2>. QED  BY <2>4 DEF part
<1>5. FlattenSeq(Append(<<>>, x)) = FlattenSeq(<<>>) \o x
  <2>. HIDE DEF x
  <2>1. <<>> \in Seq(Seq(Tokens)) /\ x \in Seq(Tokens)
    BY <1>2 DEF Texts
  <2>. QED  BY <2>1, FlattenAppend
<1>6. <<>> \o x = x
  <2>. HIDE DEF x
  <2>. QED  BY <1>2 DEF Texts
<1>. QED  BY <1>3, <1>4, <1>5, <1>6, FlattenEmpty, Zenon

\* Where a chunk stands in its document.
At(c) == Len(Joined(c[1], 1, c[2] - 1))

\* What is said in a document is said in one of its chunks.
LEMMA LocatedIn ==
  ASSUME corpus \in Seq(Seq(Texts)), NEW d \in DOMAIN corpus, NEW i \in 1..Len(Flat(d))
  PROVE  \E c \in Chunks : c[1] = d /\ At(c) \in Nat /\ i - At(c) \in 1..Len(Text(c))
<1>. DEFINE n == Len(corpus[d])
            Up(k) == Len(Joined(d, 1, k))
            Good == {k \in 0..n : i <= Up(k)}
<1>1. n \in Nat /\ Flat(d) = Joined(d, 1, n) /\ Joined(d, 1, 0) = <<>> /\ i \in Nat /\ i > 0
  <2>1. corpus[d] \in Seq(Texts)
    OBVIOUS
  <2>2. Len(Flat(d)) \in Nat
    BY FlatIs DEF Texts
  <2>. QED  BY <2>1, <2>2, FlatIs
<1>2. \A k \in 0..n : Joined(d, 1, k) \in Texts
  <2>1. ASSUME NEW k \in 0..n PROVE Joined(d, 1, k) \in Texts
    <3>1. k \in Nat /\ 1 \in Nat \ {0} /\ 1 <= k + 1 /\ k <= Len(corpus[d])
      BY <1>1
    <3>. QED  BY <3>1, JoinedIs
  <2>. QED  BY <2>1
<1>3. Good \in SUBSET Nat /\ n \in Good
  <2>1. i <= Up(n)
    BY <1>1
  <2>. HIDE DEF Up
  <2>. QED  BY <1>1, <2>1
<1>. DEFINE k == Min(Good)
<1>4. k \in Good /\ \A j \in Good : k <= j
  <2>. HIDE DEF Good
  <2>. QED  BY <1>3, LeastIsMin
<1>. HIDE DEF k
<1>5. k \in 0..n /\ i <= Up(k)
  BY <1>4
<1>6. k # 0
  <2>1. Up(0) = 0
    BY <1>1
  <2>. HIDE DEF Up
  <2>. QED  BY <1>1, <1>5, <2>1
<1>7. k \in 1..n /\ k - 1 \in 0..n
  BY <1>1, <1>5, <1>6
<1>8. ~(i <= Up(k - 1))
  <2>. HIDE DEF Up
  <2>1. k - 1 \notin Good
    <3>. HIDE DEF Good
    <3>1. ~(k <= k - 1)
      BY <1>7
    <3>. QED  BY <1>4, <3>1
  <2>. QED  BY <1>7, <2>1
<1>. DEFINE c == <<d, k>>
            left == Joined(d, 1, k - 1)
            t == corpus[d][k]
<1>9. c \in Chunks /\ c[1] = d /\ Text(c) = t /\ At(c) = Len(left) /\ t \in Texts
  <2>1. c \in Chunks
    BY <1>7, ChunksAre
  <2>. QED  BY <2>1, ChunkAt DEF Text, At
<1>10. Joined(d, 1, k) = left \o t
  <2>1. /\ 1 \in Nat \ {0} /\ k - 1 \in Nat /\ k \in Nat /\ 1 <= (k - 1) + 1 /\ k - 1 <= k /\ k <= Len(corpus[d])
        /\ (k - 1) + 1 = k
    BY <1>1, <1>7
  <2>2. Joined(d, 1, k) = Joined(d, 1, k - 1) \o Joined(d, (k - 1) + 1, k)
    BY <2>1, JoinedSplit
  <2>3. Joined(d, k, k) = t
    BY <1>7, JoinedOne
  <2>. QED  BY <2>1, <2>2, <2>3, Zenon
<1>11. left \in Texts
  BY <1>2, <1>7
<1>12. Up(k) = Len(left) + Len(t) /\ Up(k - 1) = Len(left) /\ Len(left) \in Nat /\ Len(t) \in Nat
  <2>. HIDE DEF left, t
  <2>1. Len(left \o t) = Len(left) + Len(t) /\ Len(left) \in Nat /\ Len(t) \in Nat
    BY <1>9, <1>11 DEF Texts
  <2>. QED  BY <1>10, <2>1 DEF left
<1>. HIDE DEF Up, left, t, c
<1>13. i - Len(left) \in 1..Len(t)
  BY <1>1, <1>5, <1>8, <1>12
<1>14. At(c) \in Nat /\ i - At(c) \in 1..Len(Text(c))
  BY <1>9, <1>12, <1>13
<1>. QED  BY <1>9, <1>14

\* A chunk in its document: what is before it, what it says, and what is behind it.
LEMMA DocumentParts ==
  ASSUME corpus \in Seq(Seq(Texts)), NEW c \in Chunks
  PROVE  LET left == Joined(c[1], 1, c[2] - 1)
             right == Joined(c[1], c[2] + 1, Len(corpus[c[1]]))
         IN /\ Flat(c[1]) = left \o (Text(c) \o right)
            /\ left \in Texts /\ Text(c) \in Texts /\ right \in Texts
<1>. DEFINE d == c[1]
            k == c[2]
            n == Len(corpus[d])
            left == Joined(d, 1, k - 1)
            right == Joined(d, k + 1, n)
<1>1. d \in DOMAIN corpus /\ n \in Nat /\ k \in 1..n /\ Text(c) \in Texts
  BY ChunkAt
<1>. HIDE DEF d, k, n
<1>2. /\ 1 \in Nat \ {0} /\ k \in Nat \ {0} /\ k - 1 \in Nat /\ n \in Nat /\ 1 <= (k - 1) + 1 /\ k - 1 <= n /\ (k - 1) + 1 = k
      /\ k <= k + 1 /\ k <= n /\ k - 1 <= k /\ 1 <= k + 1 /\ k + 1 \in Nat \ {0} /\ k + 1 <= n + 1 /\ n <= Len(corpus[d])
      /\ k \in Nat /\ k - 1 <= Len(corpus[d]) /\ k <= Len(corpus[d])
  BY <1>1 DEF n
<1>3. left \in Texts /\ right \in Texts
  BY <1>1, <1>2, JoinedIs
<1>3a. \A from \in Nat \ {0}, mid, to \in Nat :
          from <= mid + 1 /\ mid <= to /\ to <= Len(corpus[d]) =>
             Joined(d, from, to) = Joined(d, from, mid) \o Joined(d, mid + 1, to)
  BY <1>1, JoinedSplit
<1>4. Joined(d, 1, n) = left \o Joined(d, (k - 1) + 1, n)
  BY <1>2, <1>3a, Zenon
<1>5. Joined(d, k, n) = Joined(d, k, k) \o right
  BY <1>2, <1>3a, Zenon
<1>6. Joined(d, k, k) = corpus[d][k]
  BY <1>1, JoinedOne DEF n
<1>7. Text(c) = corpus[d][k]
  BY DEF Text, d, k
<1>8. Flat(d) = Joined(d, 1, n)
  BY <1>1, FlatIs DEF n
<1>9. Flat(d) = left \o (Text(c) \o right)
  BY <1>2, <1>4, <1>5, <1>6, <1>7, <1>8, Zenon
<1>. QED  BY <1>1, <1>3, <1>9 DEF d, k, n

\* What the walk back gathers ends right before the mention, wherever it stops.
LEMMA BackAt ==
  ASSUME corpus \in Seq(Seq(Texts)), NEW c \in Chunks, NEW x \in 1..Len(Text(c)),
         At(c) + (x - 1) > 0
  PROVE  LET back == Joined(c[1], BackTo(c, x), c[2] - 1) \o Own(c, x)
             left == Joined(c[1], 1, c[2] - 1)
         IN back \in Texts /\ back # <<>> /\ Last(back) = IF x > 1 THEN Text(c)[x - 1] ELSE left[Len(left)]
<1>. DEFINE d == c[1]
            k == c[2]
            b == BackTo(c, x)
            left == Joined(d, 1, k - 1)
            some == Joined(d, b, k - 1)
            own == Own(c, x)
            back == some \o own
<1>1. /\ d \in DOMAIN corpus /\ Len(corpus[d]) \in Nat /\ k \in 1..Len(corpus[d]) /\ Text(c) \in Texts /\ b \in 1..k
      /\ Occurs(Stops, own) \/ b = 1 \/ (b < k /\ Occurs(Stops, corpus[d][b]))
  BY ChunkAt, BackToAt
<1>2. some \in Texts /\ own \in Texts /\ left \in Texts
  BY WholeTyped, DocumentParts
<1>3. Len(own) = x - 1 /\ \A j \in 1..(x - 1) : own[j] = Text(c)[j]
  <2>. DEFINE t == Text(c)
  <2>1. x \in 1..(Len(t) + 1) /\ own = Before(t, x)
    BY <1>1 DEF Texts, Own
  <2>. HIDE DEF t
  <2>. QED  BY <1>1, <2>1, BeforeAt DEF Texts, t
<1>4. x \in Nat /\ Len(some) \in Nat /\ Len(left) \in Nat
  <2>1. Len(Text(c)) \in Nat
    BY <1>1 DEF Texts
  <2>2. x \in Nat
    BY <2>1
  <2>. HIDE DEF some, left
  <2>. QED  BY <1>2, <2>2 DEF Texts
<1>5. /\ back \in Texts /\ Len(back) = Len(some) + Len(own)
      /\ \A j \in 1..Len(some) : back[j] = some[j]
      /\ \A j \in 1..Len(own) : back[Len(some) + j] = own[j]
  <2>. HIDE DEF some, own
  <2>. QED  BY <1>2, ConcatAt DEF Texts
<1>6. CASE x > 1
  <2>. HIDE DEF some, own, back
  <2>1. x - 1 \in 1..Len(own) /\ Len(some) + (x - 1) = Len(back) /\ Len(back) > 0
    BY <1>3, <1>4, <1>5, <1>6
  <2>2. back[Len(back)] = Text(c)[x - 1] /\ back # <<>>
    BY <1>3, <1>5, <2>1 DEF Texts
  <2>. QED  BY <1>5, <1>6, <2>2 DEF Last, back, some, own
<1>7. CASE ~(x > 1)
  <2>1. x = 1 /\ Len(own) = 0
    BY <1>3, <1>4, <1>7
  <2>2. b = 1 \/ (b < k /\ Occurs(Stops, corpus[d][b]))
    <3>1. ~Occurs(Stops, own)
      BY <1>2, <2>1 DEF Occurs, Positions, Texts
    <3>. QED  BY <1>1, <3>1
  <2>3. Len(left) > 0
    BY <1>4, <2>1 DEF At
  <2>4. /\ k \in Nat \ {0} /\ k - 1 \in Nat /\ b \in Nat \ {0} /\ b - 1 \in Nat /\ (b - 1) + 1 = b /\ 1 <= (b - 1) + 1 /\ b - 1 <= k - 1
        /\ k - 1 <= Len(corpus[d]) /\ 1 \in Nat \ {0} /\ b <= (k - 1) + 1
    <3>. HIDE DEF d, k, b
    <3>. QED  BY <1>1
  <2>5. left = Joined(d, 1, b - 1) \o some /\ Joined(d, 1, b - 1) \in Texts
    <3>. HIDE DEF d, k, b
    <3>1. left = Joined(d, 1, b - 1) \o Joined(d, (b - 1) + 1, k - 1)
      <4>1. d \in DOMAIN corpus
        BY <1>1
      <4>2. PICK one \in Nat \ {0}, mid \in Nat, to \in Nat : one = 1 /\ mid = b - 1 /\ to = k - 1
        BY <2>4
      <4>3. one <= mid + 1 /\ mid <= to /\ to <= Len(corpus[d]) /\ mid + 1 = b
        BY <2>4, <4>2
      <4>4. Joined(d, one, to) = Joined(d, one, mid) \o Joined(d, mid + 1, to)
        BY <4>1, <4>3, JoinedSplit
      <4>. QED  BY <2>4, <4>2, <4>4
    <3>2. b - 1 <= Len(corpus[d])
      BY <1>1
    <3>3. Joined(d, 1, b - 1) \in Texts
      BY <1>1, <2>4, <3>2, JoinedIs
    <3>. QED  BY <2>4, <3>1, <3>3, Zenon
  <2>6. Len(some) > 0
    <3>1. CASE b = 1
      <4>1. some = left
        BY <3>1
      <4>. QED  BY <2>3, <4>1
    <3>2. CASE b < k /\ Occurs(Stops, corpus[d][b])
      <4>. HIDE DEF d, k, b
      <4>1. b \in Nat /\ b <= k - 1 /\ b <= b + 1 /\ b \in 1..Len(corpus[d]) /\ b + 1 \in Nat \ {0} /\ b + 1 <= (k - 1) + 1
        BY <1>1, <3>2
      <4>2. some = Joined(d, b, b) \o Joined(d, b + 1, k - 1)
        <5>1. d \in DOMAIN corpus /\ k - 1 \in Nat /\ b \in Nat \ {0} /\ k - 1 <= Len(corpus[d])
          BY <1>1, <2>4, Zenon
        <5>. QED  BY <4>1, <5>1, JoinedSplit, Zenon
      <4>3. Joined(d, b, b) = corpus[d][b]
        BY <1>1, <4>1, JoinedOne
      <4>4. Joined(d, b + 1, k - 1) \in Texts
        BY <1>1, <2>4, <4>1, JoinedIs
      <4>. DEFINE u == corpus[d][b]
                  v == Joined(d, b + 1, k - 1)
      <4>5. u \in Texts /\ u # <<>>
        <5>1. corpus[d] \in Seq(Texts)
          BY <1>1
        <5>2. u \in Texts
          BY <4>1, <5>1
        <5>3. Positions(u, Stops) # {}
          BY <3>2 DEF Occurs
        <5>. QED  BY <5>2, <5>3 DEF Positions, Texts
      <4>6. v \in Texts /\ some = u \o v
        BY <4>2, <4>3, <4>4
      <4>. HIDE DEF u, v, some
      <4>7. Len(u) > 0 /\ Len(v) \in Nat /\ Len(u) \in Nat
        BY <4>5, <4>6 DEF Texts
      <4>8. Len(u \o v) = Len(u) + Len(v)
        BY <4>5, <4>6, ConcatAt DEF Texts
      <4>. QED  BY <4>6, <4>7, <4>8
    <3>. QED  BY <2>2, <3>1, <3>2
  <2>7. left[Len(left)] = some[Len(some)]
    <3>. DEFINE front == Joined(d, 1, b - 1)
    <3>1. left = front \o some /\ front \in Texts
      BY <2>5
    <3>. HIDE DEF front, some, left
    <3>2. Len(front \o some) = Len(front) + Len(some) /\ \A j \in 1..Len(some) : (front \o some)[Len(front) + j] = some[j]
      BY <1>2, <3>1, ConcatAt DEF Texts
    <3>3. Len(some) \in 1..Len(some)
      BY <1>4, <2>6
    <3>. QED  BY <3>1, <3>2, <3>3
  <2>8. back[Len(back)] = some[Len(some)] /\ back # <<>>
    <3>. HIDE DEF some, own, back
    <3>1. Len(back) = Len(some) /\ Len(some) \in 1..Len(some)
      BY <1>4, <1>5, <2>1, <2>6
    <3>2. back # <<>>
      BY <2>6, <3>1, <1>5 DEF Texts
    <3>. QED  BY <1>5, <3>1, <3>2
  <2>9. Last(back) = left[Len(left)]
    <3>. HIDE DEF back, left
    <3>. QED  BY <2>7, <2>8 DEF Last
  <2>. QED  BY <1>5, <1>7, <2>8, <2>9, Zenon
<1>. QED  BY <1>6, <1>7

\* A text that does not end with a sentence has something behind its last one.
LEMMA LastSaid ==
  ASSUME NEW back \in Texts, back # <<>>, Last(back) \notin Stops
  PROVE  LET s == Behind(back, LastStop(back)) IN s # <<>> /\ Last(s) = Last(back)
<1>. DEFINE n == Len(back)
            l == LastStop(back)
            s == Behind(back, l)
<1>1. n \in Nat /\ n > 0 /\ back \in Seq(Tokens) /\ Last(back) = back[n]
  BY DEF Texts, Last
<1>2. l \in 0..n /\ (l # 0 => back[l] \in Stops)
  BY LastStopAt
<1>3. l # n
  BY <1>1, <1>2
<1>4. s \in Seq(Tokens) /\ Len(s) = n - l /\ \A k \in 1..(n - l) : s[k] = back[l + k]
  <2>. HIDE DEF l
  <2>. QED  BY <1>1, <1>2, BehindAt
<1>. HIDE DEF n, l, s
<1>5. n - l \in 1..(n - l) /\ l + (n - l) = n
  BY <1>1, <1>2, <1>3
<1>6. s[Len(s)] = back[n] /\ Len(s) > 0
  BY <1>4, <1>5
<1>7. s # <<>> /\ Last(s) = Last(back)
  BY <1>1, <1>4, <1>6 DEF Last
<1>. QED  BY <1>7 DEF s, l

\* The whole context of a mention has what its document says behind it, and right before it.
LEMMA WholeInDocument ==
  ASSUME corpus \in Seq(Seq(Texts)), NEW c \in Chunks, NEW x \in 1..Len(Text(c))
  PROVE  LET i == At(c) + x
             f == Flat(c[1])
             o == Whole(c, x)
         IN /\ i \in 1..Len(f) /\ f[i] = Text(c)[x]
            /\ Len(o.after) = Len(f) - i /\ \A k \in 1..(Len(f) - i) : o.after[k] = f[i + k]
            /\ i > 1 /\ f[i - 1] \notin Stops => o.before # <<>> /\ Last(o.before) = f[i - 1]
<1>. DEFINE i == At(c) + x
            f == Flat(c[1])
            o == Whole(c, x)
            left == Joined(c[1], 1, c[2] - 1)
            right == Joined(c[1], c[2] + 1, Len(corpus[c[1]]))
            t == Text(c)
            l == Len(left)
            n == Len(t)
            r == Len(right)
<1>1. f = left \o (t \o right) /\ left \in Texts /\ t \in Texts /\ right \in Texts
  BY DocumentParts
<1>2. l \in Nat /\ n \in Nat /\ r \in Nat /\ i = l + x /\ x \in 1..n
  BY <1>1 DEF Texts, At
<1>3. /\ Len(f) = l + (n + r) /\ \A k \in 1..l : f[k] = left[k]
      /\ \A k \in 1..n : f[l + k] = t[k]
      /\ \A k \in 1..r : f[l + (n + k)] = right[k]
  <2>. HIDE DEF left, t, right, f
  <2>1. t \o right \in Texts /\ Len(t \o right) = n + r
    BY <1>1, ConcatAt DEF Texts
  <2>2. /\ \A k \in 1..n : (t \o right)[k] = t[k]
        /\ \A k \in 1..r : (t \o right)[n + k] = right[k]
    BY <1>1, ConcatAt DEF Texts
  <2>. DEFINE tr == t \o right
  <2>. HIDE DEF tr
  <2>3. /\ Len(left \o tr) = l + (n + r)
        /\ \A k \in 1..l : (left \o tr)[k] = left[k]
        /\ \A k \in 1..(n + r) : (left \o tr)[l + k] = tr[k]
    BY <1>1, <2>1, ConcatAt DEF Texts, tr
  <2>. HIDE DEF l, n, r
  <2>4. \A k \in 1..n : k \in 1..(n + r)
    BY <1>2
  <2>5. \A k \in 1..r : n + k \in 1..(n + r)
    BY <1>2
  <2>6. f = left \o tr
    BY <1>1 DEF tr
  <2>. QED  BY <2>2, <2>3, <2>4, <2>5, <2>6 DEF tr
<1>4. /\ Len(o.after) = (n - x) + r
      /\ \A k \in 1..(n - x) : o.after[k] = t[x + k]
      /\ \A k \in 1..r : o.after[(n - x) + k] = right[k]
  <2>. DEFINE b == Behind(t, x)
  <2>1. o.after = b \o right
    BY DEF Whole
  <2>2. b \in Texts /\ Len(b) = n - x /\ \A k \in 1..(n - x) : b[k] = t[x + k]
    <3>1. x \in 0..Len(t)
      BY <1>2
    <3>. HIDE DEF t
    <3>. QED  BY <1>1, <3>1, BehindAt DEF Texts
  <2>. HIDE DEF b, t, right, o
  <2>3. /\ Len(b \o right) = Len(b) + r
        /\ \A k \in 1..Len(b) : (b \o right)[k] = b[k]
        /\ \A k \in 1..r : (b \o right)[Len(b) + k] = right[k]
    <3>1. b \in Seq(Tokens) /\ right \in Seq(Tokens)
      BY <1>1, <2>2 DEF Texts
    <3>. QED  BY ONLY <3>1, ConcatAt
  <2>. QED  BY <2>1, <2>2, <2>3
<1>. HIDE DEF l, n, r, i, f, o
<1>5. i \in 1..Len(f) /\ f[i] = t[x]
  BY <1>2, <1>3
<1>6. Len(o.after) = Len(f) - i
  BY <1>2, <1>3, <1>4
<1>7. ASSUME NEW k \in 1..(Len(f) - i) PROVE o.after[k] = f[i + k]
  <2>1. CASE k <= n - x
    <3>1. k \in Nat /\ k > 0
      BY <1>7
    <3>2. k \in 1..(n - x) /\ x + k \in 1..n /\ l + (x + k) = i + k
      BY <1>2, <2>1, <3>1
    <3>. QED  BY <1>3, <1>4, <3>2
  <2>2. CASE ~(k <= n - x)
    <3>1. PICK m \in 1..r : k = (n - x) + m
      <4>1. k \in Nat /\ Len(f) - i = (n - x) + r /\ k <= Len(f) - i
        BY <1>2, <1>3, <1>7
      <4>2. k - (n - x) \in 1..r /\ k = (n - x) + (k - (n - x))
        BY <1>2, <2>2, <4>1
      <4>. QED  BY <4>2
    <3>2. l + (n + m) = i + k
      BY <1>2, <3>1
    <3>. QED  BY <1>3, <1>4, <3>1, <3>2
  <2>. QED  BY <2>1, <2>2
<1>8. ASSUME i > 1, f[i - 1] \notin Stops PROVE o.before # <<>> /\ Last(o.before) = f[i - 1]
  <2>. DEFINE back == Joined(c[1], BackTo(c, x), c[2] - 1) \o Own(c, x)
  <2>1. o.before = Behind(back, LastStop(back))
    BY DEF Whole, o
  <2>2. back \in Texts /\ back # <<>> /\ Last(back) = f[i - 1]
    <3>1. l + (x - 1) > 0
      BY <1>2, <1>8
    <3>2. back \in Texts /\ back # <<>> /\ Last(back) = IF x > 1 THEN t[x - 1] ELSE left[l]
      BY <3>1, BackAt DEF l, At
    <3>3. x > 1 => x - 1 \in 1..n /\ l + (x - 1) = i - 1
      BY <1>2
    <3>4. ~(x > 1) => l \in 1..l /\ i - 1 = l
      BY <1>2, <3>1
    <3>5. f[i - 1] = IF x > 1 THEN t[x - 1] ELSE left[l]
      BY <1>3, <3>3, <3>4
    <3>. QED  BY <3>2, <3>5
  <2>. HIDE DEF back
  <2>. QED  BY <1>8, <2>1, <2>2, LastSaid
<1>. QED  BY <1>5, <1>6, <1>7, <1>8 DEF i, f, o, t

\* A text states a value for the metric only where the analysis of that mention finds a number.
LEMMA ValueIsEvidence ==
  ASSUME NEW f \in Texts, NEW i \in 1..Len(f), StatesValue(f, i), NEW o, Between(o),
         Len(o.after) = Len(f) - i, \A k \in 1..(Len(f) - i) : o.after[k] = f[i + k],
         i > 1 /\ f[i - 1] \notin Stops => o.before # <<>> /\ Last(o.before) = f[i - 1]
  PROVE  NumericCandidate(o)
<1>. DEFINE n == Len(f)
            after == o.after
            stop == FirstStop(after)
<1>1. /\ n \in Nat /\ n = Len(f) /\ DOMAIN f = 1..n /\ after \in Texts /\ Len(after) = n - i /\ i \in 1..n
      /\ \A k \in 1..(n - i) : after[k] = f[i + k]
  BY DEF Texts, Between
<1>. HIDE DEF n
<1>2. \A v \in Values : v \in Numbers /\ v \notin Stops
  BY DEF Values, Numbers, Stops, Temporals
<1>3. PICK j \in 1..n :
         /\ f[j] \in Values
         /\ \/ i < j /\ SameSentence(f, i, j)
            \/ i = j + 1
            \/ \E k \in (i + 1)..j :
                  /\ f[k] \in Stops /\ SameSentence(f, i, k)
                  /\ RefersBack(FirstSentence(Behind(f, k))) /\ SameSentence(f, k + 1, j)
  BY <1>1, Zenon DEF StatesValue
<1>4. n \in Nat /\ i \in Nat /\ j \in Nat /\ i <= n /\ j <= n /\ i > 0 /\ j > 0
  BY <1>1, <1>3
<1>5. stop \in 0..(n - i) /\ \A k \in 1..(n - i) : k <= stop <=> \A m \in 1..(k - 1) : after[m] \notin Stops
  BY <1>1, FirstStopAt
<1>6. CASE i < j /\ SameSentence(f, i, j)
  <2>1. PICK k \in 1..(n - i) : k = j - i
    BY <1>4, <1>6
  <2>2. ASSUME NEW m \in 1..(k - 1) PROVE after[m] \notin Stops
    <3>1. m \in 1..(n - i) /\ i + m \in i..(j - 1)
      BY <1>4, <2>1
    <3>. QED  BY <1>1, <1>6, <3>1 DEF SameSentence
  <2>3. k <= stop
    BY <1>5, <2>2
  <2>4. k \in 1..stop /\ after[k] = f[j]
    <3>1. i + k = j
      BY <1>4, <2>1
    <3>. QED  BY <1>1, <1>5, <2>1, <2>3, <3>1
  <2>5. k \in DOMAIN FirstSentence(after) /\ FirstSentence(after)[k] \in Numbers
    BY <1>1, <1>2, <1>3, <2>4, FirstSentenceAt
  <2>. QED  BY <2>5 DEF NumericCandidate, Occurs, Positions
<1>7. CASE i = j + 1
  <2>1. i > 1 /\ i - 1 = j
    BY <1>4, <1>7
  <2>. QED  BY <1>2, <1>3, <2>1 DEF NumericCandidate
<1>8. ASSUME NEW k \in (i + 1)..j, f[k] \in Stops, SameSentence(f, i, k),
             RefersBack(FirstSentence(Behind(f, k))), SameSentence(f, k + 1, j)
      PROVE  NumericCandidate(o)
  <2>. DEFINE rest == Behind(after, stop)
  <2>1. k \in Nat /\ i < k /\ k < j
    <3>1. k # j
      BY <1>2, <1>3, <1>8
    <3>. QED  BY <1>4, <1>8, <3>1
  <2>2. PICK s \in 1..(n - i) : s = k - i
    BY <1>4, <2>1
  <2>3. stop = s
    <3>1. ASSUME NEW m \in 1..(s - 1) PROVE after[m] \notin Stops
      <4>1. m \in 1..(n - i) /\ i + m \in i..(k - 1)
        BY <1>4, <2>1, <2>2
      <4>. QED  BY <1>1, <1>8, <4>1 DEF SameSentence
    <3>2. s <= stop
      BY <1>5, <2>2, <3>1
    <3>3. PICK t \in 1..(n - i) : t = s + 1
      BY <1>4, <2>1, <2>2
    <3>4. s \in 1..(t - 1) /\ after[s] = f[k]
      <4>1. i + s = k /\ s \in 1..(t - 1)
        BY <1>4, <2>1, <2>2, <3>3
      <4>. QED  BY <1>1, <2>2, <4>1
    <3>5. ~(t <= stop)
      BY <1>5, <1>8, <3>3, <3>4
    <3>. QED  BY <1>5, <3>2, <3>3, <3>5
  <2>4. /\ rest \in Texts /\ Len(rest) = n - k
        /\ \A m \in 1..(n - k) : rest[m] = f[k + m]
    <3>1. s \in 0..Len(after) /\ Len(after) - s = n - k
      BY <1>1, <1>4, <2>1, <2>2
    <3>2. /\ rest \in Texts /\ Len(rest) = n - k
          /\ \A m \in 1..(n - k) : rest[m] = after[s + m]
      <4>1. after \in Seq(Tokens)
        BY <1>1 DEF Texts
      <4>. HIDE DEF after
      <4>2. /\ Behind(after, s) \in Seq(Tokens) /\ Len(Behind(after, s)) = Len(after) - s
            /\ \A m \in 1..(Len(after) - s) : Behind(after, s)[m] = after[s + m]
        BY <3>1, <4>1, BehindAt
      <4>. QED  BY <2>3, <3>1, <4>2 DEF Texts
    <3>3. \A m \in 1..(n - k) : s + m \in 1..(n - i) /\ i + (s + m) = k + m
      BY <1>4, <2>1, <2>2
    <3>. HIDE DEF rest, after
    <3>4. \A m \in 1..(n - k) : after[s + m] = f[i + (s + m)]
      BY <1>1, <3>3 DEF after
    <3>. QED  BY <3>2, <3>3, <3>4
  <2>5. rest = Behind(f, k)
    <3>. DEFINE b == Behind(f, k)
    <3>1. k \in 0..Len(f)
      BY <1>1, <1>4, <2>1
    <3>2. b \in Seq(Tokens) /\ Len(b) = n - k /\ \A m \in 1..(n - k) : b[m] = f[k + m]
      BY <1>1, <3>1, BehindAt DEF Texts
    <3>. HIDE DEF rest, b
    <3>3. \A m \in 1..Len(rest) : rest[m] = b[m]
      BY <2>4, <3>2
    <3>4. rest = b
      BY <2>4, <3>2, <3>3, SeqEqual DEF Texts
    <3>. QED  BY <3>4 DEF b
  <2>. HIDE DEF rest
  <2>6. PICK v \in 1..(n - k) : v = j - k
    BY <1>4, <2>1
  <2>7. Behind(rest, 0) = rest
    BY <2>4 DEF Behind, Texts
  <2>8. ASSUME NEW m \in 1..v, m = 1 \/ rest[m - 1] \in Stops
        PROVE  RefersBack(FirstSentence(Behind(rest, m - 1)))
    <3>1. CASE m = 1
      <4>1. m - 1 = 0
        BY <3>1
      <4>. QED  BY <1>8, <2>5, <2>7, <4>1
    <3>2. CASE m # 1
      <4>1. m - 1 \in 1..(n - k) /\ k + (m - 1) \in (k + 1)..(j - 1)
        BY <1>4, <2>1, <2>6, <3>2
      <4>2. rest[m - 1] \notin Stops
        BY <1>8, <2>4, <4>1 DEF SameSentence
      <4>. QED  BY <2>8, <3>2, <4>2
    <3>. QED  BY <3>1, <3>2
  <2>9. v <= Len(Chain(rest)) /\ v \in DOMAIN Chain(rest) /\ Chain(rest)[v] = rest[v]
    <3>1. v \in 1..Len(rest)
      BY <2>4, <2>6
    <3>2. v <= Len(Chain(rest))
      BY <2>4, <2>8, <3>1, ChainAt
    <3>3. v \in 1..Len(Chain(rest))
      <4>1. Len(Chain(rest)) \in Nat
        BY <2>4, ChainAt DEF Texts
      <4>. QED  BY <3>1, <3>2, <4>1
    <3>. QED  BY <2>4, <3>2, <3>3, ChainAt
  <2>10. rest[v] = f[j]
    <3>1. k + v = j
      BY <1>4, <2>1, <2>6
    <3>. QED  BY <2>4, <2>6, <3>1
  <2>11. Chain(rest)[v] \in Numbers
    BY <1>2, <1>3, <2>9, <2>10
  <2>12. Occurs(Numbers, Chain(rest))
    BY <2>9, <2>11 DEF Occurs, Positions
  <2>. QED  BY <2>12 DEF NumericCandidate, Rest, rest
<1>. QED  BY <1>3, <1>6, <1>7, <1>8

LEMMA InvSound == ProbeInv => AbsenceIsSound
<1>. SUFFICES ASSUME ProbeInv, probe.conclusion = "not_found_in_probe", NEW d \in DOMAIN corpus,
                     NEW i \in DOMAIN Flat(d), StatesValue(Flat(d), i)
              PROVE  FALSE
  BY DEF AbsenceIsSound, Reported
<1>. DEFINE f == Flat(d)
<1>1. corpus \in Seq(Seq(Texts))
  BY Zenon DEF ProbeInv
<1>2. f \in Texts /\ i \in 1..Len(f) /\ f[i] = "metric"
  <2>1. f \in Texts
    BY <1>1, FlatIs
  <2>. QED  BY <2>1 DEF Texts, StatesValue
<1>3. PICK c \in Chunks : c[1] = d /\ At(c) \in Nat /\ i - At(c) \in 1..Len(Text(c))
  BY <1>1, <1>2, LocatedIn
<1>4. PICK x \in 1..Len(Text(c)) : x = i - At(c)
  BY <1>3
<1>. DEFINE o == Whole(c, x)
<1>5. i = At(c) + x
  <2>1. x \in Int /\ i \in Int /\ At(c) \in Int
    BY <1>2, <1>3, <1>4
  <2>. QED  BY <1>4, <2>1
<1>6. /\ f[i] = Text(c)[x]
      /\ Len(o.after) = Len(f) - i /\ \A k \in 1..(Len(f) - i) : o.after[k] = f[i + k]
      /\ i > 1 /\ f[i - 1] \notin Stops => o.before # <<>> /\ Last(o.before) = f[i - 1]
  BY <1>1, <1>3, <1>5, WholeInDocument
<1>7. Between(o)
  BY <1>1, WholeTyped
<1>. HIDE DEF f, o
<1>8. StatesValue(f, i)
  BY DEF f
<1>9. NumericCandidate(o)
  BY <1>2, <1>6, <1>7, <1>8, ValueIsEvidence
<1>10. ~Evidence(o)
  BY <1>2, <1>6, NothingSaid DEF o
<1>. QED  BY <1>9, <1>10 DEF Evidence

\* In every run, whatever the documents and wherever they were cut into chunks, whatever the searches
\* ranked first, and whatever failed or did not fit: absence is never concluded from a corpus that
\* states a value for the metric.  A mention is open in its whole context, which is its document from
\* one end of its sentence to the end, and what states a value there is a number that the analysis of
\* the mention finds (absence.py:627-782).
THEOREM AbsenceIsAlwaysSound == Spec => []AbsenceIsSound
BY AlwaysProbeInv, InvSound, PTL

(***************************************************************************)
(* What is verified is stated.                                             *)
(***************************************************************************)
\* Where the parts of a report are in its assertion: metric, value and period (0 if there is none),
\* and the place where the report ends.
Parts(a, o, m, v, p, z) ==
    /\ m \in 1..Len(a) /\ v \in 1..Len(a) /\ m < v /\ a[m] = "metric" /\ a[v] = o.value
    /\ \/ SubSeq(a, m + 1, v - 1) = <<"is">>
       \/ NextSentence(SubSeq(a, m + 1, v - 1), o)
    /\ \/ p = 0 /\ o.period = NoPeriod
       \/ /\ p \in 1..Len(a) /\ a[p] = o.period /\ o.period \in Temporals
          /\ (m < p /\ p < v) \/ p = m - 1 \/ p = v + 1
          /\ \A n \in (m + 1)..(v - 1) : a[n] = o.period => p <= n
    /\ z \in 1..Len(a) /\ z = (IF v < p THEN p ELSE v)
    /\ Len(a) = z \/ (Len(a) = z + 1 /\ a[z + 1] \in Stops)
    /\ m = 1 \/ (m = 2 /\ p = 1)

LEMMA BoundParts ==
  ASSUME NEW o \in Observations, NEW a \in Texts, Binds(o, a)
  PROVE  \E v, p, z \in Nat : Parts(a, o, MetricOf(o, a), v, p, z)
<1>. DEFINE M == {b[1] : b \in Bindings(o, a)}
            m == MetricOf(o, a)
<1>1. a \in Seq(Tokens) /\ Len(a) \in Nat /\ DOMAIN a = 1..Len(a)
  BY DEF Texts
<1>2. Bindings(o, a) \subseteq Positions(a, {"metric"}) \X Positions(a, {o.value})
  BY DEF Bindings
<1>3. M \in SUBSET Nat /\ M # {}
  <2>1. \A b \in Bindings(o, a) : b[1] \in 1..Len(a)
    BY <1>1, <1>2 DEF Positions
  <2>2. Bindings(o, a) # {}
    BY DEF Binds
  <2>. QED  BY <1>1, <2>1, <2>2
<1>4. m \in M
  <2>1. m = Min(M)
    BY DEF MetricOf
  <2>. HIDE DEF M, m
  <2>. QED  BY <1>3, <2>1, LeastIsMin
<1>5. PICK b \in Bindings(o, a) : b[1] = m
  BY <1>4
<1>. DEFINE v == b[2]
            between == SubSeq(a, m + 1, v - 1)
            periods == PeriodAt(a, m, v, o)
            p == IF o.period = NoPeriod THEN 0 ELSE Min(periods)
            z == Max({v, p})
<1>6. /\ m < v
      /\ between = <<"is">> \/ NextSentence(between, o)
      /\ o.period # NoPeriod => periods # {}
      /\ WholeAssertion(a, m, v, p)
  BY <1>5 DEF Bindings
<1>7. /\ m \in 1..Len(a) /\ v \in 1..Len(a) /\ a[m] = "metric" /\ a[v] = o.value
  BY <1>1, <1>2, <1>5 DEF Positions
<1>. HIDE DEF m, v, M
<1>8. \/ p = 0 /\ o.period = NoPeriod
      \/ /\ p \in 1..Len(a) /\ a[p] = o.period /\ o.period \in Temporals
         /\ (m < p /\ p < v) \/ p = m - 1 \/ p = v + 1
         /\ \A n \in (m + 1)..(v - 1) : a[n] = o.period => p <= n
  <2>1. CASE o.period = NoPeriod
    BY <2>1
  <2>2. CASE o.period # NoPeriod
    <3>1. o.period \in Temporals
      BY <2>2 DEF Observations
    <3>2. periods \in SUBSET Nat /\ periods # {}
      BY <1>1, <1>6, <2>2 DEF PeriodAt, Positions
    <3>3. Min(periods) \in periods /\ \A n \in periods : Min(periods) <= n
      <4>. HIDE DEF periods
      <4>. QED  BY <3>2, LeastIsMin
    <3>4. p = Min(periods)
      BY <2>2
    <3>. HIDE DEF p
    <3>5. p \in 1..Len(a) /\ a[p] = o.period /\ ((m < p /\ p < v) \/ p = m - 1 \/ p = v + 1)
      BY <1>1, <3>3, <3>4 DEF PeriodAt, Positions
    <3>6. ASSUME NEW n \in (m + 1)..(v - 1), a[n] = o.period PROVE p <= n
      <4>1. n \in 1..Len(a) /\ m < n /\ n < v
        BY <1>1, <1>7
      <4>2. n \in periods
        BY <1>1, <3>6, <4>1 DEF PeriodAt, Positions
      <4>. QED  BY <3>3, <3>4, <4>2
    <3>. QED  BY <3>1, <3>5, <3>6
  <2>. QED  BY <2>1, <2>2
<1>9. p \in Nat /\ v \in Nat
  BY <1>7, <1>8
<1>10. z = (IF v < p THEN p ELSE v) /\ z \in 1..Len(a)
  <2>. HIDE DEF p
  <2>1. {v, p} \in SUBSET Nat /\ {v, p} # {} /\ \A x \in {v, p} : x <= v + p
    BY <1>9
  <2>2. Max({v, p}) \in {v, p} /\ \A n \in {v, p} : n <= Max({v, p})
    <3>1. v \in {v, p} /\ v + p \in Nat
      BY <1>9
    <3>. QED  BY <2>1, <3>1, GreatestIsMax
  <2>. QED  BY <1>7, <1>8, <1>9, <2>2
<1>. HIDE DEF p, z
<1>11. Len(a) = z \/ (Len(a) = z + 1 /\ a[z + 1] \in Stops)
  <2>1. Behind(a, z) \in {<<>>} \cup {<<s>> : s \in Stops}
    BY <1>6 DEF WholeAssertion, z
  <2>. DEFINE t == Behind(a, z)
  <2>2. /\ Len(t) = Len(a) - z
        /\ \A k \in 1..(Len(a) - z) : t[k] = a[z + k]
    <3>1. z \in 0..Len(a)
      BY <1>10
    <3>. QED  BY <1>1, <3>1, BehindAt
  <2>3. t = <<>> \/ \E s \in Stops : t = <<s>>
    BY <2>1
  <2>4. z \in Nat /\ Len(a) \in Nat /\ Len(t) \in Nat
    BY <1>1, <1>10, <2>2
  <2>. HIDE DEF t, z
  <2>5. t = <<>> => Len(a) = z
    BY <2>2, <2>4
  <2>6. ASSUME NEW s \in Stops, t = <<s>> PROVE Len(a) = z + 1 /\ a[z + 1] \in Stops
    <3>1. Len(t) = 1 /\ t[1] = s
      BY <2>6
    <3>2. Len(a) = z + 1
      <4>1. \A n \in Nat : 1 = n - z => n = z + 1
        BY <2>4
      <4>. QED  BY <2>2, <2>4, <3>1, <4>1
    <3>3. 1 \in 1..(Len(a) - z)
      BY <2>4, <3>2
    <3>. QED  BY <2>2, <3>1, <3>2, <3>3
  <2>. QED  BY <2>3, <2>5, <2>6
<1>12. m = 1 \/ (m = 2 /\ p = 1)
  <2>. DEFINE f == IF p \in 1..m THEN p ELSE m
  <2>1. Before(a, f) = <<>>
    BY <1>6 DEF WholeAssertion
  <2>2. f \in 1..(Len(a) + 1)
    BY <1>1, <1>7
  <2>3. f = 1
    <3>. HIDE DEF f
    <3>1. Len(Before(a, f)) = f - 1
      BY <1>1, <2>2, BeforeAt
    <3>. QED  BY <2>1, <2>2, <3>1
  <2>4. CASE p \in 1..m
    <3>1. p = 1
      BY <2>3, <2>4
    <3>2. p = m - 1
      <4>1. p # 0 /\ ~(m < p) /\ p # v + 1
        BY <1>6, <1>7, <2>4, <3>1
      <4>. QED  BY <1>8, <4>1
    <3>. QED  BY <1>7, <3>1, <3>2
  <2>5. CASE p \notin 1..m
    BY <2>3, <2>5
  <2>. QED  BY <2>4, <2>5
<1>13. Parts(a, o, m, v, p, z)
  BY <1>6, <1>7, <1>8, <1>10, <1>11, <1>12 DEF Parts
<1>14. z \in Nat
  BY <1>10
<1>. QED  BY <1>9, <1>13, <1>14 DEF m

\* A part of two, three or four tokens.
LEMMA ShortParts ==
  ASSUME NEW S, NEW s \in Seq(S), NEW i \in 1..Len(s)
  PROVE  /\ i + 1 <= Len(s) => SubSeq(s, i, i + 1) = <<s[i], s[i + 1]>>
         /\ i + 2 <= Len(s) => SubSeq(s, i, i + 2) = <<s[i], s[i + 1], s[i + 2]>>
         /\ i + 3 <= Len(s) => SubSeq(s, i, i + 3) = <<s[i], s[i + 1], s[i + 2], s[i + 3]>>
<1>. DEFINE part(n) == SubSeq(s, i, i + n)
<1>1. ASSUME NEW n \in 1..3, i + n <= Len(s)
      PROVE  /\ part(n) \in Seq(S) /\ Len(part(n)) = n + 1
             /\ \A k \in 1..(n + 1) : part(n)[k] = s[i + k - 1]
  <2>1. \A k \in i..(i + n) : s[k] \in S
    BY <1>1
  <2>. QED  BY <1>1, <2>1, SubSeqProperties
<1>. HIDE DEF part
<1>2. ASSUME i + 1 <= Len(s) PROVE part(1) = <<s[i], s[i + 1]>>
  BY <1>1, <1>2
<1>3. ASSUME i + 2 <= Len(s) PROVE part(2) = <<s[i], s[i + 1], s[i + 2]>>
  BY <1>1, <1>3
<1>4. ASSUME i + 3 <= Len(s) PROVE part(3) = <<s[i], s[i + 1], s[i + 2], s[i + 3]>>
  BY <1>1, <1>4
<1>. QED  BY <1>2, <1>3, <1>4 DEF part

\* When a sequence is two others put together.
LEMMA ConcatIs ==
  ASSUME NEW S, NEW s \in Seq(S), NEW t \in Seq(S), NEW r \in Seq(S), Len(r) = Len(s) + Len(t),
         \A k \in 1..Len(s) : r[k] = s[k], \A k \in 1..Len(t) : r[Len(s) + k] = t[k]
  PROVE  s \o t = r
<1>1. /\ s \o t \in Seq(S) /\ Len(s \o t) = Len(s) + Len(t)
      /\ \A k \in 1..Len(s) : (s \o t)[k] = s[k]
      /\ \A k \in 1..Len(t) : (s \o t)[Len(s) + k] = t[k]
  BY ConcatAt
<1>2. ASSUME NEW k \in 1..Len(r) PROVE (s \o t)[k] = r[k]
  <2>1. k \in 1..Len(s) \/ (k - Len(s) \in 1..Len(t) /\ k = Len(s) + (k - Len(s)))
    OBVIOUS
  <2>. QED  BY <1>1, <2>1
<1>. QED  BY <1>1, <1>2, SeqEqual

LEMMA Pair ==
  ASSUME NEW x, NEW y
  PROVE  <<x>> \o <<y>> = <<x, y>>
<1>. DEFINE S == {x, y}
            s == <<x>>
            t == <<y>>
            r == <<x, y>>
<1>1. s \in Seq(S) /\ t \in Seq(S) /\ r \in Seq(S)
  OBVIOUS
<1>2. Len(s) = 1 /\ Len(t) = 1 /\ Len(r) = 2
  OBVIOUS
<1>3. r[1] = s[1] /\ r[2] = t[1]
  OBVIOUS
<1>. HIDE DEF S, s, t, r
<1>4. (\A k \in 1..Len(s) : r[k] = s[k]) /\ \A k \in 1..Len(t) : r[Len(s) + k] = t[k]
  BY <1>2, <1>3
<1>5. Len(r) = Len(s) + Len(t)
  BY <1>2
<1>6. s \o t = r
  BY <1>1, <1>4, <1>5, ConcatIs, Zenon
<1>. QED  BY <1>6 DEF s, t, r

LEMMA PairAndOne ==
  ASSUME NEW x, NEW y, NEW u
  PROVE  <<x, y>> \o <<u>> = <<x, y, u>>
<1>. DEFINE S == {x, y, u}
            s == <<x, y>>
            t == <<u>>
            r == <<x, y, u>>
<1>1. s \in Seq(S) /\ t \in Seq(S) /\ r \in Seq(S)
  OBVIOUS
<1>2. Len(s) = 2 /\ Len(t) = 1 /\ Len(r) = 3
  OBVIOUS
<1>3. r[1] = s[1] /\ r[2] = s[2] /\ r[3] = t[1]
  OBVIOUS
<1>. HIDE DEF S, s, t, r
<1>4. (\A k \in 1..Len(s) : r[k] = s[k]) /\ \A k \in 1..Len(t) : r[Len(s) + k] = t[k]
  BY <1>2, <1>3
<1>5. Len(r) = Len(s) + Len(t)
  BY <1>2
<1>6. s \o t = r
  BY <1>1, <1>4, <1>5, ConcatIs, Zenon
<1>. QED  BY <1>6 DEF s, t, r

LEMMA OneAndPair ==
  ASSUME NEW x, NEW y, NEW u
  PROVE  <<x>> \o <<y, u>> = <<x, y, u>>
<1>. DEFINE S == {x, y, u}
            s == <<x>>
            t == <<y, u>>
            r == <<x, y, u>>
<1>1. s \in Seq(S) /\ t \in Seq(S) /\ r \in Seq(S)
  OBVIOUS
<1>2. Len(s) = 1 /\ Len(t) = 2 /\ Len(r) = 3
  OBVIOUS
<1>3. r[1] = s[1] /\ r[2] = t[1] /\ r[3] = t[2]
  OBVIOUS
<1>. HIDE DEF S, s, t, r
<1>4. (\A k \in 1..Len(s) : r[k] = s[k]) /\ \A k \in 1..Len(t) : r[Len(s) + k] = t[k]
  BY <1>2, <1>3
<1>5. Len(r) = Len(s) + Len(t)
  BY <1>2
<1>6. s \o t = r
  BY <1>1, <1>4, <1>5, ConcatIs, Zenon
<1>. QED  BY <1>6 DEF s, t, r

LEMMA TripleAndOne ==
  ASSUME NEW x, NEW y, NEW u, NEW w
  PROVE  <<x, y, u>> \o <<w>> = <<x, y, u, w>>
<1>. DEFINE S == {x, y, u, w}
            s == <<x, y, u>>
            t == <<w>>
            r == <<x, y, u, w>>
<1>1. s \in Seq(S) /\ t \in Seq(S) /\ r \in Seq(S)
  OBVIOUS
<1>2. Len(s) = 3 /\ Len(t) = 1 /\ Len(r) = 4
  OBVIOUS
<1>3. r[1] = s[1] /\ r[2] = s[2] /\ r[3] = s[3] /\ r[4] = t[1]
  OBVIOUS
<1>. HIDE DEF S, s, t, r
<1>4. (\A k \in 1..Len(s) : r[k] = s[k]) /\ \A k \in 1..Len(t) : r[Len(s) + k] = t[k]
  BY <1>2, <1>3
<1>5. Len(r) = Len(s) + Len(t)
  BY <1>2
<1>6. s \o t = r
  BY <1>1, <1>4, <1>5, ConcatIs, Zenon
<1>. QED  BY <1>6 DEF s, t, r

LEMMA PairAndPair ==
  ASSUME NEW x, NEW y, NEW u, NEW w
  PROVE  <<x, y>> \o <<u, w>> = <<x, y, u, w>>
<1>. DEFINE S == {x, y, u, w}
            s == <<x, y>>
            t == <<u, w>>
            r == <<x, y, u, w>>
<1>1. s \in Seq(S) /\ t \in Seq(S) /\ r \in Seq(S)
  OBVIOUS
<1>2. Len(s) = 2 /\ Len(t) = 2 /\ Len(r) = 4
  OBVIOUS
<1>3. r[1] = s[1] /\ r[2] = s[2] /\ r[3] = t[1] /\ r[4] = t[2]
  OBVIOUS
<1>. HIDE DEF S, s, t, r
<1>4. (\A k \in 1..Len(s) : r[k] = s[k]) /\ \A k \in 1..Len(t) : r[Len(s) + k] = t[k]
  BY <1>2, <1>3
<1>5. Len(r) = Len(s) + Len(t)
  BY <1>2
<1>6. s \o t = r
  BY <1>1, <1>4, <1>5, ConcatIs, Zenon
<1>. QED  BY <1>6 DEF s, t, r

\* What stands between two places.
LEMMA BetweenAt ==
  ASSUME NEW a \in Texts, NEW m \in 1..Len(a), NEW v \in 1..Len(a), m < v
  PROVE  /\ SubSeq(a, m + 1, v - 1) \in Texts /\ Len(SubSeq(a, m + 1, v - 1)) = v - 1 - m
         /\ \A k \in 1..(v - 1 - m) : SubSeq(a, m + 1, v - 1)[k] = a[m + k]
<1>1. a \in Seq(Tokens) /\ Len(a) \in Nat
  BY DEF Texts
<1>2. \A k \in (m + 1)..(v - 1) : a[k] \in Tokens
  BY <1>1
<1>. DEFINE b == SubSeq(a, m + 1, v - 1)
<1>3. /\ b \in Seq(Tokens) /\ Len(b) = IF m + 1 <= v - 1 THEN v - 1 - (m + 1) + 1 ELSE 0
      /\ \A k \in 1..(v - 1 - (m + 1) + 1) : b[k] = a[m + 1 + k - 1]
  BY <1>1, <1>2, SubSeqProperties
<1>. HIDE DEF b
<1>4. \A k \in 1..(v - 1 - m) : k \in 1..(v - 1 - (m + 1) + 1) /\ m + 1 + k - 1 = m + k
  OBVIOUS
<1>5. Len(b) = v - 1 - m
  BY <1>3
<1>. QED  BY <1>3, <1>4, <1>5 DEF b, Texts

\* A report with a connector only.
LEMMA DirectIsClause ==
  ASSUME NEW o \in Observations, NEW a \in Texts, NEW m, NEW v, NEW p, NEW z,
         Parts(a, o, m, v, p, z), SubSeq(a, m + 1, v - 1) = <<"is">>
  PROVE  Clause(a, 1, z, <<"metric", "is">>, o)
<1>1. a \in Seq(Tokens) /\ Len(a) \in Nat
  BY DEF Texts
<1>2. /\ m \in 1..Len(a) /\ v \in 1..Len(a) /\ m < v /\ a[m] = "metric" /\ a[v] = o.value
      /\ z \in 1..Len(a) /\ z = (IF v < p THEN p ELSE v)
      /\ m = 1 \/ (m = 2 /\ p = 1)
      /\ \/ p = 0 /\ o.period = NoPeriod
         \/ /\ p \in 1..Len(a) /\ a[p] = o.period /\ o.period \in Temporals
            /\ (m < p /\ p < v) \/ p = m - 1 \/ p = v + 1
  BY DEF Parts
<1>. DEFINE Arithmetic ==
              /\ m \in Nat /\ v \in Nat /\ p \in Nat /\ z \in Nat
              /\ z = (IF v < p THEN p ELSE v) /\ (m = 1 \/ (m = 2 /\ p = 1)) /\ m # 0
<1>8. Arithmetic
  BY <1>2
<1>3. v = m + 2 /\ a[m + 1] = "is"
  <2>. DEFINE b == SubSeq(a, m + 1, v - 1)
  <2>1. Len(b) = v - 1 - m /\ \A k \in 1..(v - 1 - m) : b[k] = a[m + k]
    BY <1>2, BetweenAt
  <2>2. Len(b) = 1 /\ b[1] = "is"
    <3>1. b = <<"is">>
      OBVIOUS
    <3>. HIDE DEF b
    <3>. QED  BY <3>1
  <2>. HIDE DEF b
  <2>3. \A l : l = v - 1 - m /\ l = 1 => v = m + 2
    BY <1>8
  <2>4. v = m + 2
    BY <2>1, <2>2, <2>3
  <2>5. v - 1 - m = 1
    BY <1>8, <2>4
  <2>6. 1 \in 1..(v - 1 - m)
    BY <2>5
  <2>. QED  BY <2>1, <2>2, <2>4, <2>6
<1>4. CASE p = 0
  <2>0. m = 1 /\ v = 3 /\ z = 3
    BY <1>3, <1>8, <1>4
  <2>1. o.period = NoPeriod
    BY <1>2, <1>4 DEF Temporals
  <2>2. SubSeq(a, 1, 3) = <<a[1], a[2], a[3]>>
    BY <1>1, <1>2, <2>0, ShortParts
  <2>3. <<"metric", "is">> \o <<o.value>> = <<"metric", "is", o.value>>
    BY PairAndOne, Zenon
  <2>. QED  BY <1>2, <1>3, <2>0, <2>1, <2>2, <2>3 DEF Clause
<1>5. CASE p = m - 1 /\ p # 0
  <2>0. m = 2 /\ v = 4 /\ z = 4
    BY <1>3, <1>8, <1>5
  <2>1. a[1] = o.period
    BY <1>2, <1>3, <1>5, <2>0
  <2>2. SubSeq(a, 1, 4) = <<a[1], a[2], a[3], a[4]>>
    BY <1>1, <1>2, <2>0, ShortParts
  <2>3. <<o.period>> \o <<"metric", "is">> \o <<o.value>> = <<o.period, "metric", "is", o.value>>
    <3>1. <<o.period>> \o <<"metric", "is">> = <<o.period, "metric", "is">>
      BY OneAndPair, Zenon
    <3>2. <<o.period, "metric", "is">> \o <<o.value>> = <<o.period, "metric", "is", o.value>>
      BY TripleAndOne, Zenon
    <3>. QED  BY <3>1, <3>2
  <2>4. a[2] = "metric" /\ a[3] = "is" /\ a[4] = o.value
    BY <1>2, <1>3, <2>0
  <2>5. SubSeq(a, 1, 4) = <<o.period, "metric", "is", o.value>>
    BY <2>1, <2>2, <2>4
  <2>. QED  BY <2>0, <2>3, <2>5 DEF Clause
<1>6. CASE p = v + 1
  <2>0. m = 1 /\ v = 3 /\ z = 4
    BY <1>3, <1>8, <1>6
  <2>1. a[4] = o.period
    BY <1>2, <1>3, <1>6, <2>0
  <2>2. SubSeq(a, 1, 4) = <<a[1], a[2], a[3], a[4]>>
    BY <1>1, <1>2, <2>0, ShortParts
  <2>3. <<"metric", "is">> \o <<o.value, o.period>> = <<"metric", "is", o.value, o.period>>
    BY PairAndPair, Zenon
  <2>4. a[1] = "metric" /\ a[2] = "is" /\ a[3] = o.value
    BY <1>2, <1>3, <2>0
  <2>5. SubSeq(a, 1, 4) = <<"metric", "is", o.value, o.period>>
    BY <2>1, <2>2, <2>4
  <2>. QED  BY <2>0, <2>3, <2>5 DEF Clause
<1>7. CASE m < p /\ p < v
  <2>1. p = m + 1 /\ a[p] = "is" /\ a[p] \in Temporals
    <3>1. p = m + 1 /\ p # 0
      BY <1>3, <1>7, <1>8
    <3>2. o.period \in Temporals /\ a[p] = o.period
      BY <1>2, <3>1
    <3>. QED  BY <1>3, <3>1, <3>2
  <2>. QED  BY <2>1 DEF Temporals
<1>. QED  BY <1>2, <1>4, <1>5, <1>6, <1>7

\* A report with a pronoun: where the sentence before it ends, and what stands around.
Antecedent(a, o, m, v, k) ==
    /\ m < k /\ k < v /\ a[k] = "." /\ \A n \in (m + 1)..(k - 1) : a[n] # "."
    /\ \/ v = k + 2 /\ a[k + 1] = "it"
       \/ v = k + 3 /\ a[k + 1] = o.period /\ a[k + 2] = "it"
    /\ \/ k = m + 2 /\ a[m + 1] = "stated"
       \/ /\ m + 2 < k /\ a[m + 1] = "is" /\ a[m + 2] \in Values
          /\ m + 3 < k => a[m + 3] \in Temporals
          /\ v = k + 3 \/ a[m + 2] = o.value

LEMMA NextSentenceAt ==
  ASSUME NEW o \in Observations, NEW a \in Texts, NEW m \in 1..Len(a), NEW v \in 1..Len(a), m < v,
         NextSentence(SubSeq(a, m + 1, v - 1), o)
  PROVE  \E k \in Nat : Antecedent(a, o, m, v, k)
<1>. DEFINE b == SubSeq(a, m + 1, v - 1)
            T == Positions(b, {"."})
            stop == Min(T)
            said == Before(b, stop)
            lead == Behind(b, stop)
            variant == Len(lead) = 2 /\ lead[1] = o.period
            n == v - 1 - m
<1>1. /\ b \in Texts /\ Len(b) = n
      /\ \A j \in 1..n : b[j] = a[m + j]
  BY BetweenAt
<1>2. m \in Nat /\ v \in Nat /\ m # 0 /\ n \in Nat /\ v = m + n + 1
  OBVIOUS
<1>3. /\ T # {}
      /\ lead = <<"it">> \/ (variant /\ lead[2] = "it")
      /\ PositiveAntecedent(said, o.value, variant)
  BY DEF NextSentence, Occurs
<1>. HIDE DEF b, n
<1>4. b \in Seq(Tokens) /\ DOMAIN b = 1..n
  BY <1>1 DEF Texts
<1>5. stop \in T /\ \A j \in T : stop <= j
  <2>1. T \in SUBSET Nat
    BY <1>2, <1>4 DEF Positions
  <2>. HIDE DEF T
  <2>. QED  BY <1>3, <2>1, LeastIsMin
<1>6. stop \in 1..n /\ b[stop] = "." /\ \A j \in 1..(stop - 1) : b[j] # "."
  <2>1. stop \in 1..n /\ b[stop] = "."
    BY <1>4, <1>5 DEF Positions
  <2>. HIDE DEF stop
  <2>2. ASSUME NEW j \in 1..(stop - 1), b[j] = "." PROVE FALSE
    <3>1. j \in 1..n /\ j < stop
      BY <1>2, <2>1
    <3>2. j \in T
      BY <1>4, <2>2, <3>1 DEF Positions
    <3>. QED  BY <1>5, <2>1, <3>1, <3>2
  <2>. QED  BY <2>1, <2>2
<1>7. Len(lead) = n - stop /\ \A j \in 1..(n - stop) : lead[j] = b[stop + j]
  <2>. HIDE DEF stop, n
  <2>1. stop \in 0..Len(b)
    BY <1>1, <1>6
  <2>. QED  BY <1>1, <1>4, <2>1, BehindAt
<1>8. Len(said) = stop - 1 /\ \A j \in 1..(stop - 1) : said[j] = b[j]
  <2>. HIDE DEF stop, n
  <2>1. stop \in 1..(Len(b) + 1)
    BY <1>1, <1>2, <1>6
  <2>. QED  BY <1>1, <1>4, <2>1, BeforeAt
<1>. DEFINE k == m + stop
<1>. HIDE DEF T, stop, said, lead
<1>9. stop \in Nat /\ stop # 0 /\ stop <= n /\ Len(lead) \in Nat /\ Len(said) \in Nat
  BY <1>2, <1>6, <1>7, <1>8
<1>10. m < k /\ k < v /\ a[k] = "." /\ \A j \in (m + 1)..(k - 1) : a[j] # "."
  <2>1. m < k /\ k < v
    BY <1>2, <1>9
  <2>2. a[k] = "."
    BY <1>1, <1>6
  <2>3. ASSUME NEW j \in (m + 1)..(k - 1) PROVE a[j] # "."
    <3>1. j - m \in 1..(stop - 1) /\ j - m \in 1..n /\ m + (j - m) = j
      BY <1>2, <1>9
    <3>. QED  BY <1>1, <1>6, <3>1
  <2>. QED  BY <2>1, <2>2, <2>3
<1>11. ASSUME lead = <<"it">> PROVE v = k + 2 /\ a[k + 1] = "it"
  <2>1. Len(lead) = 1 /\ lead[1] = "it"
    BY <1>11
  <2>2. n = stop + 1
    <3>1. \A x, y \in Nat : 1 = x - y => x = y + 1
      OBVIOUS
    <3>. QED  BY <1>2, <1>7, <1>9, <2>1, <3>1
  <2>3. v = k + 2 /\ k + 1 = m + (stop + 1)
    BY <1>2, <1>9, <2>2
  <2>4. a[k + 1] = "it"
    <3>1. 1 \in 1..(n - stop) /\ stop + 1 \in 1..n
      BY <1>9, <2>2
    <3>. QED  BY <1>1, <1>7, <2>1, <2>3, <3>1
  <2>. QED  BY <2>3, <2>4
<1>12. ASSUME variant, lead[2] = "it" PROVE v = k + 3 /\ a[k + 1] = o.period /\ a[k + 2] = "it"
  <2>1. Len(lead) = 2 /\ lead[1] = o.period /\ lead[2] = "it"
    BY <1>12
  <2>2. n = stop + 2
    <3>1. \A x, y \in Nat : 2 = x - y => x = y + 2
      OBVIOUS
    <3>. QED  BY <1>2, <1>7, <1>9, <2>1, <3>1
  <2>3. v = k + 3 /\ k + 1 = m + (stop + 1) /\ k + 2 = m + (stop + 2)
    BY <1>2, <1>9, <2>2
  <2>4. a[k + 1] = o.period /\ a[k + 2] = "it"
    <3>1. 1 \in 1..(n - stop) /\ stop + 1 \in 1..n /\ 2 \in 1..(n - stop) /\ stop + 2 \in 1..n
      BY <1>9, <2>2
    <3>. QED  BY <1>1, <1>7, <2>1, <2>3, <3>1
  <2>. QED  BY <2>3, <2>4
<1>13. \/ v = k + 2 /\ a[k + 1] = "it" /\ ~variant
       \/ v = k + 3 /\ a[k + 1] = o.period /\ a[k + 2] = "it"
  <2>1. lead = <<"it">> => Len(lead) # 2
    OBVIOUS
  <2>. QED  BY <1>3, <1>11, <1>12, <2>1
<1>14. \A j \in 1..(stop - 1) : said[j] = a[m + j]
  <2>1. \A j \in 1..(stop - 1) : j \in 1..n
    BY <1>2, <1>9
  <2>. QED  BY <1>1, <1>8, <2>1
<1>15. ASSUME said = <<"stated">> PROVE k = m + 2 /\ a[m + 1] = "stated"
  <2>1. Len(said) = 1 /\ said[1] = "stated"
    BY <1>15
  <2>2. stop = 2
    <3>1. \A x \in Nat : 1 = x - 1 => x = 2
      OBVIOUS
    <3>. QED  BY <1>8, <1>9, <2>1, <3>1
  <2>3. k = m + 2 /\ a[m + 1] = "stated"
    <3>1. 1 \in 1..(stop - 1)
      BY <2>2
    <3>. QED  BY <1>14, <2>1, <2>2, <3>1
  <2>. QED  BY <2>3
<1>16. ASSUME Len(said) > 1, said[1] = "is", said[2] \in Values,
              Len(said) > 2 => said[3] \in Temporals, variant \/ said[2] = o.value
       PROVE  /\ m + 2 < k /\ a[m + 1] = "is" /\ a[m + 2] \in Values
              /\ m + 3 < k => a[m + 3] \in Temporals
              /\ v = k + 3 \/ a[m + 2] = o.value
  <2>1. 1 \in 1..(stop - 1) /\ 2 \in 1..(stop - 1)
    BY <1>8, <1>9, <1>16
  <2>2. m + 2 < k /\ a[m + 1] = "is" /\ a[m + 2] = said[2] /\ a[m + 2] \in Values
    <3>1. m + 2 < k
      BY <1>2, <1>9, <2>1
    <3>. QED  BY <1>14, <1>16, <2>1, <3>1
  <2>3. ASSUME m + 3 < k PROVE a[m + 3] \in Temporals
    <3>1. 3 \in 1..(stop - 1) /\ Len(said) > 2
      BY <1>2, <1>8, <1>9, <2>3
    <3>. QED  BY <1>14, <1>16, <3>1
  <2>4. v = k + 3 \/ a[m + 2] = o.value
    BY <1>13, <1>16, <2>2
  <2>. QED  BY <2>2, <2>3, <2>4
<1>17. \/ said = <<"stated">>
       \/ /\ Len(said) > 1 /\ said[1] = "is" /\ said[2] \in Values
          /\ Len(said) > 2 => said[3] \in Temporals
          /\ variant \/ said[2] = o.value
  BY <1>3 DEF PositiveAntecedent
<1>18. k \in Nat
  BY <1>2, <1>9
<1>. HIDE DEF k, variant
<1>19. Antecedent(a, o, m, v, k)
  BY <1>10, <1>13, <1>15, <1>16, <1>17 DEF Antecedent
<1>. QED  BY <1>18, <1>19

\* A report with a pronoun.
LEMMA PronounIsStated ==
  ASSUME NEW o \in Observations, NEW a \in Texts, NEW m, NEW v, NEW p, NEW z,
         Parts(a, o, m, v, p, z), NextSentence(SubSeq(a, m + 1, v - 1), o)
  PROVE  StatedByPronoun(a, 1, z, o)
<1>1. a \in Seq(Tokens) /\ Len(a) \in Nat /\ DOMAIN a = 1..Len(a)
  BY DEF Texts
<1>2. /\ m \in 1..Len(a) /\ v \in 1..Len(a) /\ m < v /\ a[m] = "metric" /\ a[v] = o.value
      /\ z \in 1..Len(a) /\ z = (IF v < p THEN p ELSE v)
      /\ m = 1 \/ (m = 2 /\ p = 1)
      /\ \/ p = 0 /\ o.period = NoPeriod
         \/ /\ p \in 1..Len(a) /\ a[p] = o.period /\ o.period \in Temporals
            /\ (m < p /\ p < v) \/ p = m - 1 \/ p = v + 1
            /\ \A n \in (m + 1)..(v - 1) : a[n] = o.period => p <= n
  BY DEF Parts
<1>3. PICK k \in Nat : Antecedent(a, o, m, v, k)
  BY <1>2, NextSentenceAt
<1>4. /\ m < k /\ k < v /\ a[k] = "." /\ \A n \in (m + 1)..(k - 1) : a[n] # "."
      /\ \/ v = k + 2 /\ a[k + 1] = "it"
         \/ v = k + 3 /\ a[k + 1] = o.period /\ a[k + 2] = "it"
      /\ \/ k = m + 2 /\ a[m + 1] = "stated"
         \/ /\ m + 2 < k /\ a[m + 1] = "is" /\ a[m + 2] \in Values
            /\ m + 3 < k => a[m + 3] \in Temporals
            /\ v = k + 3 \/ a[m + 2] = o.value
  BY <1>3 DEF Antecedent
<1>5. m \in Nat /\ v \in Nat /\ p \in Nat /\ z \in Nat /\ m # 0 /\ v <= z /\ z <= Len(a)
  BY <1>2
<1>6. /\ o.value \in Values /\ o.period \in Temporals \cup {NoPeriod}
      /\ \A q : [o EXCEPT !.period = q].value = o.value /\ [o EXCEPT !.period = q].period = q
  BY DEF Observations
<1>7. m \in 1..z /\ k \in 1..z /\ k < z
  BY <1>4, <1>5
<1>8. m = 1 \/ (m = 2 /\ a[1] = o.period /\ o.period \in Temporals)
  BY <1>2
<1>9. ~Occurs({"."}, SubSeq(a, 1, k - 1))
  <2>. DEFINE s == SubSeq(a, 1, k - 1)
  <2>1. s \in Seq(Tokens) /\ Len(s) = k - 1 /\ \A n \in 1..(k - 1) : s[n] = a[n]
    BY <1>1, <1>4, <1>5
  <2>2. ASSUME NEW n \in 1..(k - 1) PROVE a[n] # "."
    <3>1. n = m \/ n \in (m + 1)..(k - 1) \/ (m = 2 /\ n = 1)
      BY <1>4, <1>5, <1>8
    <3>. QED  BY <1>2, <1>4, <1>8, <3>1 DEF Temporals
  <2>. HIDE DEF s
  <2>3. DOMAIN s = 1..(k - 1)
    BY <2>1
  <2>. QED  BY <2>1, <2>2, <2>3 DEF Occurs, Positions, s
<1>10. \/ a[m + 1] = "stated" /\ k = m + 2
       \/ /\ a[m + 1] = "is"
          /\ a[m + 2] \in (IF a[k + 1] = o.period THEN Values ELSE {o.value})
          /\ m + 3 < k => a[m + 3] \in Temporals
  BY <1>4, <1>5, <1>6
<1>11. \E q \in {o.period, NoPeriod} :
          /\ Clause(a, k + 1, z, <<"it">>, [o EXCEPT !.period = q])
          /\ q = o.period \/ Occurs({o.period}, SubSeq(a, 1, k))
  <2>1. CASE v = k + 2 /\ a[k + 1] = "it"
    <3>1. k + 1 \in 1..Len(a) /\ k + 2 <= Len(a) /\ a[k + 2] = o.value
      BY <1>2, <1>5, <2>1
    <3>2. SubSeq(a, k + 1, k + 2) = <<"it", o.value>>
      BY <1>1, <2>1, <3>1, ShortParts
    <3>3. <<"it">> \o <<o.value>> = <<"it", o.value>>
      BY Pair
    <3>4. CASE p = 0 \/ p < v
      <4>1. z = k + 2
        BY <1>2, <1>5, <2>1, <3>4
      <4>2. Clause(a, k + 1, z, <<"it">>, [o EXCEPT !.period = NoPeriod])
        BY <1>6, <3>2, <3>3, <4>1 DEF Clause
      <4>3. CASE p = 0
        BY <1>2, <4>2, <4>3
      <4>4. CASE p # 0
        <5>1. p \in 1..k /\ a[p] = o.period
          <6>1. p # k + 1
            BY <1>2, <2>1, <4>4 DEF Temporals
          <6>2. a[p] = o.period /\ ((m < p /\ p < v) \/ p = m - 1 \/ p = v + 1)
            BY <1>2, <4>4
          <6>. QED  BY <1>4, <1>5, <2>1, <3>4, <4>4, <6>1, <6>2
        <5>. DEFINE s == SubSeq(a, 1, k)
        <5>2. s \in Seq(Tokens) /\ Len(s) = k /\ \A n \in 1..k : s[n] = a[n]
          BY <1>1, <1>5, <1>7
        <5>. HIDE DEF s
        <5>3. p \in Positions(s, {o.period})
          BY <5>1, <5>2 DEF Positions
        <5>4. Occurs({o.period}, s)
          BY <5>3 DEF Occurs
        <5>. QED  BY <4>2, <5>4 DEF s
      <4>. QED  BY <4>3, <4>4
    <3>5. CASE p # 0 /\ ~(p < v)
      <4>1. p = v + 1 /\ a[p] = o.period
        BY <1>2, <1>5, <3>5
      <4>2. z = k + 3 /\ k + 3 <= Len(a) /\ a[k + 3] = o.period
        BY <1>2, <1>5, <2>1, <4>1
      <4>3. SubSeq(a, k + 1, k + 3) = <<"it", o.value, o.period>>
        BY <1>1, <2>1, <3>1, <4>2, ShortParts
      <4>4. <<"it">> \o <<o.value, o.period>> = <<"it", o.value, o.period>>
        BY OneAndPair
      <4>5. Clause(a, k + 1, z, <<"it">>, [o EXCEPT !.period = o.period])
        BY <1>6, <4>2, <4>3, <4>4 DEF Clause
      <4>. QED  BY <4>5
    <3>. QED  BY <1>5, <3>4, <3>5
  <2>2. CASE v = k + 3 /\ a[k + 1] = o.period /\ a[k + 2] = "it"
    <3>1. k + 1 \in 1..Len(a) /\ k + 3 <= Len(a) /\ a[k + 3] = o.value
      BY <1>2, <1>5, <2>2
    <3>2. o.period \in Temporals /\ p <= k + 1
      <4>1. a[k + 1] \in Tokens
        BY <1>1, <3>1
      <4>2. o.period # NoPeriod
        BY <2>2, <4>1 DEF Tokens, Numbers, Values, Temporals, Stops, Plain, NoPeriod
      <4>3. k + 1 \in (m + 1)..(v - 1)
        BY <1>4, <1>5, <2>2
      <4>. QED  BY <1>2, <2>2, <4>2, <4>3
    <3>3. z = k + 3
      BY <1>2, <1>5, <2>2, <3>2
    <3>4. SubSeq(a, k + 1, k + 3) = <<o.period, "it", o.value>>
      BY <1>1, <2>2, <3>1, ShortParts
    <3>5. <<o.period>> \o <<"it">> \o <<o.value>> = <<o.period, "it", o.value>>
      <4>1. <<o.period>> \o <<"it">> = <<o.period, "it">>
        BY Pair
      <4>2. <<o.period, "it">> \o <<o.value>> = <<o.period, "it", o.value>>
        BY PairAndOne
      <4>. QED  BY <4>1, <4>2
    <3>6. Clause(a, k + 1, z, <<"it">>, [o EXCEPT !.period = o.period])
      BY <1>6, <3>3, <3>4, <3>5 DEF Clause
    <3>. QED  BY <3>6
  <2>. QED  BY <1>4, <2>1, <2>2
<1>12. m = 1 \/ (m = 1 + 1 /\ a[1] = o.period)
  BY <1>8
<1>. QED  BY <1>2, <1>4, <1>7, <1>9, <1>10, <1>11, <1>12 DEF StatedByPronoun

\* A text stands letter for letter in another one, behind s.
StandsAt(a, text, s) ==
    s \in Nat /\ s + Len(a) <= Len(text) /\ \A k \in 1..Len(a) : a[k] = text[s + k]

\* What is said by a part of a text is said by the text it stands in.
LEMMA PartShift ==
  ASSUME NEW a \in Texts, NEW text \in Texts, NEW s, StandsAt(a, text, s),
         NEW i \in 1..(Len(a) + 1), NEW j \in 0..Len(a)
  PROVE  SubSeq(text, s + i, s + j) = SubSeq(a, i, j)
<1>1. a \in Seq(Tokens) /\ text \in Seq(Tokens) /\ Len(a) \in Nat /\ Len(text) \in Nat
  BY DEF Texts
<1>2. s \in Nat /\ s + Len(a) <= Len(text) /\ \A k \in 1..Len(a) : a[k] = text[s + k]
  BY DEF StandsAt
<1>. DEFINE l == SubSeq(text, s + i, s + j)
            r == SubSeq(a, i, j)
            n == IF i <= j THEN j - i + 1 ELSE 0
<1>3. \A k \in i..j : a[k] \in Tokens
  BY <1>1
<1>4. r \in Seq(Tokens) /\ Len(r) = n /\ \A k \in 1..n : r[k] = a[i + k - 1]
  <2>1. /\ r \in Seq(Tokens) /\ Len(r) = IF i <= j THEN j - i + 1 ELSE 0
        /\ \A k \in 1..(j - i + 1) : r[k] = a[i + k - 1]
    BY <1>1, <1>3, SubSeqProperties
  <2>. HIDE DEF r
  <2>. QED  BY <2>1
<1>5. l \in Seq(Tokens) /\ Len(l) = n /\ \A k \in 1..n : l[k] = text[s + i + k - 1]
  <2>1. \A k \in (s + i)..(s + j) : text[k] \in Tokens
    BY <1>1, <1>2
  <2>2. s + i \in Int /\ s + j \in Int
    BY <1>2
  <2>. DEFINE f == s + i
              g == s + j
  <2>3. f \in Int /\ g \in Int /\ \A k \in f..g : text[k] \in Tokens
    BY <2>1, <2>2
  <2>. HIDE DEF f, g
  <2>6. /\ SubSeq(text, f, g) \in Seq(Tokens)
        /\ Len(SubSeq(text, f, g)) = IF f <= g THEN g - f + 1 ELSE 0
        /\ \A k \in 1..(g - f + 1) : SubSeq(text, f, g)[k] = text[f + k - 1]
    BY <1>1, <2>3, SubSeqProperties
  <2>4. l = SubSeq(text, f, g)
    BY DEF f, g
  <2>. HIDE DEF l
  <2>5. g - f + 1 = j - i + 1 /\ (f <= g <=> i <= j) /\ \A k \in 1..n : f + k - 1 = s + i + k - 1
    BY <1>2 DEF f, g
  <2>. QED  BY <2>4, <2>5, <2>6
<1>. HIDE DEF l, r
<1>6. ASSUME NEW k \in 1..Len(r) PROVE l[k] = r[k]
  <2>1. i + k - 1 \in 1..Len(a) /\ s + (i + k - 1) = s + i + k - 1
    BY <1>1, <1>2, <1>4
  <2>. QED  BY <1>2, <1>4, <1>5, <2>1
<1>7. l = r
  <2>. HIDE DEF n
  <2>. QED  BY <1>4, <1>5, <1>6, SeqEqual
<1>. QED  BY <1>7 DEF l, r

LEMMA HeadShift ==
  ASSUME NEW a \in Texts, NEW text \in Texts, NEW s, StandsAt(a, text, s), NEW z \in 1..Len(a)
  PROVE  SubSeq(text, s + 1, s + z) = SubSeq(a, 1, z)
<1>1. 1 \in 1..(Len(a) + 1) /\ z \in 0..Len(a)
  BY DEF Texts
<1>. QED  BY <1>1, PartShift

LEMMA ClauseShift ==
  ASSUME NEW a \in Texts, NEW text \in Texts, NEW s, StandsAt(a, text, s), NEW subject, NEW o,
         NEW i \in 1..(Len(a) + 1), NEW j \in 0..Len(a), Clause(a, i, j, subject, o)
  PROVE  Clause(text, s + i, s + j, subject, o)
BY PartShift DEF Clause

LEMMA PronounShift ==
  ASSUME NEW a \in Texts, NEW text \in Texts, NEW s, StandsAt(a, text, s), NEW o,
         NEW z \in 1..Len(a), StatedByPronoun(a, 1, z, o)
  PROVE  StatedByPronoun(text, s + 1, s + z, o)
<1>1. s \in Nat /\ Len(a) \in Nat /\ \A n \in 1..Len(a) : a[n] = text[s + n]
  BY DEF StandsAt, Texts
<1>2. PICK m \in 1..z, k \in 1..z :
         /\ m < k /\ k < z /\ a[m] = "metric" /\ a[k] = "."
         /\ m = 1 \/ (m = 1 + 1 /\ a[1] = o.period)
         /\ ~Occurs({"."}, SubSeq(a, 1, k - 1))
         /\ \E p \in {o.period, NoPeriod} :
               /\ Clause(a, k + 1, z, <<"it">>, [o EXCEPT !.period = p])
               /\ p = o.period \/ Occurs({o.period}, SubSeq(a, 1, k))
         /\ \/ a[m + 1] = "stated" /\ k = m + 2
            \/ /\ a[m + 1] = "is"
               /\ a[m + 2] \in (IF a[k + 1] = o.period THEN Values ELSE {o.value})
               /\ m + 3 < k => a[m + 3] \in Temporals
  BY Zenon DEF StatedByPronoun
<1>3. PICK p \in {o.period, NoPeriod} :
         /\ Clause(a, k + 1, z, <<"it">>, [o EXCEPT !.period = p])
         /\ p = o.period \/ Occurs({o.period}, SubSeq(a, 1, k))
  BY <1>2
<1>4. /\ 1 \in 1..Len(a) /\ m \in 1..Len(a) /\ k \in 1..Len(a) /\ m + 1 \in 1..Len(a) /\ m + 2 \in 1..Len(a)
      /\ k + 1 \in 1..Len(a)
      /\ m + 3 < k => m + 3 \in 1..Len(a)
  <2>1. m \in Nat /\ k \in Nat /\ z \in Nat /\ 1 <= m /\ m < k /\ k < z /\ z <= Len(a)
    BY <1>1, <1>2
  <2>. QED  BY <1>1, <2>1
<1>5. /\ text[s + m] = "metric" /\ text[s + k] = "."
      /\ text[s + 1] = a[1] /\ text[s + m + 1] = a[m + 1] /\ text[s + m + 2] = a[m + 2]
      /\ text[s + k + 1] = a[k + 1]
      /\ m + 3 < k => text[s + m + 3] = a[m + 3]
  <2>1. s + m + 1 = s + (m + 1) /\ s + m + 2 = s + (m + 2) /\ s + k + 1 = s + (k + 1) /\ s + m + 3 = s + (m + 3)
    BY <1>1
  <2>. QED  BY <1>1, <1>2, <1>4, <2>1
<1>6. SubSeq(text, s + 1, s + k - 1) = SubSeq(a, 1, k - 1) /\ SubSeq(text, s + 1, s + k) = SubSeq(a, 1, k)
  <2>1. 1 \in 1..(Len(a) + 1) /\ k - 1 \in 0..Len(a) /\ k \in 0..Len(a) /\ s + (k - 1) = s + k - 1
    BY <1>1, <1>4
  <2>2. SubSeq(text, s + 1, s + (k - 1)) = SubSeq(a, 1, k - 1)
    BY <2>1, PartShift
  <2>3. SubSeq(text, s + 1, s + k) = SubSeq(a, 1, k)
    BY <2>1, PartShift
  <2>. QED  BY <2>1, <2>2, <2>3
<1>7. Clause(text, s + k + 1, s + z, <<"it">>, [o EXCEPT !.period = p])
  <2>1. k + 1 \in 1..(Len(a) + 1) /\ z \in 0..Len(a) /\ s + (k + 1) = s + k + 1
    BY <1>1, <1>4
  <2>2. Clause(text, s + (k + 1), s + z, <<"it">>, [o EXCEPT !.period = p])
    BY <1>3, <2>1, ClauseShift, Zenon
  <2>. QED  BY <2>1, <2>2
<1>8. s + m \in (s + 1)..(s + z) /\ s + k \in (s + 1)..(s + z) /\ s + m < s + k /\ s + k < s + z
  <2>1. s \in Nat /\ z \in Nat /\ m \in 1..z /\ k \in 1..z /\ m < k /\ k < z
    BY <1>1, <1>2
  <2>. QED  BY <2>1
<1>9. s + m = s + 1 \/ (s + m = s + 1 + 1 /\ text[s + 1] = o.period)
  <2>1. m = 1 + 1 => s + m = s + 1 + 1
    BY <1>1
  <2>. QED  BY <1>2, <1>5, <2>1
<1>10. \/ text[s + m + 1] = "stated" /\ s + k = s + m + 2
       \/ /\ text[s + m + 1] = "is"
          /\ text[s + m + 2] \in (IF text[s + k + 1] = o.period THEN Values ELSE {o.value})
          /\ s + m + 3 < s + k => text[s + m + 3] \in Temporals
  <2>1. s + m + 3 < s + k <=> m + 3 < k
    BY <1>1, <1>2
  <2>2. k = m + 2 => s + k = s + m + 2
    BY <1>1, <1>2
  <2>. QED  BY <1>2, <1>5, <2>1, <2>2
<1>12. ~Occurs({"."}, SubSeq(text, s + 1, s + k - 1))
  BY <1>2, <1>6
<1>. DEFINE mm == s + m
            kk == s + k
<1>11. /\ mm \in (s + 1)..(s + z) /\ kk \in (s + 1)..(s + z)
       /\ mm < kk /\ kk < s + z /\ text[mm] = "metric" /\ text[kk] = "."
       /\ mm = s + 1 \/ (mm = s + 1 + 1 /\ text[s + 1] = o.period)
       /\ ~Occurs({"."}, SubSeq(text, s + 1, kk - 1))
       /\ Clause(text, kk + 1, s + z, <<"it">>, [o EXCEPT !.period = p])
       /\ p = o.period \/ Occurs({o.period}, SubSeq(text, s + 1, kk))
       /\ \/ text[mm + 1] = "stated" /\ kk = mm + 2
          \/ /\ text[mm + 1] = "is"
             /\ text[mm + 2] \in (IF text[kk + 1] = o.period THEN Values ELSE {o.value})
             /\ mm + 3 < kk => text[mm + 3] \in Temporals
  <2>1. mm \in (s + 1)..(s + z) /\ kk \in (s + 1)..(s + z) /\ mm < kk /\ kk < s + z
    BY <1>8
  <2>2. text[mm] = "metric" /\ text[kk] = "." /\ (mm = s + 1 \/ (mm = s + 1 + 1 /\ text[s + 1] = o.period))
    BY <1>5, <1>9
  <2>3. Clause(text, kk + 1, s + z, <<"it">>, [o EXCEPT !.period = p])
    BY <1>7
  <2>4. p = o.period \/ Occurs({o.period}, SubSeq(text, s + 1, kk))
    BY <1>3, <1>6
  <2>5. \/ text[mm + 1] = "stated" /\ kk = mm + 2
        \/ /\ text[mm + 1] = "is"
           /\ text[mm + 2] \in (IF text[kk + 1] = o.period THEN Values ELSE {o.value})
           /\ mm + 3 < kk => text[mm + 3] \in Temporals
    BY <1>10
  <2>6. ~Occurs({"."}, SubSeq(text, s + 1, kk - 1))
    <3>1. kk - 1 = s + (k - 1)
      BY <1>1
    <3>. QED  BY <1>12, <3>1
  <2>. QED  BY <2>1, <2>2, <2>3, <2>4, <2>5, <2>6
<1>. HIDE DEF mm, kk
<1>. QED  BY <1>11, Zenon DEF StatedByPronoun

\* What the checks of the boundaries leave of Starts and Stands, whatever the form of the text: any
\* number of attributions in front of a clause, and any stop behind it.
Breaks == Stops \cup {",and", "bridge"}
MayStart(text, i) ==
    \E k \in 1..i :
       /\ ClauseStart(text, k)
       /\ \A l \in k..(i - 1) : text[l] = "note"
       /\ k < i => text[i] \in Temporals
MayStand(text, j) ==
    LET next == Behind(text, j)
    IN /\ next # <<>> => next[1] \in Breaks
       /\ Len(next) > 1 /\ next[1] \in Stops /\ next[2] = "it" => Len(next) > 2 /\ next[3] \in Values

\* Where a fragment is found, the text says the same but for the case of the metric.
LEMMA MatchesAt ==
  ASSUME NEW f \in Texts, NEW text \in Texts, NEW i
  PROVE  i \in Matches(f, text) <=>
            /\ f # <<>> /\ i \in 0..(Len(text) - Len(f))
            /\ \A k \in 1..Len(f) : Fold(f[k]) = Fold(text[i + k])
<1>1. f \in Seq(Tokens) /\ text \in Seq(Tokens) /\ Len(f) \in Nat /\ Len(text) \in Nat /\ DOMAIN f = 1..Len(f)
  BY DEF Texts
<1>2. ASSUME i \in 0..(Len(text) - Len(f))
      PROVE  FoldedEqual(f, SubSeq(text, i + 1, i + Len(f))) <=> \A k \in 1..Len(f) : Fold(f[k]) = Fold(text[i + k])
  <2>. DEFINE t == SubSeq(text, i + 1, i + Len(f))
  <2>1. Len(t) = Len(f) /\ \A k \in 1..Len(f) : t[k] = text[i + k]
    BY <1>1, <1>2
  <2>. HIDE DEF t
  <2>2. FoldedEqual(f, t) <=> \A k \in 1..Len(f) : Fold(f[k]) = Fold(text[i + k])
    BY <1>1, <2>1 DEF FoldedEqual
  <2>. QED  BY <2>2 DEF t
<1>. QED  BY <1>2 DEF Matches

LEMMA FoldSame ==
  ASSUME NEW x, NEW y, Fold(x) = Fold(y), x \notin {"metric", "kin"} \/ y \notin {"metric", "kin"}
  PROVE  x = y
BY DEF Fold

\* The texts a quotation leads through: an assertion found behind i in a quotation that is found
\* behind j in a chunk.
LEMMA FoundThrough ==
  ASSUME NEW a \in Texts, NEW q \in Texts, NEW text \in Texts, NEW i \in Matches(a, q), NEW j \in Matches(q, text)
  PROVE  /\ i \in Nat /\ j \in Nat /\ i + Len(a) <= Len(q) /\ j + Len(q) <= Len(text)
         /\ Len(a) \in Nat /\ Len(q) \in Nat /\ Len(text) \in Nat /\ Len(a) # 0
         /\ \A k \in 1..Len(q) : Fold(q[k]) = Fold(text[j + k])
         /\ \A k \in 1..Len(a) : Fold(a[k]) = Fold(q[i + k]) /\ Fold(a[k]) = Fold(text[j + i + k])
<1>1. a \in Seq(Tokens) /\ Len(a) \in Nat /\ Len(q) \in Nat /\ Len(text) \in Nat
  BY DEF Texts
<1>2. a # <<>> /\ i \in 0..(Len(q) - Len(a)) /\ \A k \in 1..Len(a) : Fold(a[k]) = Fold(q[i + k])
  BY MatchesAt
<1>3. j \in 0..(Len(text) - Len(q)) /\ \A k \in 1..Len(q) : Fold(q[k]) = Fold(text[j + k])
  BY MatchesAt
<1>4. i \in Nat /\ j \in Nat /\ i + Len(a) <= Len(q) /\ j + Len(q) <= Len(text)
  BY <1>1, <1>2, <1>3
<1>5. ASSUME NEW k \in 1..Len(a) PROVE Fold(a[k]) = Fold(text[j + i + k])
  <2>1. i + k \in 1..Len(q) /\ j + (i + k) = j + i + k
    BY <1>1, <1>4
  <2>. QED  BY <1>2, <1>3, <2>1
<1>6. Len(a) # 0
  BY <1>1, <1>2
<1>. QED  BY <1>1, <1>2, <1>3, <1>4, <1>5, <1>6

\* What stands before a fragment that may be read out of its context.
LEMMA PrefixAt ==
  ASSUME NEW fragment, NEW context \in Texts, NEW m, NEW w \in 0..Len(context),
         PrefixRespected(fragment, context, m, w)
  PROVE  \/ w = 0
         \/ w # 0 /\ context[w] \in Stops \cup {",and"}
         \/ m > 1 /\ w = 1 /\ context[1] = "note"
<1>. DEFINE prefix == SubSeq(context, 1, w)
<1>1. context \in Seq(Tokens) /\ Len(context) \in Nat /\ w \in Nat
  BY DEF Texts
<1>2. prefix \in Seq(Tokens) /\ Len(prefix) = w /\ \A k \in 1..w : prefix[k] = context[k]
  BY <1>1
<1>3. prefix # <<>> /\ Last(prefix) \notin Stops \cup {",and"} => m > 1 /\ prefix = <<"note">>
  BY DEF PrefixRespected
<1>. HIDE DEF prefix
<1>4. CASE w # 0
  <2>1. prefix # <<>> /\ Last(prefix) = context[w]
    <3>1. w \in 1..w
      BY <1>1, <1>4
    <3>. QED  BY <1>2, <1>4, <3>1 DEF Last
  <2>2. ASSUME prefix = <<"note">> PROVE w = 1 /\ context[1] = "note"
    <3>1. Len(prefix) = 1 /\ prefix[1] = "note"
      BY <2>2
    <3>. QED  BY <1>2, <3>1
  <2>. QED  BY <1>3, <1>4, <2>1, <2>2
<1>. QED  BY <1>4

\* What stands behind it, when it ends in the middle of a sentence and when it ends one.
LEMMA FollowUpAt ==
  ASSUME NEW text \in Texts, text # <<>>, PositiveFollowUp(SaidFirst(text))
  PROVE  Len(text) > 1 /\ text[2] \in Values
<1>. DEFINE ends == Positions(text, Stops) \cup {Len(text) + 1}
            stop == Min(ends)
            said == Before(text, stop)
<1>1. text \in Seq(Tokens) /\ Len(text) \in Nat /\ DOMAIN text = 1..Len(text)
  BY DEF Texts
<1>2. stop \in 1..(Len(text) + 1)
  <2>1. ends \subseteq 1..(Len(text) + 1)
    BY <1>1 DEF Positions
  <2>2. ends \in SUBSET Nat /\ ends # {}
    BY <1>1, <2>1
  <2>. HIDE DEF ends
  <2>. QED  BY <2>1, <2>2, LeastIsMin
<1>3. said = SaidFirst(text)
  BY DEF SaidFirst
<1>. HIDE DEF stop
<1>4. Len(said) = stop - 1 /\ \A k \in 1..(stop - 1) : said[k] = text[k]
  BY <1>1, <1>2, BeforeAt
<1>5. Len(said) > 1 /\ said[2] \in Values
  BY <1>3 DEF PositiveFollowUp
<1>. HIDE DEF said
<1>6. stop > 2
  BY <1>2, <1>4, <1>5
<1>7. 2 \in 1..(stop - 1) /\ Len(text) > 1
  BY <1>1, <1>2, <1>6
<1>. QED  BY <1>4, <1>5, <1>7

LEMMA SuffixAt ==
  ASSUME NEW f \in Texts, f # <<>>, NEW text \in Texts, NEW w \in 0..(Len(text) - Len(f)),
         NEW n, n = w + Len(f), SuffixRespected(f, text, w)
  PROVE  IF f[Len(f)] \in Stops
           THEN n + 1 <= Len(text) /\ text[n + 1] = "it" => n + 2 <= Len(text) /\ text[n + 2] \in Values
         ELSE /\ n + 1 <= Len(text) => text[n + 1] \in Breaks
              /\ n + 2 <= Len(text) /\ text[n + 1] \in Stops /\ text[n + 2] = "it" =>
                    n + 3 <= Len(text) /\ text[n + 3] \in Values
<1>. DEFINE suffix == Behind(text, n)
            open == ~ClosesContext(f)
            followUp == IF open /\ suffix # <<>> /\ suffix[1] \in Stops THEN Tail(suffix) ELSE suffix
<1>1. f \in Seq(Tokens) /\ text \in Seq(Tokens) /\ Len(f) \in Nat /\ Len(text) \in Nat /\ n \in 0..Len(text)
  BY DEF Texts
<1>2. open <=> f[Len(f)] \notin Stops
  BY <1>1 DEF ClosesContext, Last
<1>3. /\ suffix \in Seq(Tokens) /\ Len(suffix) = Len(text) - n
      /\ \A k \in 1..(Len(text) - n) : suffix[k] = text[n + k]
  <2>1. Len(suffix) = Len(text) - n /\ \A k \in 1..(Len(text) - n) : suffix[k] = text[n + k]
    BY <1>1, BehindAt
  <2>2. suffix \in Seq(Tokens)
    BY <1>1 DEF Behind
  <2>. QED  BY <2>1, <2>2
<1>4. /\ open /\ suffix # <<>> => suffix[1] \in Stops \cup {",and", "bridge"}
      /\ followUp # <<>> /\ followUp[1] = "it" => PositiveFollowUp(SaidFirst(followUp))
  BY DEF SuffixRespected
<1>. HIDE DEF suffix, open
<1>5. followUp \in Seq(Tokens)
  BY <1>3
<1>6. followUp # <<>> /\ followUp[1] = "it" => Len(followUp) > 1 /\ followUp[2] \in Values
  <2>. HIDE DEF followUp
  <2>. QED  BY <1>4, <1>5, FollowUpAt DEF Texts
<1>7. n + 1 <= Len(text) => suffix # <<>> /\ suffix[1] = text[n + 1]
  BY <1>1, <1>3
<1>8. CASE ~open
  <2>1. followUp = suffix
    BY <1>8
  <2>2. ASSUME n + 1 <= Len(text), text[n + 1] = "it" PROVE n + 2 <= Len(text) /\ text[n + 2] \in Values
    <3>1. Len(suffix) > 1 /\ suffix[2] \in Values
      BY <1>6, <1>7, <2>1, <2>2
    <3>2. n + 2 <= Len(text) /\ 2 \in 1..(Len(text) - n)
      BY <1>1, <1>3, <3>1
    <3>. QED  BY <1>3, <3>1, <3>2
  <2>. QED  BY <1>2, <1>8, <2>2
<1>9. CASE open
  <2>1. n + 1 <= Len(text) => text[n + 1] \in Breaks
    BY <1>4, <1>7, <1>9 DEF Breaks
  <2>2. ASSUME n + 2 <= Len(text), text[n + 1] \in Stops, text[n + 2] = "it"
        PROVE  n + 3 <= Len(text) /\ text[n + 3] \in Values
    <3>1. followUp = Tail(suffix) /\ suffix # <<>>
      BY <1>1, <1>7, <1>9, <2>2
    <3>2. Len(followUp) = Len(text) - n - 1 /\ \A k \in 1..(Len(text) - n - 1) : followUp[k] = text[n + 1 + k]
      <4>. HIDE DEF followUp
      <4>1. Len(followUp) = Len(suffix) - 1 /\ \A k \in 1..(Len(suffix) - 1) : followUp[k] = suffix[k + 1]
        BY <1>3, <3>1
      <4>2. Len(suffix) - 1 = Len(text) - n - 1
        BY <1>3
      <4>3. \A k \in 1..(Len(text) - n - 1) : k + 1 \in 1..(Len(text) - n) /\ n + (k + 1) = n + 1 + k
        BY <1>1
      <4>. QED  BY <1>3, <4>1, <4>2, <4>3
    <3>. HIDE DEF followUp
    <3>3. followUp # <<>> /\ followUp[1] = "it"
      <4>1. 1 \in 1..(Len(text) - n - 1) /\ n + 1 + 1 = n + 2
        BY <1>1, <2>2
      <4>2. followUp[1] = text[n + 2] /\ Len(followUp) # 0
        BY <1>1, <3>2, <4>1
      <4>. QED  BY <1>5, <2>2, <4>2
    <3>4. Len(followUp) > 1 /\ followUp[2] \in Values
      BY <1>6, <3>3
    <3>5. 2 \in 1..(Len(text) - n - 1) /\ n + 3 <= Len(text) /\ n + 1 + 2 = n + 3
      BY <1>1, <3>2, <3>4
    <3>. QED  BY <3>2, <3>4, <3>5
  <2>. QED  BY <1>2, <1>9, <2>1, <2>2
<1>. QED  BY <1>8, <1>9

\* A report that may be read out of its quotation, and its quotation out of the chunk, begins a
\* clause of the chunk.
LEMMA ReportStarts ==
  ASSUME NEW a \in Texts, NEW q \in Texts, NEW text \in Texts, NEW i \in Matches(a, q), NEW j \in Matches(q, text),
         NEW m, m = 1 \/ (m = 2 /\ a[1] \in Temporals),
         PrefixRespected(a, q, m, i), PrefixRespected(q, text, i + m, j)
  PROVE  MayStart(text, j + i + 1)
<1>1. /\ i \in Nat /\ j \in Nat /\ i + Len(a) <= Len(q) /\ j + Len(q) <= Len(text)
      /\ Len(a) \in Nat /\ Len(q) \in Nat /\ Len(text) \in Nat /\ Len(a) # 0
      /\ \A k \in 1..Len(q) : Fold(q[k]) = Fold(text[j + k])
      /\ \A k \in 1..Len(a) : Fold(a[k]) = Fold(q[i + k]) /\ Fold(a[k]) = Fold(text[j + i + k])
  BY FoundThrough
<1>0. /\ i \in Nat /\ j \in Nat /\ i + Len(a) <= Len(q) /\ j + Len(q) <= Len(text)
      /\ Len(a) \in Nat /\ Len(q) \in Nat /\ Len(text) \in Nat /\ Len(a) # 0
  BY <1>1
<1>2. \/ i = 0
      \/ i # 0 /\ q[i] \in Stops \cup {",and"}
      \/ m > 1 /\ i = 1 /\ q[1] = "note"
  <2>1. i \in 0..Len(q)
    BY <1>1
  <2>. QED  BY <2>1, PrefixAt
<1>3. \/ j = 0
      \/ j # 0 /\ text[j] \in Stops \cup {",and"}
      \/ i + m > 1 /\ j = 1 /\ text[1] = "note"
  <2>1. j \in 0..Len(text)
    BY <1>1
  <2>. QED  BY <2>1, PrefixAt
<1>4. \A x : x \in Stops \cup {",and", "note"} \cup Temporals => x \notin {"metric", "kin"}
  BY DEF Stops, Temporals
<1>5. m = 2 => text[j + i + 1] \in Temporals
  <2>1. 1 \in 1..Len(a)
    BY <1>0
  <2>2. Fold(a[1]) = Fold(text[j + i + 1])
    BY <1>1, <2>1
  <2>3. m = 2 => a[1] \in Temporals
    OBVIOUS
  <2>4. m = 2 => a[1] = text[j + i + 1]
    BY <1>4, <2>2, <2>3, FoldSame
  <2>. QED  BY <2>3, <2>4
<1>6. ASSUME NEW k \in Nat, 1 <= k, k <= j + i + 1, ClauseStart(text, k),
             \A l \in k..(j + i) : text[l] = "note", k < j + i + 1 => m = 2
      PROVE  MayStart(text, j + i + 1)
  <2>. DEFINE x == j + i + 1
  <2>1. k \in 1..x /\ k..(x - 1) = k..(j + i)
    BY <1>1, <1>6
  <2>. HIDE DEF x
  <2>2. k < x => text[x] \in Temporals
    BY <1>5, <1>6 DEF x
  <2>3. MayStart(text, x)
    BY <1>6, <2>1, <2>2 DEF MayStart
  <2>. QED  BY <2>3 DEF x
<1>7. CASE i # 0 /\ q[i] \in Stops \cup {",and"}
  <2>1. i \in 1..Len(q)
    <3>1. \A x, y, u \in Nat : x # 0 /\ x + u <= y => x \in 1..y
      OBVIOUS
    <3>2. i # 0
      BY <1>7
    <3>. QED  BY <1>0, <3>1, <3>2
  <2>2. text[j + i] = q[i]
    <3>1. Fold(q[i]) = Fold(text[j + i])
      BY <1>1, <2>1
    <3>. QED  BY <1>4, <1>7, <3>1, FoldSame
  <2>. DEFINE k == j + i + 1
  <2>3. k - 1 = j + i /\ k..(j + i) = {} /\ k \in Nat /\ 1 <= k /\ k <= k /\ ~(k < k)
    BY <1>1
  <2>4. ClauseStart(text, k)
    BY <1>7, <2>2, <2>3 DEF ClauseStart
  <2>. QED  BY <1>6, <2>3, <2>4
<1>8. ASSUME j = 0 \/ (j # 0 /\ text[j] \in Stops \cup {",and"})
      PROVE  ClauseStart(text, j + 1)
  <2>. DEFINE k == j + 1
  <2>1. k - 1 = j /\ (j = 0 => k = 1)
    BY <1>0
  <2>. HIDE DEF k
  <2>2. k = 1 \/ text[k - 1] \in Stops \cup {",and"}
    BY <1>8, <2>1
  <2>. QED  BY <2>2 DEF ClauseStart, k
<1>9. ClauseStart(text, 1)
  BY DEF ClauseStart
<1>10. CASE i = 0
  <2>1. CASE j = 0 \/ (j # 0 /\ text[j] \in Stops \cup {",and"})
    <3>1. j + 1 \in Nat /\ 1 <= j + 1 /\ j + 1 <= j + i + 1 /\ (j + 1)..(j + i) = {} /\ ~(j + 1 < j + i + 1)
      BY <1>1, <1>10
    <3>. QED  BY <1>6, <1>8, <2>1, <3>1
  <2>2. CASE i + m > 1 /\ j = 1 /\ text[1] = "note"
    <3>1. m = 2 /\ 1 <= j + i + 1 /\ \A l \in 1..(j + i) : l = 1
      BY <1>10, <2>2
    <3>. QED  BY <1>6, <1>9, <2>2, <3>1
  <2>. QED  BY <1>3, <2>1, <2>2
<1>11. CASE m > 1 /\ i = 1 /\ q[1] = "note"
  <2>1. m = 2
    BY <1>11
  <2>2. text[j + 1] = "note"
    <3>1. 1 \in 1..Len(q)
      BY <1>1, <1>11
    <3>. QED  BY <1>1, <1>4, <1>11, <3>1, FoldSame
  <2>3. CASE j = 0 \/ (j # 0 /\ text[j] \in Stops \cup {",and"})
    <3>1. j + 1 \in Nat /\ 1 <= j + 1 /\ j + 1 <= j + i + 1 /\ \A l \in (j + 1)..(j + i) : l = j + 1
      BY <1>1, <1>11
    <3>. QED  BY <1>6, <1>8, <2>1, <2>2, <2>3, <3>1
  <2>4. CASE i + m > 1 /\ j = 1 /\ text[1] = "note"
    <3>1. 1 <= j + i + 1 /\ j + 1 = 2 /\ \A l \in 1..(j + i) : l = 1 \/ l = 2
      BY <1>1, <1>11, <2>4
    <3>. QED  BY <1>6, <1>9, <2>1, <2>2, <2>4, <3>1
  <2>. QED  BY <1>3, <2>3, <2>4
<1>. QED  BY <1>2, <1>7, <1>10, <1>11

\* What follows such a report, which ends behind z, does not take it back.
LEMMA ReportStands ==
  ASSUME NEW a \in Texts, NEW q \in Texts, NEW text \in Texts, NEW i \in Matches(a, q), NEW j \in Matches(q, text),
         NEW z \in 1..Len(a), a[z] \notin Stops, Len(a) = z \/ (Len(a) = z + 1 /\ a[z + 1] \in Stops),
         SuffixRespected(a, q, i), SuffixRespected(q, text, j)
  PROVE  MayStand(text, j + i + z)
<1>. DEFINE n == Len(a)
            l == Len(q)
            x == j + i + z
<1>1. /\ i \in Nat /\ j \in Nat /\ i + n <= l /\ j + l <= Len(text)
      /\ n \in Nat /\ l \in Nat /\ Len(text) \in Nat /\ n # 0 /\ z \in Nat /\ z # 0
      /\ \A k \in 1..l : Fold(q[k]) = Fold(text[j + k])
      /\ \A k \in 1..n : Fold(a[k]) = Fold(q[i + k]) /\ Fold(a[k]) = Fold(text[j + i + k])
  BY FoundThrough
<1>0. /\ i \in Nat /\ j \in Nat /\ i + n <= l /\ j + l <= Len(text)
      /\ n \in Nat /\ l \in Nat /\ Len(text) \in Nat /\ n # 0 /\ z \in Nat /\ z # 0
  BY <1>1
<1>2. /\ a # <<>> /\ q # <<>>
      /\ i \in 0..(l - n) /\ j \in 0..(Len(text) - l)
  BY MatchesAt
<1>. DEFINE e1 == i + n
            e2 == j + l
<1>3. IF a[n] \in Stops
        THEN e1 + 1 <= l /\ q[e1 + 1] = "it" => e1 + 2 <= l /\ q[e1 + 2] \in Values
      ELSE /\ e1 + 1 <= l => q[e1 + 1] \in Breaks
           /\ e1 + 2 <= l /\ q[e1 + 1] \in Stops /\ q[e1 + 2] = "it" => e1 + 3 <= l /\ q[e1 + 3] \in Values
  BY <1>2, SuffixAt
<1>4. IF q[l] \in Stops
        THEN e2 + 1 <= Len(text) /\ text[e2 + 1] = "it" => e2 + 2 <= Len(text) /\ text[e2 + 2] \in Values
      ELSE /\ e2 + 1 <= Len(text) => text[e2 + 1] \in Breaks
           /\ e2 + 2 <= Len(text) /\ text[e2 + 1] \in Stops /\ text[e2 + 2] = "it" =>
                 e2 + 3 <= Len(text) /\ text[e2 + 3] \in Values
  BY <1>2, SuffixAt
<1>5. \A y : y \in Breaks \cup Values \cup {"it"} => y \notin {"metric", "kin"}
  BY DEF Breaks, Stops, Values
<1>6. Stops \subseteq Breaks
  BY DEF Breaks
<1>. HIDE DEF n, l, e1, e2, x
\* The quotation and the chunk say the same behind the report.
<1>7. ASSUME NEW k \in 1..l, q[k] \in Breaks \cup Values \cup {"it"} \/ text[j + k] \in Breaks \cup Values \cup {"it"}
      PROVE  text[j + k] = q[k]
  BY <1>1, <1>5, <1>7, FoldSame
<1>8. q[i + n] \in Stops <=> a[n] \in Stops
  <2>1. n \in 1..n
    BY <1>1
  <2>2. Fold(a[n]) = Fold(q[i + n])
    BY <1>1, <2>1
  <2>. QED  BY <1>5, <1>6, <2>2, FoldSame
<1>9. x \in 0..Len(text) /\ x \in Nat
  BY <1>1 DEF x, n
<1>10. /\ x + 1 <= Len(text) => text[x + 1] \in Breaks
       /\ x + 2 <= Len(text) /\ text[x + 1] \in Stops /\ text[x + 2] = "it" =>
             x + 3 <= Len(text) /\ text[x + 3] \in Values
  <2>1. CASE n = z
    <3>1. a[n] \notin Stops /\ x = j + e1
      BY <1>0, <2>1 DEF x, e1
    <3>2. CASE e1 = l
      <4>1. x = e2 /\ q[l] \notin Stops
        BY <1>8, <3>1, <3>2 DEF e1, e2
      <4>. QED  BY <1>4, <4>1
    <3>3. CASE e1 # l
      <4>1. e1 + 1 \in 1..l /\ e1 \in Nat /\ x + 1 = j + (e1 + 1) /\ x + 2 = j + (e1 + 2) /\ x + 3 = j + (e1 + 3)
        BY <1>1, <3>1, <3>3 DEF e1
      <4>2. text[x + 1] = q[e1 + 1] /\ q[e1 + 1] \in Breaks
        <5>1. q[e1 + 1] \in Breaks
          <6>1. e1 + 1 <= l
            BY <1>0, <4>1
          <6>. QED  BY <1>3, <3>1, <6>1
        <5>2. text[j + (e1 + 1)] = q[e1 + 1]
          BY <1>7, <4>1, <5>1
        <5>. QED  BY <4>1, <5>1, <5>2
      <4>3. ASSUME x + 2 <= Len(text), text[x + 1] \in Stops, text[x + 2] = "it"
            PROVE  x + 3 <= Len(text) /\ text[x + 3] \in Values
        <5>1. CASE e1 + 2 <= l
          <6>1. e1 + 2 \in 1..l
            BY <4>1, <5>1
          <6>2. q[e1 + 2] = "it"
            BY <1>7, <4>1, <4>3, <6>1
          <6>3. e1 + 3 <= l /\ q[e1 + 3] \in Values
            BY <1>3, <3>1, <4>2, <4>3, <5>1, <6>2
          <6>4. e1 + 3 \in 1..l
            BY <4>1, <6>3
          <6>5. text[x + 3] \in Values
            BY <1>7, <4>1, <6>3, <6>4
          <6>6. x + 3 <= Len(text)
            BY <1>1, <4>1, <6>3
          <6>. QED  BY <6>5, <6>6
        <5>2. CASE ~(e1 + 2 <= l)
          <6>1. e1 + 1 = l /\ x + 2 = e2 + 1 /\ x + 3 = e2 + 2
            <7>1. e1 + 1 = l
              BY <1>0, <4>1, <5>2
            <7>. QED  BY <1>0, <4>1, <7>1 DEF e2
          <6>2. q[l] \in Stops
            BY <4>2, <4>3, <6>1
          <6>. QED  BY <1>4, <4>3, <6>1, <6>2
        <5>. QED  BY <5>1, <5>2
      <4>. QED  BY <4>2, <4>3
    <3>. QED  BY <3>2, <3>3
  <2>2. CASE n = z + 1 /\ a[z + 1] \in Stops
    <3>1. a[n] \in Stops /\ x + 1 = j + e1 /\ x + 1 = j + i + n /\ n \in 1..n
      BY <1>1, <2>2 DEF x, e1
    <3>2. text[x + 1] \in Breaks
      <4>1. Fold(a[n]) = Fold(text[x + 1])
        BY <1>1, <3>1
      <4>. QED  BY <1>5, <1>6, <3>1, <4>1, FoldSame
    <3>3. ASSUME x + 2 <= Len(text), text[x + 2] = "it"
          PROVE  x + 3 <= Len(text) /\ text[x + 3] \in Values
      <4>1. CASE e1 = l
        <5>1. x + 2 = e2 + 1 /\ x + 3 = e2 + 2
          BY <1>0, <1>9, <3>1, <4>1 DEF e1, e2
        <5>2. q[l] \in Stops
          BY <1>8, <3>1, <4>1 DEF e1
        <5>. QED  BY <1>4, <3>3, <5>1, <5>2
      <4>2. CASE e1 # l
        <5>1. e1 + 1 \in 1..l /\ e1 \in Nat /\ x + 2 = j + (e1 + 1) /\ x + 3 = j + (e1 + 2)
          BY <1>1, <1>9, <3>1, <4>2 DEF e1
        <5>2. q[e1 + 1] = "it"
          BY <1>7, <3>3, <5>1
        <5>3. e1 + 2 <= l /\ q[e1 + 2] \in Values
          BY <1>3, <3>1, <5>1, <5>2
        <5>4. e1 + 2 \in 1..l
          BY <5>1, <5>3
        <5>5. text[x + 3] \in Values
          BY <1>7, <5>1, <5>3, <5>4
        <5>6. x + 3 <= Len(text)
          BY <1>1, <5>1, <5>3
        <5>. QED  BY <5>5, <5>6
      <4>. QED  BY <4>1, <4>2
    <3>. QED  BY <3>2, <3>3
  <2>. QED  BY <2>1, <2>2 DEF n
<1>11. MayStand(text, x)
  <2>. DEFINE next == Behind(text, x)
  <2>1. text \in Seq(Tokens)
    BY DEF Texts
  <2>2. next \in Seq(Tokens) /\ Len(next) = Len(text) - x /\ \A k \in 1..(Len(text) - x) : next[k] = text[x + k]
    BY <1>9, <2>1, BehindAt
  <2>. HIDE DEF next
  <2>3. ASSUME next # <<>> PROVE next[1] \in Breaks
    <3>1. x + 1 <= Len(text) /\ 1 \in 1..(Len(text) - x)
      BY <1>1, <1>9, <2>2, <2>3
    <3>. QED  BY <1>10, <2>2, <3>1
  <2>4. ASSUME Len(next) > 1, next[1] \in Stops, next[2] = "it" PROVE Len(next) > 2 /\ next[3] \in Values
    <3>1. x + 2 <= Len(text) /\ 1 \in 1..(Len(text) - x) /\ 2 \in 1..(Len(text) - x)
      BY <1>1, <1>9, <2>2, <2>4
    <3>2. x + 3 <= Len(text) /\ text[x + 3] \in Values
      BY <1>10, <2>2, <2>4, <3>1
    <3>3. Len(next) > 2 /\ 3 \in 1..(Len(text) - x)
      BY <1>1, <1>9, <2>2, <3>2
    <3>. QED  BY <2>2, <3>2, <3>3
  <2>. QED  BY <2>3, <2>4 DEF MayStand, next
<1>. QED  BY <1>11 DEF x

\* The words of the report are found where it stands.
LEMMA ReportMatches ==
  ASSUME NEW a \in Texts, NEW q \in Texts, NEW text \in Texts, NEW i \in Matches(a, q), NEW j \in Matches(q, text),
         NEW z \in 1..Len(a)
  PROVE  j + i \in Matches(SubSeq(a, 1, z), text)
<1>. DEFINE f == SubSeq(a, 1, z)
<1>1. /\ i \in Nat /\ j \in Nat /\ i + Len(a) <= Len(q) /\ j + Len(q) <= Len(text)
      /\ Len(a) \in Nat /\ Len(q) \in Nat /\ Len(text) \in Nat
      /\ \A k \in 1..Len(a) : Fold(a[k]) = Fold(text[j + i + k])
  BY FoundThrough
<1>2. f \in Seq(Tokens) /\ Len(f) = z /\ \A k \in 1..z : f[k] = a[k]
  BY DEF Texts
<1>. HIDE DEF f
<1>3. f # <<>> /\ f \in Texts
  BY <1>2 DEF Texts
<1>4. j + i \in 0..(Len(text) - Len(f))
  BY <1>1, <1>2
<1>5. ASSUME NEW k \in 1..Len(f) PROVE Fold(f[k]) = Fold(text[j + i + k])
  <2>1. k \in 1..z /\ k \in 1..Len(a)
    BY <1>1, <1>2
  <2>. QED  BY <1>1, <1>2, <2>1
<1>6. j + i \in Matches(f, text)
  BY <1>3, <1>4, <1>5, MatchesAt
<1>. QED  BY <1>6 DEF f

\* A report that the binder accepts, and that may be read out of its quotation and chunk, is stated.
LEMMA ReportIsStated ==
  ASSUME NEW o \in Observations, NEW a \in Texts, NEW q \in Texts, NEW text \in Texts,
         NEW w, StandsAt(a, text, w), Binds(o, a), InChunk(a, q, text, MetricOf(o, a))
  PROVE  \E i, j \in DOMAIN text :
            /\ i <= j
            /\ Clause(text, i, j, <<"metric", "is">>, o) \/ StatedByPronoun(text, i, j, o)
            /\ \E k \in Matches(SubSeq(text, i, j), text) :
                  /\ MayStart(text, k + 1) /\ MayStand(text, k + j + 1 - i)
                  /\ k + 1 = i \/ Occurs({"kin"}, text)
<1>. DEFINE m == MetricOf(o, a)
<1>1. PICK v \in Nat, p \in Nat, z \in Nat : Parts(a, o, m, v, p, z)
  BY BoundParts
<1>2. PICK i \in Matches(a, q) :
         /\ ContextRespected(a, q, m, i)
         /\ \E j \in Matches(q, text) : ContextRespected(q, text, i + m, j)
  BY DEF InChunk
<1>3. PICK j \in Matches(q, text) : ContextRespected(q, text, i + m, j)
  BY <1>2
<1>. HIDE DEF m
<1>4. /\ a[v] = o.value
      /\ SubSeq(a, m + 1, v - 1) = <<"is">> \/ NextSentence(SubSeq(a, m + 1, v - 1), o)
      /\ p = 0 \/ (p \in 1..Len(a) /\ a[p] = o.period /\ o.period \in Temporals)
      /\ z \in 1..Len(a) /\ z = (IF v < p THEN p ELSE v)
      /\ Len(a) = z \/ (Len(a) = z + 1 /\ a[z + 1] \in Stops)
      /\ m = 1 \/ (m = 2 /\ p = 1)
  BY <1>1 DEF Parts
<1>5. a[z] \notin Stops
  <2>1. a[z] \in Values \cup Temporals
    BY <1>4 DEF Observations
  <2>. QED  BY <2>1 DEF Values, Temporals, Stops
<1>6. m = 1 \/ (m = 2 /\ a[1] \in Temporals)
  BY <1>4
<1>7. /\ PrefixRespected(a, q, m, i) /\ PrefixRespected(q, text, i + m, j)
      /\ SuffixRespected(a, q, i) /\ SuffixRespected(q, text, j)
  BY <1>2, <1>3 DEF ContextRespected
<1>8. MayStart(text, j + i + 1)
  BY <1>6, <1>7, ReportStarts
<1>9. MayStand(text, j + i + z)
  BY <1>4, <1>5, <1>7, ReportStands
<1>10. j + i \in Matches(SubSeq(a, 1, z), text)
  BY <1>4, ReportMatches
<1>11. Clause(a, 1, z, <<"metric", "is">>, o) \/ StatedByPronoun(a, 1, z, o)
  BY <1>1, <1>4, DirectIsClause, PronounIsStated
\* Without a namesake the report stands where it is found.
<1>. DEFINE s == IF Occurs({"kin"}, text) THEN w ELSE j + i
<1>12. s = j + i \/ Occurs({"kin"}, text)
  OBVIOUS
<1>13. StandsAt(a, text, s)
  <2>. SUFFICES ASSUME ~Occurs({"kin"}, text) PROVE StandsAt(a, text, j + i)
    OBVIOUS
  <2>. HIDE DEF s
  <2>1. /\ i \in Nat /\ j \in Nat /\ i + Len(a) <= Len(q) /\ j + Len(q) <= Len(text)
        /\ Len(a) \in Nat /\ Len(q) \in Nat /\ Len(text) \in Nat
        /\ \A n \in 1..Len(a) : Fold(a[n]) = Fold(text[j + i + n])
    BY FoundThrough
  <2>2. \A n \in 1..Len(text) : text[n] # "kin"
    BY DEF Occurs, Positions, Texts
  <2>3. ASSUME NEW n \in 1..Len(a) PROVE a[n] = text[j + i + n]
    <3>1. j + i + n \in 1..Len(text)
      BY <2>1
    <3>2. w + n \in 1..Len(text) /\ a[n] = text[w + n]
      BY <2>1 DEF StandsAt
    <3>3. a[n] # "kin" /\ text[j + i + n] # "kin"
      BY <2>2, <3>1, <3>2
    <3>. QED  BY <2>1, <3>3 DEF Fold
  <2>4. j + i \in Nat /\ j + i + Len(a) <= Len(text)
    BY <2>1
  <2>. QED  BY <2>3, <2>4 DEF StandsAt
<1>. HIDE DEF s
<1>14. 1 \in 1..(Len(a) + 1) /\ z \in 0..Len(a) /\ Len(a) \in Nat /\ Len(text) \in Nat
  BY <1>4 DEF Texts
<1>15. SubSeq(text, s + 1, s + z) = SubSeq(a, 1, z)
  BY <1>4, <1>13, HeadShift
<1>16. Clause(text, s + 1, s + z, <<"metric", "is">>, o) \/ StatedByPronoun(text, s + 1, s + z, o)
  BY <1>4, <1>11, <1>14, <1>13, ClauseShift, PronounShift
<1>17. s \in Nat /\ s + Len(a) <= Len(text) /\ i \in Nat /\ j \in Nat
  BY <1>13, FoundThrough DEF StandsAt
<1>18. s + 1 \in DOMAIN text /\ s + z \in DOMAIN text /\ s + 1 <= s + z
  <2>1. DOMAIN text = 1..Len(text)
    BY DEF Texts
  <2>2. z \in Nat /\ 1 <= z /\ z <= Len(a)
    BY <1>4, <1>14
  <2>. QED  BY <1>14, <1>17, <2>1, <2>2
<1>. DEFINE k == j + i
            b == s + 1
            c == s + z
<1>19. k + c + 1 - b = k + z /\ k + 1 = j + i + 1 /\ k + z = j + i + z
  BY <1>17
<1>20. /\ k \in Matches(SubSeq(text, b, c), text) /\ MayStart(text, k + 1) /\ MayStand(text, k + c + 1 - b)
       /\ k + 1 = b \/ Occurs({"kin"}, text)
  <2>1. k \in Matches(SubSeq(text, b, c), text)
    BY <1>10, <1>15
  <2>2. k + 1 = b \/ Occurs({"kin"}, text)
    BY <1>12
  <2>. HIDE DEF k, b, c
  <2>. QED  BY <1>8, <1>9, <1>19, <2>1, <2>2
<1>21. /\ b \in DOMAIN text /\ c \in DOMAIN text /\ b <= c
       /\ Clause(text, b, c, <<"metric", "is">>, o) \/ StatedByPronoun(text, b, c, o)
  BY <1>16, <1>18
<1>. HIDE DEF k, b, c
<1>. QED  BY <1>20, <1>21, Zenon

\* What is said of an observation ends with a number: its value or its period.
LEMMA StatesToNumber ==
  ASSUME NEW o \in Observations, NEW text \in Texts, NEW i \in DOMAIN text, NEW j \in DOMAIN text, States(text, i, j, o)
  PROVE  text[j] \in Numbers
<1>1. /\ text \in Seq(Tokens) /\ Len(text) \in Nat /\ DOMAIN text = 1..Len(text)
      /\ o.value \in Values /\ o.period \in Temporals \cup {NoPeriod}
  BY DEF Texts, Observations
<1>0. NoPeriod \notin Tokens
  BY DEF NoPeriod, Tokens, Numbers, Values, Temporals, Stops, Plain
<1>2. ASSUME NEW b \in 1..j, NEW subject \in {<<"metric", "is">>, <<"it">>}, NEW p \in Temporals \cup {NoPeriod},
             Clause(text, b, j, subject, [o EXCEPT !.period = p])
      PROVE  text[j] \in Numbers
  <2>. DEFINE said == SubSeq(text, b, j)
  <2>1. said \in Seq(Tokens) /\ Len(said) = j - b + 1 /\ \A n \in 1..(j - b + 1) : said[n] = text[b + n - 1]
    BY <1>1
  <2>2. said[Len(said)] = text[j] /\ text[j] \in Tokens
    BY <1>1, <2>1
  <2>3. \/ said = subject \o <<o.value>> /\ p = NoPeriod
        \/ said = <<p>> \o subject \o <<o.value>>
        \/ said = subject \o <<o.value, p>>
    BY <1>2 DEF Clause, Observations
  <2>. HIDE DEF said
  <2>4. said[Len(said)] \in {o.value, p}
    <3>1. CASE subject = <<"it">>
      BY <2>3, <3>1
    <3>2. CASE subject = <<"metric", "is">>
      BY <2>3, <3>2
    <3>. QED  BY <3>1, <3>2
  <2>. QED  BY <1>0, <1>1, <2>2, <2>4 DEF Numbers
<1>3. CASE Clause(text, i, j, <<"metric", "is">>, o)
  <2>1. [o EXCEPT !.period = o.period] = o
    BY DEF Observations
  <2>2. i \in 1..j
    BY <1>1 DEF States
  <2>. QED  BY <1>1, <1>2, <1>3, <2>1, <2>2
<1>4. CASE StatedByPronoun(text, i, j, o)
  <2>1. PICK k \in i..j : k < j /\ \E p \in {o.period, NoPeriod} : Clause(text, k + 1, j, <<"it">>, [o EXCEPT !.period = p])
    BY <1>4, Zenon DEF StatedByPronoun
  <2>2. k + 1 \in 1..j
    BY <1>1, <2>1
  <2>. QED  BY <1>1, <1>2, <2>1, <2>2
<1>. QED  BY <1>3, <1>4 DEF States

\* In a text that is not of one of the three forms, the checks of the boundaries are enough.
LEMMA ReadableIsStated ==
  ASSUME NEW o \in Observations, NEW text \in Texts, ~Misreadable(text),
         NEW i \in DOMAIN text, NEW j \in DOMAIN text, States(text, i, j, o), MayStart(text, i), MayStand(text, j)
  PROVE  Starts(text, i) /\ Stands(text, j)
<1>1. Len(text) \in Nat /\ DOMAIN text = 1..Len(text) /\ text \in Seq(Tokens)
  BY DEF Texts
<1>2. Starts(text, i)
  <2>1. PICK k \in 1..i :
           /\ ClauseStart(text, k)
           /\ \A l \in k..(i - 1) : text[l] = "note"
           /\ k < i => text[i] \in Temporals
    BY DEF MayStart
  <2>2. ASSUME k < i - 1 PROVE FALSE
    <3>1. i - 1 \in 2..Len(text) /\ i - 1 \in k..(i - 1) /\ (i - 1) - 1 \in k..(i - 1)
      BY <1>1, <2>2
    <3>. QED  BY <2>1, <3>1 DEF Misreadable
  <2>3. k = i \/ (k = i - 1 /\ i > 1)
    BY <1>1, <2>2
  <2>4. k = i - 1 => k \in k..(i - 1) /\ k < i
    BY <1>1
  <2>. QED  BY <2>1, <2>3, <2>4 DEF Starts
<1>3. ~Asked(text, j)
  BY <1>1, StatesToNumber DEF Misreadable, Positions
<1>. DEFINE next == Behind(text, j)
<1>4. Len(next) = Len(text) - j /\ (next # <<>> => j + 1 \in 1..Len(text) /\ next[1] = text[j + 1])
  BY <1>1 DEF Behind
<1>5. next # <<>> => next[1] # "?"
  <2>. SUFFICES ASSUME next # <<>>, text[j + 1] = "?" PROVE FALSE
    BY <1>4
  <2>1. text[j] \in Numbers
    BY StatesToNumber
  <2>3. j + 1 \in j..Len(text) /\ \A k \in j..(j + 1) : k = j \/ k = j + 1
    BY <1>1, <1>4
  <2>2. \A k \in j..(j + 1) : text[k] # "."
    BY <2>1, <2>3 DEF Numbers, Values, Temporals
  <2>. QED  BY <1>3, <2>2, <2>3 DEF Asked
<1>6. /\ next # <<>> => next[1] \in Breaks
      /\ Len(next) > 1 /\ next[1] \in Stops /\ next[2] = "it" => Len(next) > 2 /\ next[3] \in Values
  BY DEF MayStand
<1>. HIDE DEF next
<1>7. /\ next # <<>> => next[1] \in Ends
      /\ Len(next) > 1 /\ next[1] = "." /\ next[2] = "it" => Len(next) > 2 /\ next[3] \in Values
  BY <1>5, <1>6 DEF Breaks, Ends, Stops
<1>. QED  BY <1>2, <1>3, <1>7 DEF Stands, next

LEMMA MatchIsNat ==
  ASSUME NEW f, NEW text \in Texts, NEW k \in Matches(f, text)
  PROVE  k \in Nat
BY DEF Matches

\* An observation that the evidence supports is stated, by a text that is not of those forms.
LEMMA SupportedIsStated ==
  ASSUME corpus \in Seq(Seq(Texts)), NEW o \in Observations, Supported(o, corpus)
  PROVE  Stated(o) \/ \E r \in o.evidence : Misreadable(TextOf(r, corpus))
<1>1. PICK r \in o.evidence :
         /\ Resolves(r, corpus) /\ Sound(r, VerifyFor(r, o, TextOf(r, corpus)))
         /\ VerifyFor(r, o, TextOf(r, corpus)).bound
  BY DEF Supported
<1>. DEFINE text == TextOf(r, corpus)
<1>2. r \in References /\ r.anchor = "metric"
  BY <1>1 DEF Observations, Sound
<1>3. text \in Texts
  <2>1. r.chunk[1] \in DOMAIN corpus /\ r.chunk[2] \in DOMAIN corpus[r.chunk[1]]
    BY <1>1 DEF Resolves
  <2>. QED  BY <2>1 DEF TextOf
<1>4. VerifyFor(r, o, text).bound
  BY <1>1
<1>. HIDE DEF text
<1>5. PICK p \in Candidates(r, text) :
         /\ Binds(o, Anchored(r, Asserted(r, text, p)))
         /\ Respected(Asserted(r, text, p), Quoted(r, text, p), text,
                      MetricOf(o, Anchored(r, Asserted(r, text, p))))
  BY <1>4 DEF VerifyFor, Outcome
<1>. DEFINE a == Asserted(r, text, p)
            q == Quoted(r, text, p)
<1>6. /\ a \in Texts /\ p[1] \in Nat /\ p[2] \in Nat /\ p[1] + p[2] + Len(a) <= Len(text)
      /\ \A k \in 1..Len(a) : a[k] = text[p[1] + p[2] + k]
  BY <1>2, <1>3, AssertedAt
<1>7. q \in Texts
  <2>. DEFINE i == p[1]
              n == Len(r.quote)
  <2>1. text \in Seq(Tokens) /\ Len(text) \in Nat /\ n \in Nat
    BY <1>2, <1>3 DEF Texts, References
  <2>2. i \in 0..(Len(text) - n)
    BY DEF Candidates, Matches
  <2>3. q = SubSeq(text, i + 1, i + n)
    BY DEF Quoted, Found
  <2>. HIDE DEF q, i, n
  <2>. QED  BY <2>1, <2>2, <2>3 DEF Texts
<1>8. Anchored(r, a) = a
  BY <1>2, <1>6, AnchoredIsSame
<1>9. Binds(o, a) /\ InChunk(a, q, text, MetricOf(o, a))
  BY <1>5, <1>8 DEF Respected
<1>. DEFINE s == p[1] + p[2]
<1>10. StandsAt(a, text, s)
  BY <1>6 DEF StandsAt
<1>. HIDE DEF a, q, s
<1>11. \E i, j \in DOMAIN text :
          /\ i <= j
          /\ Clause(text, i, j, <<"metric", "is">>, o) \/ StatedByPronoun(text, i, j, o)
          /\ \E k \in Matches(SubSeq(text, i, j), text) :
                /\ MayStart(text, k + 1) /\ MayStand(text, k + j + 1 - i)
                /\ k + 1 = i \/ Occurs({"kin"}, text)
  BY <1>3, <1>6, <1>7, <1>9, <1>10, ReportIsStated DEF a
<1>12. ASSUME ~Misreadable(text)
       PROVE  \E i, j \in DOMAIN text : States(text, i, j, o) /\ Starts(text, i) /\ Stands(text, j)
  <2>1. PICK i \in DOMAIN text, j \in DOMAIN text :
           /\ States(text, i, j, o)
           /\ \E k \in Nat : MayStart(text, k + 1) /\ MayStand(text, k + j + 1 - i) /\ k + 1 = i
    BY <1>3, <1>11, <1>12, MatchIsNat DEF States, Misreadable
  <2>2. MayStart(text, i) /\ MayStand(text, j)
    <3>1. PICK k \in Nat : MayStart(text, k + 1) /\ MayStand(text, k + j + 1 - i) /\ k + 1 = i
      BY <2>1
    <3>2. k + j + 1 - i = j
      BY <1>3, <3>1 DEF Texts
    <3>. QED  BY <3>1, <3>2
  <2>. QED  BY <1>3, <1>12, <2>1, <2>2, ReadableIsStated
<1>. QED  BY <1>1, <1>12 DEF Stated, text

LEMMA InvStated == ProbeInv /\ VerdictInv => VerifiedIsStated
<1>. SUFFICES ASSUME ProbeInv, VerdictInv, NEW i \in DOMAIN verdicts, verdicts[i] \in Reporting,
                      NEW o \in Range(draft[i].observations)
               PROVE  Stated(o) \/ \E r \in o.evidence : Misreadable(TextOf(r, corpus))
  BY DEF VerifiedIsStated
<1>2. corpus \in Seq(Seq(Texts))
  BY Zenon DEF ProbeInv
<1>3. draft[i] \in Claims /\ Settled(draft[i], verdicts[i])
  BY DEF VerdictInv
<1>4. Status(draft[i], corpus) \in Reporting
  BY <1>3 DEF Settled, Reporting
<1>5. o \in Observations
  BY <1>3 DEF Claims, Range
<1>6. Supported(o, corpus)
  BY <1>4 DEF Status, Reporting
<1>. QED  BY <1>2, <1>5, <1>6, SupportedIsStated

\* Whatever a run verifies, whether one value, a conflict or values of different periods, some
\* chunk that it cites states, with the metric and the period, where nothing around it changes what
\* is said: for every corpus without a namesake, a repeated attribution or a number in a question in
\* a cited chunk, and for every choice of quotations and assertions (verification.py:865-1042).
THEOREM VerifiedIsAlwaysStated == Spec => []VerifiedIsStated
BY AlwaysProbeInv, AlwaysVerdictInv, InvStated, PTL
=============================================================================
