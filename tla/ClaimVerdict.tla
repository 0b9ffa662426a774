----------------------------- MODULE ClaimVerdict -----------------------------
(***************************************************************************)
(* What the verifier decides about one proposed claim (verification.py     *)
(* verify_claim).  A claim about "metric" is [request, context,            *)
(* observations]: whether it asks for an absence probe, the references     *)
(* that only give context, and observations with their references.         *)
(* `docs` is the corpus: documents, their chunks, and the chunks' tokens.  *)
(***************************************************************************)
EXTENDS EvidenceBinding

(***************************************************************************)
(* _temporal_signature and what follows from two of them.                  *)
(***************************************************************************)
Unspecified == "unspecified"
Signature(period) ==
    CASE period \in {"q1", "first-quarter"} -> [kind |-> "quarter", year |-> Unspecified, member |-> 1]
      [] period = "q2"      -> [kind |-> "quarter", year |-> Unspecified, member |-> 2]
      [] period = "q1-2025" -> [kind |-> "quarter", year |-> "2025", member |-> 1]
      [] period = "q1-2026" -> [kind |-> "quarter", year |-> "2026", member |-> 1]
      [] period = "2025"    -> [kind |-> "year", year |-> "2025", member |-> 0]
      [] OTHER              -> [kind |-> NoPeriod, year |-> Unspecified, member |-> 0]

\* A year may be left unsaid.
YearsDiffer(l, r) == Unspecified \notin {l.year, r.year} /\ l.year # r.year
\* Mutant: periods that are written differently are different.
DistinctSignatures(l, r) == l # r /\ l.kind = r.kind
ProvablyDistinct(l, r) ==
    /\ l # r /\ l.kind = r.kind
    /\ CASE l.kind = "year"    -> YearsDiffer(l, r)
         [] l.kind = "quarter" -> l.member # r.member \/ YearsDiffer(l, r)
         [] OTHER              -> FALSE
PairwiseDisjoint(periods) == \A l, r \in periods : l # r => ProvablyDistinct(l, r)

(***************************************************************************)
(* The evidence of a claim.                                                *)
(***************************************************************************)
Resolves(r, docs) == r.chunk[1] \in DOMAIN docs /\ r.chunk[2] \in DOMAIN docs[r.chunk[1]]
TextOf(r, docs) == docs[r.chunk[1]][r.chunk[2]]

Sound(r, outcome) ==
    /\ outcome.quoteFound /\ outcome.assertionFound /\ outcome.metricFound
    /\ r.anchor = "metric"
Cited(claim) == claim.context \cup UNION {o.evidence : o \in Range(claim.observations)}
Unresolved(claim, docs) == {r \in Cited(claim) : ~Resolves(r, docs)}

\* The references with what was found of them, as context and for their observations.
Checked(claim, docs) ==
    {<<r, VerifyContext(r, TextOf(r, docs))>> : r \in claim.context} \cup
    UNION {{<<r, VerifyFor(r, o, TextOf(r, docs))>> : r \in o.evidence} : o \in Range(claim.observations)}

Supported(o, docs) ==
    \E r \in o.evidence :
       /\ r.relation = "supports" /\ Resolves(r, docs)
       /\ LET outcome == VerifyFor(r, o, TextOf(r, docs))
          IN Sound(r, outcome) /\ outcome.bound

(***************************************************************************)
(* _has_explicit_conflict: a sentence of a sound quotation puts a value    *)
(* of the metric beside another and says that they do not agree.           *)
(***************************************************************************)
SentencesOf(q) ==
    {SubSeq(q, i, i - 1 + Len(FirstSentence(Behind(q, i - 1)))) :
        i \in ({1} \cup {k + 1 : k \in Positions(q, Stops)}) \cap DOMAIN q}

\* Measurements with a positive binding to the metric of their own.
Owned(s) ==
    {v \in Positions(s, Values) :
        \E m \in Positions(s, {"metric"}) :
           /\ m < v /\ ~Occurs({"metric"}, SubSeq(s, m + 1, v))
           /\ Binds([value |-> s[v], kind |-> "level", period |-> NoPeriod], SubSeq(s, m, v))}

\* What stands right behind a bridge: a measurement, or words up to the end of the clause.
Operand(s, at) ==
    LET clause == Behind(s, at)
        ends == Positions(clause, (Tokens \ Plain)) \cup {Len(clause) + 1}
    IN IF clause = <<>> THEN "none"
       ELSE IF clause[1] \in Values THEN clause[1]
       ELSE IF clause[1] \in Plain /\ (Min(ends) > Len(clause) \/ clause[Min(ends)] \in Stops \cup {",and"})
         THEN "words"
       ELSE "none"
BridgeConflict(s, at, known) ==
    /\ at - 1 \in Owned(s)
    /\ LET operands == {s[at - 1], Operand(s, at)}
       IN /\ "none" \notin operands /\ Cardinality(operands) = 2
          /\ IF Cardinality(known) = 1 THEN operands \cap known # {} ELSE operands \subseteq known
CollectiveConflict(s, at, known) ==
    LET measured == {v \in Owned(s) : s[v] \in known}
    IN /\ Cardinality({s[v] : v \in measured}) > 1
       /\ Max(measured) = at - 1
       /\ Behind(s, at) \in {<<>>} \cup {<<t>> : t \in Stops}

SentenceConflict(s, known) ==
    /\ Occurs({"bridge", "clash"}, s) /\ Occurs({"metric"}, s)
    /\ LET at == Min(Positions(s, {"bridge", "clash"}))
       IN IF s[at] = "bridge" THEN BridgeConflict(s, at, known) ELSE CollectiveConflict(s, at, known)
ExplicitConflict(checked, known) ==
    /\ known # {}
    /\ \E c \in checked : Sound(c[1], c[2]) /\ \E s \in SentencesOf(c[2].quote) : SentenceConflict(s, known)

(***************************************************************************)
(* The classification.                                                     *)
(***************************************************************************)
\* _deduplicate_observations: one of each kind, value and period.
Identity(o) == [kind |-> o.kind, value |-> o.value, period |-> Signature(o.period)]
Classified(claim, docs) == {Identity(o) : o \in {p \in Range(claim.observations) : Supported(p, docs)}}

\* Distinct values, and what their periods say of each other.
Relation(values, seen) ==
    LET periodsOf(v) == {o.period : o \in {p \in seen : p.value = v}}
        periods == {o.period : o \in seen}
        complete == \A v \in values :
                       Cardinality(periodsOf(v)) = 1 /\ Signature(NoPeriod) \notin periodsOf(v)
    IN IF complete /\ PairwiseDisjoint(periods) /\ Cardinality(periods) = Cardinality(values)
         THEN "date_variant"
       ELSE IF complete /\ Cardinality(periods) = 1 THEN "conflict"
       ELSE "possible_conflict"

Status(claim, docs) ==
    LET seen == Classified(claim, docs)
        values == {o.value : o \in seen}
        checked == Checked(claim, docs)
        explicit == ExplicitConflict(checked, values)
    IN IF claim.observations = <<>> \/ Unresolved(claim, docs) # {} THEN "unverified"
       ELSE IF \E c \in checked : ~Sound(c[1], c[2]) THEN "unverified"
       ELSE IF \E o \in Range(claim.observations) : ~Supported(o, docs) THEN "unverified"
       ELSE IF explicit THEN IF Cardinality(values) < 2 THEN "possible_conflict" ELSE "conflict"
       ELSE IF Cardinality(values) > 1 THEN Relation(values, seen)
       ELSE "verified"

Authoritative == {"verified", "conflict", "date_variant", "not_found"}
=============================================================================
