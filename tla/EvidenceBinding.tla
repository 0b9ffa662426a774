---------------------------- MODULE EvidenceBinding ---------------------------
(***************************************************************************)
(* Whether one cited piece of evidence proves one reported value           *)
(* (binding.py bind_observation; verification.py verify_reference): the    *)
(* quotation must be found in its chunk and the assertion in the           *)
(* quotation; the assertion must be one of the closed positive shapes; and *)
(* cutting it out may not have lost context that changes what it says.     *)
(*                                                                         *)
(* The shapes that differ only in the wording of the connector are one     *)
(* here, with the token "is".  An observation is [value, kind, period]; a  *)
(* reference is [chunk, quote, assertion, anchor, relation].               *)
(***************************************************************************)
EXTENDS EvidenceText

NoPeriod == "none"
Kinds == {"level", "rate"}
References ==
    [chunk : Nat \X Nat, quote : Texts, assertion : Texts, anchor : {"metric", "kin"},
     relation : {"supports", "contextualizes"}]

(***************************************************************************)
(* bind_observation.                                                       *)
(***************************************************************************)
\* A value of the pronoun's sentence belongs to the metric when the sentence before says nothing
\* of another value, or the pronoun's sentence names the period of its own.
PositiveAntecedent(said, value, variant) ==
    \/ said = <<"stated">>
    \/ /\ Len(said) > 1 /\ said[1] = "is" /\ said[2] \in Values
       /\ Len(said) > 2 => said[3] \in Temporals
       /\ variant \/ said[2] = value
NextSentence(between, o) ==
    /\ Occurs({"."}, between)
    /\ LET stop == Min(Positions(between, {"."}))
           lead == Behind(between, stop)
           variant == Len(lead) = 2 /\ lead[1] = o.period
       IN /\ lead = <<"it">> \/ (variant /\ lead[2] = "it")
          /\ PositiveAntecedent(Before(between, stop), o.value, variant)

\* Where the period is said: between metric and value, right before the metric, or right after
\* the value.
PeriodAt(a, m, v, o) ==
    {p \in Positions(a, {o.period}) : (m < p /\ p < v) \/ p = m - 1 \/ p = v + 1}

\* The metric at m, the value at v and the period at p (0 if there is none) are the whole of it.
WholeAssertion(a, m, v, p) ==
    /\ Behind(a, Max({v, p})) \in {<<>>} \cup {<<s>> : s \in Stops}
    /\ Before(a, IF p \in 1..m THEN p ELSE m) = <<>>

Bindings(o, a) ==
    {b \in Positions(a, {"metric"}) \X Positions(a, {o.value}) :
        LET m == b[1]
            v == b[2]
            between == SubSeq(a, m + 1, v - 1)
            periods == PeriodAt(a, m, v, o)
        IN /\ o.kind = "level"
           /\ m < v
           /\ between = <<"is">> \/ NextSentence(between, o)
           /\ o.period # NoPeriod => periods # {}
           /\ WholeAssertion(a, m, v, IF o.period = NoPeriod THEN 0 ELSE Min(periods))}
Binds(o, a) == Bindings(o, a) # {}
MetricOf(o, a) == Min({b[1] : b \in Bindings(o, a)})

(***************************************************************************)
(* _occurrence_respects_context_boundaries: a fragment, with the metric at *)
(* m, may be read out of the context where it stands behind `at`.          *)
(***************************************************************************)
\* What a text says up to its first stop.
SaidFirst(text) == Before(text, Min(Positions(text, Stops) \cup {Len(text) + 1}))
PositiveFollowUp(s) ==
    /\ Len(s) > 1 /\ s[2] \in Values
    /\ Len(s) > 2 => s[3] \in Temporals
ClosesContext(fragment) == fragment # <<>> /\ Last(fragment) \in Stops

PrefixRespected(fragment, context, m, at) ==
    LET prefix == SubSeq(context, 1, at)
    IN prefix # <<>> /\ Last(prefix) \notin Stops \cup {",and"} =>
          m > 1 /\ prefix = <<"note">>

SuffixRespected(fragment, context, at) ==
    LET suffix == Behind(context, at + Len(fragment))
        open == ~ClosesContext(fragment)
        followUp == IF open /\ suffix # <<>> /\ suffix[1] \in Stops THEN Tail(suffix) ELSE suffix
    IN /\ open /\ suffix # <<>> => suffix[1] \in Stops \cup {",and", "bridge"}
       /\ followUp # <<>> /\ followUp[1] = "it" =>
             PositiveFollowUp(SaidFirst(followUp))

ContextRespected(fragment, context, m, at) ==
    PrefixRespected(fragment, context, m, at) /\ SuffixRespected(fragment, context, at)

\* _fragment_respects_context_boundaries and _quote_respects_chunk_boundaries: somewhere in the
\* quotation, and, for one such place, somewhere in the chunk.
InQuote(a, q, m) == \E i \in Matches(a, q) : ContextRespected(a, q, m, i)
InChunk(a, q, text, m) ==
    \E i \in Matches(a, q) :
       /\ ContextRespected(a, q, m, i)
       /\ \E j \in Matches(q, text) : ContextRespected(q, text, i + m, j)

(***************************************************************************)
(* verify_reference.  A draft cites the source with case folded: each      *)
(* place of the quotation, and of the assertion in it, is a candidate.     *)
(***************************************************************************)
Candidates(r, text) ==
    {p \in Matches(r.quote, text) \X (0..Len(r.quote)) :
        p[2] \in Matches(r.assertion, Found(r.quote, text, p[1]))}
Quoted(r, text, p) == Found(r.quote, text, p[1])
Asserted(r, text, p) == Found(r.assertion, Quoted(r, text, p), p[2])
First(places) ==
    CHOOSE p \in places : \A k \in places : p[1] < k[1] \/ (p[1] = k[1] /\ p[2] <= k[2])

\* The binder is given the reference's own anchor as the metric.
Anchored(r, a) == [i \in DOMAIN a |->
                      IF a[i] = r.anchor THEN "metric" ELSE IF a[i] = "metric" THEN "kin" ELSE a[i]]
MetricIn(r, a) == Occurs({r.anchor}, a)

\* Mutant: where the quotation was cut out of its chunk is not looked at.
RespectedInQuote(a, q, text, m) == InQuote(a, q, m)
Respected(a, q, text, m) == InQuote(a, q, m) /\ InChunk(a, q, text, m)
Outcome(r, text, places, relevant, accepted) ==
    [quoteFound     |-> Matches(r.quote, text) # {},
     assertionFound |-> places # {} /\ (relevant = {} \/ accepted # {}),
     metricFound    |-> \E p \in places : MetricIn(r, Asserted(r, text, p)),
     bound          |-> accepted # {},
     quote          |-> IF accepted # {} THEN Quoted(r, text, First(accepted))
                        ELSE IF places # {} THEN Quoted(r, text, First(places))
                        ELSE r.quote]

\* A reference of an observation, and one that only gives context.
VerifyFor(r, o, text) ==
    LET places == Candidates(r, text)
        said == [p \in places |-> Anchored(r, Asserted(r, text, p))]
        bound == {p \in places : Binds(o, said[p])}
        accepted == {p \in bound :
            Respected(Asserted(r, text, p), Quoted(r, text, p), text, MetricOf(o, said[p]))}
    IN Outcome(r, text, places, bound, accepted)

VerifyContext(r, text) ==
    LET places == Candidates(r, text)
        named == {p \in places : MetricIn(r, Asserted(r, text, p))}
        accepted == {p \in named :
            \E m \in Positions(Asserted(r, text, p), {r.anchor}) :
               Respected(Asserted(r, text, p), Quoted(r, text, p), text, m)}
    IN Outcome(r, text, places, named, accepted)
=============================================================================
