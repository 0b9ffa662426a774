-------------------------- MODULE ClaimVerification ---------------------------
(***************************************************************************)
(* From the agent's draft to the verdicts of a run, and the rehearsal of a *)
(* completed run (service.py _run_live, _run_rehearsal; verification.py    *)
(* verify_claims; agent.py _draft_verification_feedback).  The claims of a *)
(* draft are about one metric: those that ask for it are probed in turn,   *)
(* each probe replacing the one before, and then all are verified.         *)
(***************************************************************************)
EXTENDS AbsenceProbe, ClaimVerdict

CONSTANT Cases    \* the corpora and drafts a run may start from: [docs, draft]

Observations ==
    [value : Values, kind : Kinds, period : Temporals \cup {NoPeriod}, evidence : (SUBSET References) \ {{}}]
Claims == [request : BOOLEAN, context : SUBSET References, observations : Seq(Observations)]

ASSUME CasesAssumption == \A c \in Cases : c.docs \in Seq(Seq(Texts)) /\ c.draft \in Seq(Claims)

VARIABLES
    draft,      \* the claims, in order
    at,         \* the claim whose turn it is to be probed
    probed,     \* absence_probes[metric]
    verdicts,   \* the statuses of the claims
    sealed,     \* in a rehearsal, the statuses of the receipt
    unconfirmed,  \* history: the absences the verifier could not confirm, as its own scan failed
    outcome     \* running, completed, incomplete, failed or refused

claimVars == <<draft, at, probed, verdicts, sealed, unconfirmed, outcome>>
vars == <<probeVars, claimVars>>

Live == sealed = <<>>

Init ==
    /\ \E c \in Cases : corpus = c.docs /\ draft = c.draft
    /\ ProbeInit
    /\ at = 1 /\ probed = NoProbe /\ verdicts = <<>> /\ sealed = <<>> /\ unconfirmed = {}
    /\ outcome = "running"

Requested == {i \in at..Len(draft) : draft[i].request}

StartProbe ==
    /\ outcome = "running" /\ Requested # {} /\ BeginProbe
    /\ UNCHANGED claimVars

ProbeStep ==
    /\ Search \/ Scan \/ Open \/ Expand \/ Conclude \/ ReadFails
    /\ UNCHANGED claimVars

KeepProbe ==
    /\ phase = "concluded" /\ phase' = "idle"
    /\ probed' = probe /\ at' = Min(Requested) + 1
    /\ UNCHANGED <<corpus, searches, scan, candidates, opened, limited, probe, errors>>
    /\ UNCHANGED <<draft, verdicts, sealed, unconfirmed, outcome>>

\* An error outside the probe's handlers ends the run.
Fail ==
    /\ phase = "raised" /\ outcome = "running" /\ outcome' = "failed"
    /\ UNCHANGED probeVars /\ UNCHANGED <<draft, at, probed, verdicts, sealed, unconfirmed>>

\* verify_claim.  A claim that asks for a probe may propose nothing else.
Pure(claim) == claim.observations = <<>> /\ claim.context = {}
\* Mutant: whether the claim proposes anything is not looked at.
VerifyMixed(claim, result, rescan) ==
    IF ~claim.request THEN Status(claim, corpus)
    ELSE IF result.conclusion = "not_found_in_probe" THEN "not_found" ELSE "unverified"
VerifyClaim(claim, result, rescan) ==
    IF ~claim.request THEN Status(claim, corpus)
    ELSE IF /\ Pure(claim) /\ result.conclusion = "not_found_in_probe"
            /\ DeriveAgain(result.record, rescan) = "not_found_in_probe"
      THEN "not_found"
    ELSE "unverified"

\* The agent's own check of a draft: probes are still to come.
Feedback(claim) ==
    IF claim.request /\ Pure(claim) THEN "pending_absence_probe" ELSE VerifyClaim(claim, NoProbe, NoScan)

\* The claims for which the verifier scans the corpus once more.
Confirming ==
    {i \in DOMAIN draft : draft[i].request /\ Pure(draft[i]) /\ probed.conclusion = "not_found_in_probe"}
Verdicts(failing) ==
    [i \in DOMAIN draft |->
        VerifyClaim(draft[i], probed, IF i \in failing THEN FailedScan ELSE ScanOutcome)]

\* A live run completes if there is an answer and all of it is authoritative.  A rehearsal must
\* also find the statuses of its receipt again.  Each of the scans may fail.
Verify ==
    /\ outcome = "running" /\ phase = "idle" /\ Requested = {}
    /\ \E failing \in SUBSET Confirming :
          /\ errors + Cardinality(failing) <= MaxErrors
          /\ errors' = errors + Cardinality(failing) /\ unconfirmed' = failing
          /\ verdicts' = Verdicts(failing)
    /\ LET authoritative == Range(verdicts') \subseteq Authoritative
       IN outcome' = IF authoritative /\ draft # <<>> /\ (Live \/ verdicts' = sealed) THEN "completed"
                     ELSE IF Live THEN "incomplete" ELSE "refused"
    /\ UNCHANGED <<corpus, phase, searches, scan, candidates, opened, limited, probe>>
    /\ UNCHANGED <<draft, at, probed, sealed>>

\* The verifier reads the chunks of a probe, and those a claim cites, outside every handler.
VerifyRaises ==
    /\ outcome = "running" /\ phase = "idle" /\ Requested = {}
    /\ Confirming # {} \/ \E i \in DOMAIN draft : Cited(draft[i]) # {}
    /\ Fails /\ outcome' = "failed"
    /\ UNCHANGED <<corpus, phase, searches, scan, candidates, opened, limited, probe>>
    /\ UNCHANGED <<draft, at, probed, verdicts, sealed, unconfirmed>>

\* The receipt's claims are drafted again; what was not found is to be probed again.
\* Mutant: what was found absent is taken to have been probed.
RehearseAgain ==
    /\ Live /\ outcome = "completed"
    /\ draft' = [i \in DOMAIN draft |-> [draft[i] EXCEPT !.request = (verdicts[i] = "not_found")]]
    /\ sealed' = verdicts
    /\ probed' = NoProbe /\ verdicts' = <<>> /\ unconfirmed' = {} /\ outcome' = "running"
    /\ UNCHANGED probeVars /\ UNCHANGED at
Rehearse ==
    /\ Live /\ outcome = "completed"
    /\ draft' = [i \in DOMAIN draft |-> [draft[i] EXCEPT !.request = (verdicts[i] = "not_found")]]
    /\ sealed' = verdicts
    /\ at' = 1 /\ probed' = NoProbe /\ verdicts' = <<>> /\ unconfirmed' = {} /\ outcome' = "running"
    /\ UNCHANGED probeVars

Next == StartProbe \/ ProbeStep \/ KeepProbe \/ Fail \/ Verify \/ VerifyRaises \/ Rehearse
Spec == Init /\ [][Next]_vars

(***************************************************************************)
(* How a reader would take a chunk, without quotations or assertions, and  *)
(* what the documentation lets pass for a report                           *)
(* (docs/verification-boundary.md:37-61).                                  *)
(***************************************************************************)
Ends == {".", ",and", "bridge"}
ClauseStart(text, i) == i = 1 \/ text[i - 1] \in Stops \cup {",and"}

\* The sentence goes on from i to a question mark.
Asked(text, i) == \E q \in i..Len(text) : text[q] = "?" /\ \A k \in i..q : text[k] # "."

\* A clause begins where nothing is in front of it, or one attribution of the date it begins with.
Starts(text, i) ==
    \/ ClauseStart(text, i)
    \/ i > 1 /\ text[i - 1] = "note" /\ ClauseStart(text, i - 1) /\ text[i] \in Temporals

\* What follows a clause that ends at j does not take it back, and does not make it a question.
Stands(text, j) ==
    LET next == Behind(text, j)
    IN /\ next # <<>> => next[1] \in Ends
       /\ Len(next) > 1 /\ next[1] = "." /\ next[2] = "it" => Len(next) > 2 /\ next[3] \in Values
       /\ ~Asked(text, j)

\* The clause from i to j says of the metric, or of "it", the value and the period.
Clause(text, i, j, subject, o) ==
    LET said == SubSeq(text, i, j)
    IN \/ said = subject \o <<o.value>> /\ o.period = NoPeriod
       \/ said = <<o.period>> \o subject \o <<o.value>>
       \/ said = subject \o <<o.value, o.period>>

\* From i to k there is a sentence about the metric, which only says that it is stated, or begins
\* with its value: the same one, unless the next sentence, with "it" for the metric, is about a
\* period of its own.
StatedByPronoun(text, i, j, o) ==
    \E m, k \in i..j :
       /\ m < k /\ k < j /\ text[m] = "metric" /\ text[k] = "."
       /\ m = i \/ (m = i + 1 /\ text[i] = o.period)
       /\ ~Occurs({"."}, SubSeq(text, i, k - 1))
       /\ \E p \in {o.period, NoPeriod} :
             /\ Clause(text, k + 1, j, <<"it">>, [o EXCEPT !.period = p])
             /\ p = o.period \/ Occurs({o.period}, SubSeq(text, i, k))
       /\ \/ text[m + 1] = "stated" /\ k = m + 2
          \/ /\ text[m + 1] = "is"
             /\ text[m + 2] \in (IF text[k + 1] = o.period THEN Values ELSE {o.value})
             /\ m + 3 < k => text[m + 3] \in Temporals

\* The words are in the chunk, and where they are nothing changes what they say.
States(text, i, j, o) ==
    i <= j /\ (Clause(text, i, j, <<"metric", "is">>, o) \/ StatedByPronoun(text, i, j, o))
Stated(o) ==
    \E r \in o.evidence :
       LET text == TextOf(r, corpus)
       IN \E i, j \in DOMAIN text : States(text, i, j, o) /\ Starts(text, i) /\ Stands(text, j)

\* Three forms of text that the verifier is known to misread: with a namesake of the metric, which
\* differs in the case of letters, whose place in the chunk may be looked at instead; with one
\* attribution after another; and with a number in a question.
Misreadable(text) ==
    \/ Occurs({"kin"}, text)
    \/ \E i \in 2..Len(text) : text[i - 1] = "note" /\ text[i] = "note"
    \/ \E i \in Positions(text, Numbers) : Asked(text, i)

(***************************************************************************)
(* Properties.                                                             *)
(***************************************************************************)
Reporting == {"verified", "conflict", "date_variant"}

\* Every observation of a claim with an authoritative status is stated of the metric, with its
\* period, by the chunk one of its references cites, read as a whole: no choice of quotation and
\* assertion makes a value out of a text that says something else, unless the text cited is of one
\* of three forms (verification.py:865-1042).
VerifiedIsStated ==
    \A i \in DOMAIN verdicts : verdicts[i] \in Reporting =>
       \A o \in Range(draft[i].observations) :
          Stated(o) \/ \E r \in o.evidence : Misreadable(TextOf(r, corpus))

\* Values called date variants are of periods without a common quarter, whichever years the
\* periods without one are meant to be in (verification.py:422-469, 1120-1136).
Quarters(signature, year) ==
    LET y == IF signature.year = Unspecified THEN year ELSE signature.year
    IN IF signature.kind = "year" THEN {y} \X (1..4) ELSE {<<y, signature.member>>}
DateVariantsDisjoint ==
    \A i \in DOMAIN verdicts : verdicts[i] = "date_variant" =>
       \A o, p \in Range(draft[i].observations) : \A y, z \in {"2025", "2026"} :
          o.value # p.value => Quarters(Signature(o.period), y) \cap Quarters(Signature(p.period), z) = {}

\* A run never says of one corpus both that the metric was not found and that it has a value: the
\* analysis of a mention and the binder, two readers of the text, do not disagree.
AuthoritiesAgree ==
    ~ \E i, j \in DOMAIN verdicts : verdicts[i] = "not_found" /\ verdicts[j] \in Reporting

\* The rehearsal of a completed run is refused only when one of its own probes was cut short, or when
\* a scan by which the verifier confirms them failed: the new ranking of the searches does not change
\* what was found.  Refused is what the two checks of the verdicts do (service.py:664-667); an error
\* in a probe or in the verifier leaves no verdicts to check.
RehearsalConfirms ==
    outcome = "refused" =>
       \/ unconfirmed # {}
       \/ probed # NoProbe /\ (~SearchesComplete(probed.record) \/ scan.status # "complete" \/ limited)

\* What the agent was told of a claim of its draft is the verdict on it, unless a probe was to
\* decide (agent.py:473-504).
FeedbackHolds ==
    Live => \A i \in DOMAIN verdicts : Feedback(draft[i]) \in {verdicts[i], "pending_absence_probe"}

\* As the documentation has it: questions fail closed, an attribution must match the whole prefix
\* that is omitted, the same metric is preserved in the chunk, and a value that its source puts in
\* conflict with another one is not published alone (docs/verification-boundary.md:44-54, 95).
Contested(text, v) ==
    v + 1 \in DOMAIN text /\ text[v + 1] = "bridge" /\ Operand(text, v + 1) \notin {"none", text[v]}
Uncontested(o) ==
    \E r \in o.evidence :
       LET text == TextOf(r, corpus)
       IN \E v \in Positions(text, {o.value}) : ~Contested(text, v)
VerifiedAsDocumented ==
    \A i \in DOMAIN verdicts : verdicts[i] \in Reporting =>
       \A o \in Range(draft[i].observations) :
          Stated(o) /\ (verdicts[i] = "verified" => Uncontested(o))

(***************************************************************************)
(* The inductive invariant behind the agreement of the authorities and of  *)
(* a run with its rehearsal.                                               *)
(***************************************************************************)
\* Verdicts are given once, when all probes are done, and what was not found is what the last
\* probe did not find.
JudgementHolds ==
    /\ phase = "idle" => probed \in {NoProbe, probe}
    /\ phase # "idle" => verdicts = <<>>
    /\ "not_found" \in Range(verdicts) => probe.conclusion = "not_found_in_probe"

\* The draft of a rehearsal asks again for what was not found, and for nothing else.
RehearsalHolds ==
    /\ outcome = "completed" =>
          /\ draft # <<>> /\ verdicts = [i \in DOMAIN draft |-> verdicts[i]]
          /\ Range(verdicts) \subseteq Authoritative
    /\ ~Live =>
          /\ draft # <<>> /\ sealed = [i \in DOMAIN draft |-> sealed[i]]
          /\ Range(sealed) \subseteq Authoritative
          /\ \A i \in DOMAIN draft :
                IF draft[i].request
                  THEN /\ sealed[i] = "not_found" /\ Pure(draft[i])
                       /\ Judged = "not_found_in_probe"
                  ELSE sealed[i] = Status(draft[i], corpus)
          /\ outcome = "running" /\ probed = NoProbe => at = 1
=============================================================================
