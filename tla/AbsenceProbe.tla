----------------------------- MODULE AbsenceProbe -----------------------------
(***************************************************************************)
(* The server-owned probe that may conclude that a corpus does not report  *)
(* a metric (absence.py; retrieval.py find_exact_metric_chunks), and the   *)
(* derivation of the same conclusion from its record and the corpus.       *)
(*                                                                         *)
(* A document is a sequence of chunks, a chunk a sequence of tokens.  The  *)
(* tokens are the classes that the regular expressions of the analysis     *)
(* tell apart; what else they say about wording is left out.  Links        *)
(* between chunks are those the builder writes, to the neighbours.         *)
(***************************************************************************)
EXTENDS EvidenceText

CONSTANTS
    Searches,     \* how many ranked searches a probe makes
    TopK,         \* the results of one search, at most
    ScanLimit,    \* EXACT_METRIC_SCAN_MAX_CANDIDATES
    OpenLimit,    \* ABSENCE_CONTEXT_MAX_OPENED_CHUNKS
    Window,       \* ABSENCE_METRIC_CONTEXT_CHARACTERS, in tokens
    MaxErrors     \* bound: searches, scans and reads that fail

ASSUME ProbeAssumption ==
    /\ Searches \in Nat \ {0} /\ TopK \in Nat \ {0} /\ ScanLimit \in Nat /\ OpenLimit \in Nat
    /\ Window \in Nat /\ MaxErrors \in Nat

VARIABLES
    corpus,       \* the immutable snapshot: documents, their chunks, and the chunks' tokens
    phase,        \* where the probe awaits
    searches,     \* CompletedSearchRecords: completed or not, and the results
    scan,         \* the outcome of the exhaustive scan
    candidates,   \* unique_candidate_chunk_ids
    opened,       \* chunks_by_id
    limited,      \* context_expansion_limited
    probe,        \* the AbsenceProbeResult
    errors

probeVars == <<corpus, phase, searches, scan, candidates, opened, limited, probe, errors>>

Chunks == UNION {{d} \X DOMAIN corpus[d] : d \in DOMAIN corpus}
Text(c) == corpus[c[1]][c[2]]
\* Mutant: only the following chunk is linked.
LinkedOn(c) == {k \in Chunks : k[1] = c[1] /\ k[2] = c[2] + 1}
Linked(c) == {k \in Chunks : k[1] = c[1] /\ (k[2] = c[2] + 1 \/ k[2] + 1 = c[2])}
Has(c, token) == Occurs({token}, Text(c))
Matching == {c \in Chunks : Has(c, "metric")}

(***************************************************************************)
(* What the text around an occurrence of the metric says: `before` is what *)
(* its sentence says before it, `after` everything behind it.              *)
(***************************************************************************)
\* _structural_anaphoric_context: how far the sentences that refer back, one behind the other,
\* reach into a text.
RefersBack(s) ==
    /\ s # <<>> /\ Occurs({"it"}, s)
    /\ s[1] \in Temporals \cup {"it"}
Chain(text) ==
    LET starts == {1, Len(text) + 1} \cup {i + 1 : i \in Positions(text, Stops)}
        broken == {i \in starts : ~RefersBack(FirstSentence(Behind(text, i - 1)))}
    IN SubSeq(text, 1, Min(broken) - 1)

\* _metric_context_numeric_candidates.
NumericCandidate(o) ==
    \/ Occurs(Numbers, FirstSentence(o.after))
    \/ Occurs(Numbers, Chain(Rest(o.after)))
    \/ o.before # <<>> /\ Last(o.before) \in Numbers

\* _has_structural_anaphoric_qualitative_predicate: a word behind the pronoun and its connector.
QualitativePredicate(o) ==
    LET chain == Chain(Rest(o.after))
    IN \E i, j \in DOMAIN chain :
          /\ i < j /\ chain[i] = "it" /\ ~Occurs(Stops, SubSeq(chain, i, j))
          /\ chain[j] \notin Values

\* has_unresolved_metric_predicate: a state in front of the metric, or qualifying words, a
\* connector and something said behind it.
UnresolvedPredicate(o) ==
    LET said == o.before \o <<"metric">> \o o.after
        Joins(i, m) == \A j \in (i + 1)..(m - 1) : said[j] \in Plain
    IN \E m, i \in Positions(said, {"metric", "is", "it", "stated"}) :
          /\ said[m] = "metric"
          /\ \/ i < m /\ said[i] = "stated" /\ Joins(i, m)
             \/ m < i /\ Joins(m, i) /\ said[i] = "stated"
             \/ m < i /\ Joins(m, i) /\ said[i] \in {"is", "it"}
                /\ Occurs(Tokens \ Stops, Behind(said, i))

Evidence(o) == NumericCandidate(o) \/ QualitativePredicate(o) \/ UnresolvedPredicate(o)

\* Nothing that may speak of the metric begins the next sentence.
Asserts(s) ==
    \E i \in DOMAIN s :
       /\ \A j \in 1..(i - 1) : s[j] \in Plain
       /\ s[i] \in {"it"} \cup (IF i > 1 THEN {"is", "stated"} ELSE {})
NothingAsserted(text) == ~Asserts(FirstSentence(text)) /\ ~Occurs(Numbers, FirstSentence(text))

Standalone(o) == o.before = <<>> /\ o.after \in {<<>>, <<".">>}
Benign(o) ==
    /\ NothingAsserted(Rest(o.after))
    /\ \/ Occurs({"?"}, FirstSentence(o.after))
       \/ Occurs({"label"}, o.before \o FirstSentence(o.after))
       \/ Standalone(o)

Unknown(o) == ~Evidence(o) /\ ~Benign(o)

(***************************************************************************)
(* _metric_occurrence_with_open_neighbors: the context of an occurrence as *)
(* far as its neighbours are open.                                         *)
(***************************************************************************)
Own(c, i) == Before(Text(c), i)
Joined(d, from, to) == FlattenSeq([k \in 1..(to + 1 - from) |-> corpus[d][from + k - 1]])

\* Where the walk back would stop: at a chunk that ends a sentence, or at the document's start.
BackTo(c, i) ==
    IF Occurs(Stops, Own(c, i)) THEN c[2]
    ELSE Max({k \in 1..(c[2] - 1) : Occurs(Stops, corpus[c[1]][k])} \cup {Min({1, c[2]})})
ReachBack(c, i, open) ==
    Min({k \in BackTo(c, i)..c[2] : \A j \in k..(c[2] - 1) : <<c[1], j>> \in open})
ReachOn(c, open) ==
    Max({k \in c[2]..Len(corpus[c[1]]) : \A j \in (c[2] + 1)..k : <<c[1], j>> \in open})

Complete(c, i, open) ==
    ReachBack(c, i, open) = BackTo(c, i) /\ ReachOn(c, open) = Len(corpus[c[1]])

Context(c, i, open) ==
    LET back == Joined(c[1], ReachBack(c, i, open), c[2] - 1) \o Own(c, i)
    IN [before |-> Behind(back, LastStop(back)),
        after  |-> Behind(Text(c), i) \o Joined(c[1], c[2] + 1, ReachOn(c, open))]

Mentions(open) == UNION {{<<c, i>> : i \in {j \in DOMAIN Text(c) : Text(c)[j] = "metric"}} : c \in open}
Contexts(open) == {Context(m[1], m[2], open) : m \in Mentions(open)}
AllComplete(open) == \A m \in Mentions(open) : Complete(m[1], m[2], open)

\* What is recorded of an occurrence: an excerpt on either side.
Excerpt(c, o) ==
    [chunk |-> c,
     before |-> SubSeq(o.before, Max({1, Len(o.before) + 1 - Window}), Len(o.before)),
     after |-> SubSeq(o.after, 1, Min({Window, Len(o.after)}))]
Excerpts(open) == {Excerpt(m[1], Context(m[1], m[2], open)) : m \in Mentions(open)}
(***************************************************************************)
(* The probe.                                                              *)
(***************************************************************************)
NoProbe == [conclusion |-> "none"]
NoScan == [status |-> "none", chunks |-> {}]
FailedScan == [status |-> "failed", chunks |-> {}]
Fails == errors < MaxErrors /\ errors' = errors + 1
Works == UNCHANGED errors

ProbeInit ==
    /\ phase = "idle" /\ searches = <<>> /\ scan = NoScan
    /\ candidates = {} /\ opened = {} /\ limited = FALSE /\ probe = NoProbe /\ errors = 0

\* Nothing is kept of an earlier probe.
BeginProbe ==
    /\ phase = "idle" /\ phase' = "searching"
    /\ searches' = <<>> /\ scan' = NoScan
    /\ candidates' = {} /\ opened' = {} /\ limited' = FALSE /\ probe' = NoProbe
    /\ UNCHANGED <<corpus, errors>>

\* One of the ranked searches; what it ranks first is up to it.  A search that fails is recorded.
Search ==
    /\ phase = "searching" /\ Len(searches) < Searches
    /\ \/ \E hits \in SUBSET Chunks :
             /\ Cardinality(hits) <= TopK
             /\ searches' = Append(searches, [completed |-> TRUE, results |-> hits])
             /\ candidates' = candidates \cup hits
             /\ Works
       \/ /\ searches' = Append(searches, [completed |-> FALSE, results |-> {}])
          /\ Fails /\ UNCHANGED candidates
    /\ UNCHANGED <<corpus, phase, scan, opened, limited, probe>>

\* find_exact_metric_chunks: every chunk with the complete phrase, unless there are too many, or
\* one where only the kind of a token differs.
Ambiguous == \E c \in Chunks : Has(c, "kin") /\ ~Has(c, "metric")
\* Mutant: only the first document is scanned.
ScanFirst == [status |-> "complete", chunks |-> {c \in Matching : c[1] = 1}]
ScanOutcome ==
    IF Cardinality({c \in Chunks : Has(c, "metric") \/ Has(c, "kin")}) > ScanLimit
      THEN [status |-> "too_broad", chunks |-> {}]
    ELSE IF Ambiguous THEN [status |-> "ambiguous", chunks |-> {}]
    ELSE [status |-> "complete", chunks |-> Matching]

Scan ==
    /\ phase = "searching" /\ Len(searches) = Searches
    /\ \/ scan' = ScanOutcome /\ Works
       \/ scan' = FailedScan /\ Fails
    /\ candidates' = candidates \cup scan'.chunks
    /\ phase' = "opening"
    /\ UNCHANGED <<corpus, searches, opened, limited, probe>>

\* The candidates are opened, the first ones if they are too many.
Open ==
    /\ phase = "opening" /\ Works
    /\ limited' = (Cardinality(candidates) > OpenLimit)
    /\ \E first \in SUBSET candidates :
          /\ Cardinality(first) = Min({OpenLimit, Cardinality(candidates)})
          /\ opened' = first
    /\ phase' = "expanding"
    /\ UNCHANGED <<corpus, searches, scan, candidates, probe>>

\* One round of following links, until there is nothing more to open or no room for it.
Frontier == (UNION {Linked(c) : c \in opened}) \ opened
Expand ==
    /\ phase = "expanding" /\ ~limited /\ Frontier # {} /\ Works
    /\ IF Cardinality(opened) + Cardinality(Frontier) > OpenLimit
         THEN limited' = TRUE /\ UNCHANGED opened
         ELSE opened' = opened \cup Frontier /\ UNCHANGED limited
    /\ UNCHANGED <<corpus, phase, searches, scan, candidates, probe>>

(***************************************************************************)
(* derive_absence_conclusion: what the record of a probe proves.  Evidence *)
(* that needs review comes before a probe that is incomplete.              *)
(***************************************************************************)
SearchesComplete(p) ==
    Len(p.searches) = Searches /\ \A i \in DOMAIN p.searches : p.searches[i].completed
NeedsReview(p) ==
    \/ p.unresolved \/ p.values
    \/ \E o \in p.occurrences : Evidence(o)

\* Mutant: whether the exhaustive scan was completed is not looked at.
CoverageUnscanned(p) ==
    /\ p.candidates = p.opened
    /\ p.matching \subseteq {o.chunk : o \in p.occurrences}
Coverage(p) ==
    /\ p.scanned
    /\ p.candidates = p.opened
    /\ \A i \in DOMAIN p.searches : p.searches[i].results \subseteq p.candidates
    /\ p.matching \subseteq p.candidates
    /\ p.matching \subseteq {o.chunk : o \in p.occurrences}
    /\ {o.chunk : o \in p.occurrences} \subseteq p.opened

Derive(p) ==
    IF ~SearchesComplete(p) THEN "incomplete_probe"
    ELSE IF NeedsReview(p) THEN "evidence_requires_review"
    ELSE IF Coverage(p) THEN "not_found_in_probe" ELSE "incomplete_probe"

\* The occurrences are analysed in full, recorded as excerpts, and the conclusion is derived.
Record ==
    [searches |-> searches, candidates |-> candidates \cup opened, opened |-> opened,
     scanned |-> scan.status = "complete" /\ ~limited /\ AllComplete(opened),
     matching |-> scan.chunks,
     occurrences |-> Excerpts(opened),
     unresolved |-> \E o \in Contexts(opened) :
                       Unknown(o) \/ UnresolvedPredicate(o) \/ QualitativePredicate(o),
     values |-> \E o \in Contexts(opened) : NumericCandidate(o)]
Concluded == [conclusion |-> Derive(Record), record |-> Record]
Conclude ==
    /\ phase = "expanding" /\ (limited \/ Frontier = {})
    /\ probe' = Concluded
    /\ phase' = "concluded" /\ Works
    /\ UNCHANGED <<corpus, searches, scan, candidates, opened, limited>>

\* Reading chunks is outside every handler: an error there ends the run.
ReadFails ==
    /\ phase \in {"searching", "opening", "expanding"} /\ Fails /\ phase' = "raised"
    /\ UNCHANGED <<corpus, searches, scan, candidates, opened, limited, probe>>

(***************************************************************************)
(* derive_absence_conclusion_against_corpus: the verifier trusts neither   *)
(* the conclusion nor the record, and does the analysis again, on what a   *)
(* fresh scan has found.  Chunks of an opened corpus do not go away.       *)
(***************************************************************************)
DeriveAgain(p, rescan) ==
    IF Derive(p) # "not_found_in_probe" THEN Derive(p)
    ELSE IF rescan.status # "complete" \/ rescan.chunks # p.matching
         THEN "incomplete_probe"
    ELSE IF ~AllComplete(p.opened) \/ p.occurrences # Excerpts(p.opened) THEN "incomplete_probe"
    ELSE IF \E o \in Contexts(p.opened) : Evidence(o) \/ Unknown(o)
         THEN "evidence_requires_review"
    ELSE "not_found_in_probe"

(***************************************************************************)
(* Properties.                                                             *)
(***************************************************************************)
\* What a document says, read from end to end: at position i it states a value for the metric.
Flat(d) == FlattenSeq(corpus[d])
SameSentence(text, i, j) == \A k \in i..(j - 1) : text[k] \notin Stops
StatesValue(text, i) ==
    /\ text[i] = "metric"
    /\ \E j \in DOMAIN text :
          /\ text[j] \in Values
          /\ \/ i < j /\ SameSentence(text, i, j)
             \/ i = j + 1
             \/ \E k \in (i + 1)..j :
                   /\ text[k] \in Stops /\ SameSentence(text, i, k)
                   /\ RefersBack(FirstSentence(Behind(text, k))) /\ SameSentence(text, k + 1, j)

\* Absence is never concluded, nor confirmed, from a corpus that states a value for the metric,
\* wherever a document was cut into chunks, whatever the searches ranked first, and whatever
\* failed or did not fit (absence.py:627-782, 427-492).
Reported == \E d \in DOMAIN corpus : \E i \in DOMAIN Flat(d) : StatesValue(Flat(d), i)
AbsenceIsSound == probe.conclusion = "not_found_in_probe" => ~Reported

\* A probe in which nothing failed, and whose context fits, says of the corpus what its documents
\* say read from end to end: neither the ranking of the searches nor the cut into chunks matters.
\* Whatever happened, the verifier comes to the same conclusion again from the corpus, unless its
\* own scan fails.
InFull == {Context(m[1], m[2], Chunks) : m \in Mentions(Chunks)}
Judged ==
    IF \E o \in InFull : Evidence(o) \/ Unknown(o) THEN "evidence_requires_review"
    ELSE "not_found_in_probe"
ProbeDecides ==
    phase = "concluded" =>
        /\ SearchesComplete(probe.record) /\ ~limited /\ scan.status = "complete" =>
              probe.conclusion = Judged
        /\ DeriveAgain(probe.record, ScanOutcome) = probe.conclusion

(***************************************************************************)
(* The inductive invariant behind them.                                    *)
(***************************************************************************)
\* What was found is among the candidates, all of which are open when the links are followed, and a
\* probe is what follows from them until the next one begins.
ProbeInv ==
    /\ corpus \in Seq(Seq(Texts))
    /\ candidates \subseteq Chunks /\ opened \subseteq Chunks
    /\ searches \in Seq([completed : BOOLEAN, results : SUBSET candidates])
    /\ scan.status = "complete" => scan = ScanOutcome
    /\ scan.chunks \subseteq candidates
    /\ phase = "expanding" => limited \/ candidates \subseteq opened
    /\ probe # NoProbe =>
          /\ phase \in {"concluded", "idle"} /\ probe = Concluded
          /\ limited \/ (candidates \subseteq opened /\ Frontier = {})
    /\ phase = "concluded" => probe # NoProbe
=============================================================================
