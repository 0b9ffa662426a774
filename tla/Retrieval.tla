------------------------------ MODULE Retrieval ------------------------------
(***************************************************************************)
(* What CorpusStore (retrieval.py) answers of one version of the corpus:   *)
(* which chunks an id and a radius lead to, which chunks a range of pages  *)
(* has, and what a search may return.  The two rankings, by similarity and *)
(* by words, are the index's and SQLite's: any ranking of what they may    *)
(* return is possible here.                                                *)
(***************************************************************************)
EXTENDS Naturals, Sequences, FiniteSets, SequencesExt, FiniteSetsExt

CONSTANTS
    Library,       \* by document: [date, pages: their characters, chunks: Seq([page, tokens])]
    Undated,       \* no date: of a document, or in a filter
    FusionWidth,   \* what a hybrid search asks of either ranking, at least (24)
    LexicalScan    \* the rows a lexical search reads, at least (32)

Documents == DOMAIN Library

ASSUME LibraryAssumption ==
    /\ \A d \in Documents :
          /\ Library[d].date \in Nat \cup {Undated}
          /\ Library[d].pages \in Seq(Nat)
          /\ Library[d].chunks \in Seq([page : DOMAIN Library[d].pages, tokens : Nat])
    /\ IsFiniteSet(Documents) /\ Undated \notin Nat
    /\ FusionWidth \in Nat /\ LexicalScan \in Nat

\* A chunk is named by its document and its place there; another id names none.
Chunks == UNION {{d} \X DOMAIN Library[d].chunks : d \in Documents}
Tokens(c) == Library[c[1]].chunks[c[2]].tokens
PageOf(c) == Library[c[1]].chunks[c[2]].page

(***************************************************************************)
(* resolve_chunk_ids, get_chunks, document_chunk_ids, inspect_document.    *)
(***************************************************************************)
\* previous_chunk_id and next_chunk_id.
Links(id) == IF id \in Chunks THEN {c \in Chunks : c[1] = id[1] /\ (c[2] = id[2] + 1 \/ c[2] + 1 = id[2])}
             ELSE {}
Further(ids) == ids \cup UNION {Links(id) : id \in ids}
Resolved(ids, radius) ==
    CASE radius = 0 -> ids
      [] radius = 1 -> Further(ids)
      [] radius = 2 -> Further(Further(ids))

GetChunks(ids) == ids \cap Chunks

PagesIn(d, from, to) == {p \in DOMAIN Library[d].pages : from <= p /\ p <= to}
ChunksIn(d, from, to) == {c \in Chunks : c[1] = d /\ from <= PageOf(c) /\ PageOf(c) <= to}

(***************************************************************************)
(* search.                                                                 *)
(***************************************************************************)
\* _candidate_ids: no documents and no dates is no filter.
After(date, from) == from = Undated \/ (date # Undated /\ from <= date)
Until(date, to) == to = Undated \/ (date # Undated /\ date <= to)
InDocuments(filter) == {c \in Chunks : filter.documents = {} \/ c[1] \in filter.documents}
Scope(filter) ==
    {c \in InDocuments(filter) :
        After(Library[c[1]].date, filter.from) /\ Until(Library[c[1]].date, filter.to)}

Best(k, ranking) == SubSeq(ranking, 1, Min({k, Len(ranking)}))

\* _dense_search: all of the scope is ranked.
DenseRankings(filter, k) == {Best(k, r) : r \in SetToSeqs(Scope(filter))}

RankIn(ranking, c) == IF Contains(ranking, c) THEN CHOOSE i \in DOMAIN ranking : ranking[i] = c ELSE 0

\* _lexical_search: of the best rows in the documents, those in the scope in the same order;
\* nothing on an error.
Kept(ranking, some) ==
    {s \in SetToSeqs(Range(ranking) \cap some) :
        \A i, j \in DOMAIN s : i < j => RankIn(ranking, s[i]) < RankIn(ranking, s[j])}
LexicalRankings(filter, k) ==
    UNION {{Best(k, s) : s \in Kept(Best(Max({k * 4, LexicalScan}), r), Scope(filter))} :
              r \in SetToAllKPermutations(InDocuments(filter))}

\* The fused score is the sum of 1 / (60 + rank), as a fraction.
\* Mutant: a chunk that a ranking does not have counts as ranked before its first.
ReciprocalOfMissing(ranking, c) == [above |-> 1, below |-> 60 + RankIn(ranking, c)]
Reciprocal(ranking, c) ==
    IF Contains(ranking, c) THEN [above |-> 1, below |-> 60 + RankIn(ranking, c)]
    ELSE [above |-> 0, below |-> 1]
Score(dense, lexical, c) ==
    LET s == Reciprocal(dense, c)
        t == Reciprocal(lexical, c)
    IN [above |-> s.above * t.below + t.above * s.below, below |-> s.below * t.below]
Higher(s, t) == s.above * t.below > t.above * s.below

\* The order of equal scores is that of a Python set.
Fusions(dense, lexical, k) ==
    LET found == Range(dense) \cup Range(lexical)
        score == [c \in found |-> Score(dense, lexical, c)]
    IN {Best(k, r) : r \in {s \in SetToSeqs(found) :
                               \A i, j \in DOMAIN s : i < j => ~Higher(score[s[j]], score[s[i]])}}

Width(mode, k) == IF mode = "hybrid" THEN Max({k * 3, FusionWidth}) ELSE k

\* What a search may have found: the rankings and the results.
Finds(mode, filter, k) ==
    LET width == Width(mode, k)
    IN CASE mode = "dense" ->
              {[dense |-> r, lexical |-> <<>>, results |-> r] : r \in DenseRankings(filter, width)}
         [] mode = "lexical" ->
              {[dense |-> <<>>, lexical |-> r, results |-> r] : r \in LexicalRankings(filter, width)}
         [] mode = "hybrid" ->
              UNION {{[dense |-> r, lexical |-> s, results |-> t] : t \in Fusions(r, s, k)} :
                        r \in DenseRankings(filter, width), s \in LexicalRankings(filter, width)}

(***************************************************************************)
(* What is expected of the results, whatever the scores.                   *)
(***************************************************************************)
Ahead(ranking, c, d) ==
    Contains(ranking, c) /\ (Contains(ranking, d) => RankIn(ranking, c) < RankIn(ranking, d))
NotBehind(ranking, c, d) == Ahead(ranking, c, d) \/ ~Contains(ranking, d)
RespectsRankings(find, filter, k) ==
    LET results == Range(find.results)
        found == Range(find.dense) \cup Range(find.lexical)
    IN /\ results \subseteq Scope(filter) /\ Len(find.results) <= k
       /\ \A d \in results, c \in found \ results :
             ~ (/\ NotBehind(find.dense, c, d) /\ NotBehind(find.lexical, c, d)
                /\ Ahead(find.dense, c, d) \/ Ahead(find.lexical, c, d))
=============================================================================
