----------------------------- MODULE EvidenceText -----------------------------
(***************************************************************************)
(* Source text as the deterministic parts of the service read it (util.py, *)
(* binding.py): a sequence of tokens, one for each class of words that the *)
(* closed regular expressions tell apart.  Spelling, spacing and synonyms  *)
(* within a class are left out.                                            *)
(***************************************************************************)
EXTENDS Naturals, Sequences, FiniteSets, SequencesExt, FiniteSetsExt

\* Measurements of one unit, and closed temporal expressions with the preposition they follow.
\* These have digits too: where any number counts, so do they.
Values == {"five", "six"}
Temporals == {"q1", "first-quarter", "q2", "q1-2025", "q1-2026", "2025"}
Numbers == Values \cup Temporals

\* The metric; the same letters with another token kind (IT and It); the end of a sentence; a word
\* that means nothing to the binder; a closed reporting connector ("was"); a qualitative state
\* ("was stated"); a pronoun with its connector ("It was"); a mention in a rubric or as the label
\* of a source; ", and"; the attribution that may precede a date ("my note from"); a bridge
\* (", which cannot be right alongside") and a collective remark ("the figures are incompatible").
Stops == {".", "?"}
Plain == {"metric", "kin", "word", "label", "note"}
Tokens == Numbers \cup Stops \cup Plain \cup {"is", "stated", "it", ",and", "bridge", "clash"}

Texts == Seq(Tokens)

Behind(text, i) == SubSeq(text, i + 1, Len(text))
Before(text, i) == SubSeq(text, 1, i - 1)
Positions(text, tokens) == {i \in DOMAIN text : text[i] \in tokens}
Occurs(tokens, text) == Positions(text, tokens) # {}

\* punctuation_boundaries and the sentences between them.
FirstStop(text) == Min(Positions(text, Stops) \cup {Len(text)})
LastStop(text) == Max(Positions(text, Stops) \cup {0})
FirstSentence(text) == SubSeq(text, 1, FirstStop(text))
Rest(text) == Behind(text, FirstStop(text))
SentenceAt(text, i) == SubSeq(text, LastStop(Before(text, i)) + 1, i - 1) \o FirstSentence(Behind(text, i - 1))

\* resolve_evidence_text_matches: where a fragment occurs when case is folded.  What is found there
\* is the source's spelling, and with it the source's token kind.
Fold(token) == IF token = "kin" THEN "metric" ELSE token
FoldedEqual(s, t) == Len(s) = Len(t) /\ \A i \in DOMAIN s : Fold(s[i]) = Fold(t[i])
Matches(fragment, text) ==
    IF fragment = <<>> THEN {}
    ELSE {i \in 0..(Len(text) - Len(fragment)) :
             FoldedEqual(fragment, SubSeq(text, i + 1, i + Len(fragment)))}
Found(fragment, text, i) == SubSeq(text, i + 1, i + Len(fragment))
=============================================================================
