-------------------------- MODULE MCClaimVerification -------------------------
(***************************************************************************)
(* Three families of runs: every citation of chunks that are hard to cite  *)
(* well; several observations at different periods; and requests for an    *)
(* absence probe, alone or beside another claim, on documents cut into     *)
(* three chunks in every way from a set of pieces.                         *)
(***************************************************************************)
EXTENDS ClaimVerification

Cut(text) == {SubSeq(text, i, j) : i \in 1..Len(text), j \in 1..Len(text)} \ {<<>>}
Ref(d, k, q, a) ==
    [chunk |-> <<d, k>>, quote |-> q, assertion |-> a, anchor |-> "metric", relation |-> "supports"]
Reports(value, period, refs) ==
    [value |-> value, kind |-> "level", period |-> period, evidence |-> refs]
Claim(observations) == [request |-> FALSE, context |-> {}, observations |-> observations]
IsFive == <<"metric", "is", "five">>
Asks == [request |-> TRUE, context |-> {}, observations |-> <<>>]

\* Chunks whose statements are taken back, put in question, attributed, dated or continued.
Tricky ==
    {<<"metric", "is", "five", ".", "it", "word", ".">>,
     <<"word", "metric", "is", "five", ".">>,
     <<"note", "q1", "metric", "is", "five", ".">>,
     <<"note", "note", "q1", "metric", "is", "five">>,
     <<"word", "metric", "is", "five", ".", "kin", "is", "five", ".">>,
     <<"metric", "is", "five", "q1", ".", "q2", "it", "six">>,
     <<"metric", "stated", ".", "it", "five", "q1">>,
     <<"metric", "is", "five", ",and", "word", "six", ".">>,
     <<"kin", "is", "five", ".", "metric", "is", "six">>,
     <<"metric", "is", "five", ".", "it", "six", ".">>,
     <<"metric", "is", "five", "word", "six", ".">>,
     <<"metric", "is", "five", ",and", "it", "six", "?">>}
Citing(t, q, a) ==
    {[docs |-> <<<<t>>>>, draft |-> <<Claim(<<Reports(v, p, {Ref(1, 1, q, a)})>>)>>] :
        v \in Values, p \in {NoPeriod, "q1", "q2"}}
Citations == UNION {UNION {UNION {Citing(t, q, a) : a \in Cut(q)} : q \in Cut(t)} : t \in Tricky}

\* Two or three observations, one chunk each, at all combinations of periods.
Dated(value, period) ==
    <<"metric", "is", value>> \o (IF period = NoPeriod THEN <<>> ELSE <<period>>) \o <<".">>
Observed(k, value, period) ==
    Reports(value, period, {Ref(1, k, Dated(value, period), Dated(value, period))})
Variants ==
    {[docs |-> <<<<Dated("five", p), Dated("six", q), Dated("five", r)>>>>,
      draft |-> <<Claim(<<Observed(1, "five", p), Observed(2, "six", q), Observed(3, "five", r)>>)>>] :
        p, q, r \in Temporals \cup {NoPeriod}}

\* Documents on which an absence request is made, alone, beside a claim that cites the corpus (or
\* does not find its citation there), and mixed with evidence.
Pieces == {<<"metric">>, <<"is", "five", ".">>, <<"it", "five", ".">>, <<"label", "metric", ".">>,
           <<"metric", "?">>, <<"word", ".">>}
Others == {<<"word">>, <<"kin">>, <<"label", "metric", ".">>}
Quotation == IsFive \o <<".">>
Absences ==
    {[docs |-> <<<<a, b, c>>, <<d>>>>, draft |-> <<Asks>>] : a, b, c \in Pieces, d \in Others} \cup
    {[docs |-> <<<<a>>, <<c>>>>, draft |-> d] :
        a \in Pieces \cup {Quotation}, c \in {Quotation, <<"word">>},
        d \in {<<Asks, Claim(<<Reports("five", NoPeriod, {Ref(2, 1, Quotation, Quotation)})>>)>>,
               <<[Asks EXCEPT !.context = {Ref(1, 1, <<"metric">>, <<"metric">>)}], Asks>>,
               <<Claim(<<Reports("five", NoPeriod, {Ref(1, 1, Quotation, Quotation)})>>), Asks>>}}

\* One claim for each of four documents: a question, an attribution of an attribution, a value whose
\* namesake has a sentence of its own, and a value that is put in conflict with another one.
Misread ==
    {[docs |-> << <<<<"metric", "is", "five", "?">>>>,
                  <<<<"note", "note", "q1", "metric", "is", "five">>>>,
                  <<<<"word", "metric", "is", "five", ".", "kin", "is", "five", ".">>>>,
                  <<<<"metric", "is", "five", "bridge", "six", ".">>>> >>,
      draft |-> <<Claim(<<Reports("five", NoPeriod, {Ref(1, 1, IsFive, IsFive)})>>),
                  Claim(<<Reports("five", "q1", {Ref(2, 1, <<"note", "q1">> \o IsFive, <<"q1">> \o IsFive)})>>),
                  Claim(<<Reports("five", NoPeriod, {Ref(3, 1, IsFive, IsFive)})>>),
                  Claim(<<Reports("five", NoPeriod, {Ref(4, 1, IsFive, IsFive)})>>)>>]}

MCCases == Citations \cup Variants \cup Absences
=============================================================================
