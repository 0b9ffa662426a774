--------------------------- MODULE MCInvestigation ---------------------------
(***************************************************************************)
(* A corpus of two documents, the second without a date.  The third chunk  *)
(* of the first is on its second page; "stranger" names no chunk.          *)
(***************************************************************************)
EXTENDS Investigation

Dated == [date |-> 1, pages |-> <<5, 4>>,
          chunks |-> <<[page |-> 1, tokens |-> 2], [page |-> 1, tokens |-> 3], [page |-> 2, tokens |-> 4]>>]
Dateless == [date |-> Undated, pages |-> <<9>>, chunks |-> <<[page |-> 1, tokens |-> 1]>>]
MCLibrary == [report |-> Dated, memo |-> Dateless]

Everything == [documents |-> {}, from |-> Undated, to |-> Undated]
Search(mode, filter, k) == [tool |-> "search", mode |-> mode, filter |-> filter, top_k |-> k]
MCSearches ==
    {Search("hybrid", [Everything EXCEPT !.documents = {"report"}], 2), Search("dense", Everything, 1),
     Search("lexical", [Everything EXCEPT !.from = 1], 2), Search("dense", Everything, 4)}

ReadOf(ids, radius) == [tool |-> "read", ids |-> ids, radius |-> radius]
Stranger == <<"stranger", 1>>
MCReads ==
    {ReadOf({<<"report", 1>>}, 1), ReadOf({<<"report", 3>>, <<"memo", 1>>}, 0),
     ReadOf({<<"report", 1>>}, 2), ReadOf({Stranger, <<"memo", 1>>}, 1)}

InspectionOf(d, from, to) == [tool |-> "inspect", document |-> d, from |-> from, to |-> to]
MCInspections ==
    {InspectionOf("report", Unsaid, Unsaid), InspectionOf("report", 2, Unsaid), InspectionOf("memo", 1, 1),
     InspectionOf("report", 2, 1), InspectionOf("nowhere", Unsaid, 1)}
=============================================================================
