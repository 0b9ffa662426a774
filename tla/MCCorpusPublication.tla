------------------------ MODULE MCCorpusPublication ------------------------
(***************************************************************************)
(* Corpus publication under TLC: two builders and one server.              *)
(***************************************************************************)
EXTENDS CorpusPublication, TLC

BuilderSymmetry == Permutations(Builders)
=============================================================================
