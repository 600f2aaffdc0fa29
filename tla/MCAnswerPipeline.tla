--------------------------- MODULE MCAnswerPipeline ---------------------------
(***************************************************************************)
(* AnswerPipeline with symmetric requests, keys and records.               *)
(***************************************************************************)
EXTENDS AnswerPipeline, TLC

MCSymmetry ==
    Permutations(Requests) \cup Permutations(Keys) \cup Permutations(Records)
=============================================================================
