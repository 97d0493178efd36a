---------------------------- MODULE MCTopNQuery ----------------------------
(***************************************************************************)
(* Rows on both sides of the first minimum and of its double.              *)
(***************************************************************************)
EXTENDS TopNQuery
=============================================================================
