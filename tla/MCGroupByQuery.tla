--------------------------- MODULE MCGroupByQuery ---------------------------
(***************************************************************************)
(* Two workers; two keys that share the cell of stage 1, have cells of     *)
(* their own in stage 2, and share a hash at the master.                   *)
(***************************************************************************)
EXTENDS GroupByQuery

MCHash == << [k \in {1, 2} |-> "a"],
             [k \in {1, 2} |-> IF k = 1 THEN "a" ELSE "b"] >>
MCHVal == [k \in {1, 2} |-> "h"]
=============================================================================
