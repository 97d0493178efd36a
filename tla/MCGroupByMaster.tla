--------------------------- MODULE MCGroupByMaster ---------------------------
(***************************************************************************)
(* Keys 1, 2 and 3 share a hash, key 4 has its own; ptr_array has room for *)
(* three of the four groups.                                               *)
(***************************************************************************)
EXTENDS GroupByMaster

MCHVal == [k \in {1, 2, 3, 4} |-> IF k = 4 THEN "b" ELSE "a"]
=============================================================================
