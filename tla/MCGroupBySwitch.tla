--------------------------- MODULE MCGroupBySwitch ---------------------------
(***************************************************************************)
(* Two chained sketches of two cells.  Keys 0 and 1 collide in stage 1,    *)
(* keys 1 and 2 in stage 2; key 2 is alone in stage 1 and key 0 in stage 2.*)
(* Key 0 is also what an unused cell holds.                                *)
(***************************************************************************)
EXTENDS GroupBySwitch

MCHash ==
  << [k \in Keys |-> IF k \in {0, 1} THEN "a" ELSE "b"],
     [k \in Keys |-> IF k \in {1, 2} THEN "a" ELSE "b"] >>
=============================================================================
