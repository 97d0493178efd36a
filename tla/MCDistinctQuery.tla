--------------------------- MODULE MCDistinctQuery ---------------------------
(***************************************************************************)
(* Four values, 0 among them, all in one cell of the switch, whose stages  *)
(* have to forget one; the other cell stays empty.  In the master's table  *)
(* three of the values share a hash, and there is room for all but one.    *)
(***************************************************************************)
EXTENDS DistinctQuery

MCValues == [hi : {0}, lo : 0 .. 3]
MCHash == [v \in MCValues |-> "a"]
MCHVal == [v \in MCValues |-> IF v.lo = 3 THEN "g" ELSE "h"]
=============================================================================
