-------------------------- MODULE MCDistinctSwitch --------------------------
(***************************************************************************)
(* Four values share cell "a" of the switch, 0 among them, so that its     *)
(* stages have to forget one; in cell "b" a small value meets one whose    *)
(* lower word has its top bit set, and one with an upper word.             *)
(*                                                                         *)
(* MCFour: as many values in one cell as the program has caches, each of   *)
(* them small and none of them 0.                                          *)
(***************************************************************************)
EXTENDS DistinctSwitch

Lo(n) == [hi |-> 0, lo |-> n]
MCSmall == {Lo(0), Lo(1), Lo(2), Lo(3)}
MCValues == MCSmall \union {Lo(5), Lo(9), [hi |-> 1, lo |-> 5]}
MCHash == [v \in MCValues |-> IF v \in MCSmall THEN "a" ELSE "b"]

MCFour == {Lo(1), Lo(2), Lo(3), Lo(4)}
MCFourHash == [v \in MCFour |-> "a"]
=============================================================================
