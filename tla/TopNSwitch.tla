----------------------------- MODULE TopNSwitch -----------------------------
(***************************************************************************)
(* The TOP-N program of the switch, data_plane/cheetah_topn.p4 with the    *)
(* entries of the section "Top-N" of control_plane/rules.md.               *)
(*                                                                         *)
(* The first N packets teach the switch a minimum.  After them it works    *)
(* out twice the minimum less the packet's value, in a copy of the         *)
(* register, and tests whether the difference has its top bit set.  As in  *)
(* GroupBySwitch a packet's walk through the ingress is one action, and    *)
(* the packets are those of flow 1, which the tables have entries for.     *)
(*                                                                         *)
(* The test's comparison is taken as unsigned.  If the ALU compares signed *)
(* numbers no difference exceeds CHEETAH_TOPN_INT_MAX, nothing is counted  *)
(* and nothing is dropped.                                                 *)
(***************************************************************************)
EXTENDS Integers, Sequences

CONSTANTS Values,    \* the values of the rows
          N,         \* CHEETAH_TOPN_VALUE
          FirstMin,  \* what register_write leaves in the minimum: 10000
          HalfWord   \* 2^31: CHEETAH_TOPN_INT_MAX is one less

\* Values the ALU's signed comparison orders as numbers, and a minimum that can
\* be doubled.
TopNSwitchAssumption ==
  /\ HalfWord \in Nat \ {0}
  /\ Values \subseteq 0 .. HalfWord - 1
  /\ N \in Nat
  /\ FirstMin \in Nat /\ 2 * FirstMin < HalfWord

VARIABLES counter,     \* cheetah_topn_counter_reg
          minimum,     \* cheetah_topn_min_reg_one
          counterTwo,  \* cheetah_topn_counter_two_reg
          forwarded,   \* the rows that left the switch, in order (history)
          pruned       \* the values of the rows it dropped (history)

vars == <<counter, minimum, counterTwo, forwarded, pruned>>

TypeOK ==
  /\ counter \in 0 .. N
  /\ minimum \in Nat /\ minimum <= FirstMin
  /\ counterTwo \in 0 .. N + 1
  /\ forwarded \in Seq(Values)
  /\ pruned \subseteq Values

Init ==
  /\ counter = 0
  /\ minimum = FirstMin
  /\ counterTwo = 0
  /\ forwarded = <<>>
  /\ pruned = {}

-----------------------------------------------------------------------------
\* topn_more_than_n: the packet is not among the first N.
MoreThanN == counter >= N

\* Mutant: the copy is not doubled.
DifferenceUndoubled(v) == (minimum - v) % (2 * HalfWord)

\* topn_min_val_one, copied from the register, doubled and less the value.
Difference(v) == (2 * minimum - v) % (2 * HalfWord)
Past(v) == Difference(v) > HalfWord - 1

\* Mutant: the second counter stops one row late.
CountedLate == counterTwo - N > 1

\* N rows and one have been counted past the cutoff.
Counted == counterTwo - N > 0

\* Of the table's entries that drop, those with topn_less_than_min set never
\* match: once a packet is past the first N, its table copies the minimum and
\* leaves that field zero.
Prunes(v) == MoreThanN /\ Past(v) /\ Counted

\* One of the first N packets.
Learn(v) ==
  /\ ~MoreThanN
  /\ counter' = counter + 1
  /\ minimum' = IF minimum - v > 0 THEN v ELSE minimum
  /\ UNCHANGED counterTwo

\* A later packet is tested; it is counted until the counter has passed N.
Test(v) ==
  /\ MoreThanN
  /\ counterTwo' = IF Past(v) /\ ~Counted THEN counterTwo + 1 ELSE counterTwo
  /\ UNCHANGED <<counter, minimum>>

Ingress(v) ==
  /\ Learn(v) \/ Test(v)
  /\ \/ Prunes(v) /\ pruned' = pruned \union {v} /\ UNCHANGED forwarded
     \/ ~Prunes(v) /\ forwarded' = Append(forwarded, v) /\ UNCHANGED pruned

Next == \E v \in Values : Ingress(v)

Spec == Init /\ [][Next]_vars
=============================================================================
