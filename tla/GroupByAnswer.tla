---------------------------- MODULE GroupByAnswer ----------------------------
(***************************************************************************)
(* What a GROUP BY with MAX answers: each key that was seen, with the      *)
(* greatest value it was seen with.                                        *)
(***************************************************************************)
EXTENDS Naturals

CONSTANTS Keys,
          Values,    \* natural numbers
          None       \* the answer for a key that was not seen

VARIABLE answer

Init == answer = [k \in Keys |-> None]

See(k, v) ==
  answer' = [answer EXCEPT ![k] = IF @ = None THEN v ELSE IF @ < v THEN v ELSE @]

Next == \E k \in Keys, v \in Values : See(k, v)

Spec == Init /\ [][Next]_answer
=============================================================================
