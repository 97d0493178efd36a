----------------------------- MODULE PruningSpec -----------------------------
(***************************************************************************)
(* What every pruning program of the switch promises the master.           *)
(*                                                                         *)
(* A row that reaches the switch is either forwarded to the master or      *)
(* dropped.  It may be dropped only when the rows already forwarded make   *)
(* it redundant for the query; which rows are redundant is the query's     *)
(* business and is the parameter Redundant.                                *)
(***************************************************************************)

CONSTANTS Rows,             \* the rows the workers may serialise
          Redundant(_, _)   \* Redundant(F, r): r adds nothing to the answer on F

\* A row that adds nothing to F adds nothing to a superset of F.
RedundantMonotone ==
  \A F, G \in SUBSET Rows : \A r \in Rows :
    F \subseteq G /\ Redundant(F, r) => Redundant(G, r)

VARIABLES forwarded,  \* the rows that left the switch towards the master
          pruned      \* the rows the switch dropped

vars == <<forwarded, pruned>>

TypeOK ==
  /\ forwarded \subseteq Rows
  /\ pruned \subseteq Rows

Init ==
  /\ forwarded = {}
  /\ pruned = {}

Forward(r) ==
  /\ forwarded' = forwarded \union {r}
  /\ UNCHANGED pruned

Prune(r) ==
  /\ Redundant(forwarded, r)
  /\ pruned' = pruned \union {r}
  /\ UNCHANGED forwarded

\* The switch's program is loaded afresh for another query.
Restart ==
  /\ forwarded' = {}
  /\ pruned' = {}

Next ==
  \/ \E r \in Rows : Forward(r) \/ Prune(r)
  \/ Restart

Spec == Init /\ [][Next]_vars

-----------------------------------------------------------------------------
\* Nothing the master needed was dropped: every dropped row is redundant next
\* to the rows that were forwarded.
NothingLost == \A p \in pruned : Redundant(forwarded, p)
=============================================================================
