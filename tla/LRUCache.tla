------------------------------ MODULE LRUCache ------------------------------
(***************************************************************************)
(* The filter that DISTINCT's chain of register arrays is meant to be: a   *)
(* set of least-recently-used caches, one per hash cell.  A value found in *)
(* its cache is dropped, any other is forwarded; either way it becomes the *)
(* most recent one, and the cache forgets the least recent.                *)
(*                                                                         *)
(* A place has no mark that says it was never used: it holds Zero, which   *)
(* is found there like any value.                                          *)
(***************************************************************************)
EXTENDS Naturals

CONSTANTS Values,  \* the values in the workers' rows
          Cells,   \* the indices of the register arrays
          Hash,    \* Hash[v]: the cell of value v
          Width,   \* places of a cache
          Zero     \* what a place holds at first

VARIABLES cache,      \* the values in each cache, most recent first
          forwarded,  \* the values that were forwarded
          pruned      \* the values that were dropped

vars == <<cache, forwarded, pruned>>

Places == 1 .. Width
Unused == [c \in Cells |-> [n \in Places |-> Zero]]

Init ==
  /\ cache = Unused
  /\ forwarded = {}
  /\ pruned = {}

\* Place n is the most recent one that holds v.
FoundAt(v, n) ==
  /\ cache[Hash[v]][n] = v
  /\ \A m \in 1 .. n - 1 : cache[Hash[v]][m] # v

InCache(v) == \E n \in Places : FoundAt(v, n)

\* The place that is freed: the one v leaves, else the last.
Freed(v) == IF InCache(v) THEN CHOOSE n \in Places : FoundAt(v, n) ELSE Width

\* The cache with v in front and what was before the freed place moved up.
Touched(v) ==
  [n \in Places |-> IF n = 1 THEN v
                    ELSE IF n <= Freed(v) THEN cache[Hash[v]][n - 1]
                    ELSE cache[Hash[v]][n]]

Hit(v) ==
  /\ InCache(v)
  /\ pruned' = pruned \union {v}
  /\ UNCHANGED forwarded

Miss(v) ==
  /\ ~InCache(v)
  /\ forwarded' = forwarded \union {v}
  /\ UNCHANGED pruned

Use(v) ==
  /\ Hit(v) \/ Miss(v)
  /\ cache' = [cache EXCEPT ![Hash[v]] = Touched(v)]

Restart ==
  /\ cache' = Unused
  /\ forwarded' = {}
  /\ pruned' = {}

Next == (\E v \in Values : Use(v)) \/ Restart

Spec == Init /\ [][Next]_vars
=============================================================================
