--------------------------- MODULE DistinctSwitch ---------------------------
(***************************************************************************)
(* The DISTINCT program of the switch, data_plane/cheetah_distinct.p4 with *)
(* its cheetah_lru_import files and the entries of control_plane/rules.md. *)
(*                                                                         *)
(* A value is two 32-bit words.  A stage keeps one value per hash cell in  *)
(* a pair of register arrays, one for each word.  The packet's value       *)
(* enters stage 1; what a stage held moves on to a later stage.  A stage   *)
(* tells that its word equals the packet's by setting the top bit of the   *)
(* word it passes on, and the row is dropped when both words passed on     *)
(* have their top bit set.                                                 *)
(*                                                                         *)
(* As in GroupBySwitch a packet's walk through the ingress is one action;  *)
(* the packets are those of flow 1, which the tables have entries for.     *)
(***************************************************************************)
EXTENDS Integers, FiniteSets

CONSTANTS Values,     \* records of the words hi and lo
          NumStages,  \* register stages in use: four in the program
          Cells,      \* LRU_WIDTH register indices
          Hash,       \* Hash[v]: crc32 of the two words
          HalfWord    \* 2^31: the top bit of a word

Stages == 1 .. NumStages
Words == 0 .. 2 * HalfWord - 1

ASSUME DistinctAssumption ==
  /\ NumStages \in 1 .. 4
  /\ HalfWord \in Nat \ {0}
  /\ Values \subseteq [hi : Words, lo : Words]
  /\ Hash \in [Values -> Cells]

VARIABLES reg,        \* lru_reg_hi and lru_reg_lo of each stage
          forwarded,  \* the values that left the switch (history)
          pruned      \* the values the switch dropped (history)

vars == <<reg, forwarded, pruned>>

TypeOK ==
  /\ reg \in [Stages -> [Cells -> [hi : Words, lo : Words]]]
  /\ forwarded \subseteq Values
  /\ pruned \subseteq Values

Empty == [hi |-> 0, lo |-> 0]

Init ==
  /\ reg = [s \in Stages |-> [c \in Cells |-> Empty]]
  /\ forwarded = {}
  /\ pruned = {}

-----------------------------------------------------------------------------
\* The top bit, and the word with its top bit set: w | 0x80000000.
Tagged(w) == w >= HalfWord
Tag(w) == IF Tagged(w) THEN w ELSE w + HalfWord

\* Mutant: the ALU passes on the difference that its condition computes.
PassWordDifference(held, word) == IF held = word THEN Tag(held) ELSE held - word

\* One ALU: it passes on the register, tagged when it equals the packet's word.
PassWord(held, word) == IF held = word THEN Tag(held) ELSE held

\* What stage s passes on for value v, both words.
Passed(s, v) ==
  LET held == reg[s][Hash[v]]
  IN  [hi |-> PassWord(held.hi, v.hi), lo |-> PassWord(held.lo, v.lo)]

\* Mutant: one matching word is enough.
StageHitsEither(s, v) == Tagged(Passed(s, v).hi) \/ Tagged(Passed(s, v).lo)

StageHits(s, v) == Tagged(Passed(s, v).hi) /\ Tagged(Passed(s, v).lo)

\* The ingress tries the next stage only after a miss.
Reached(s, v) == \A t \in 1 .. s - 1 : ~StageHits(t, v)

Hits(v) == \E s \in Stages : StageHits(s, v)

\* Mutant: stage 3, too, reads metadata that an older stage wrote.
FeederStale(s) == CASE s = 2 -> 1 [] s = 3 -> 1 [] s = 4 -> 2

\* The stage whose words stage s stores.  Stages 3 and 4 both read the metadata
\* that stage 2 wrote; what stage 3 passes on is in cheetah_md_2 and is lost.
Feeder(s) == CASE s = 2 -> 1 [] s = 3 -> 2 [] s = 4 -> 2

\* Stage 1 stores the packet's value, any other what its feeder passed on.
Stored(s, v) == IF s = 1 THEN v ELSE Passed(Feeder(s), v)

\* A packet's walk; table prune_table* drops it.
Ingress(v) ==
  /\ reg' = [s \in Stages |->
               IF Reached(s, v) THEN [reg[s] EXCEPT ![Hash[v]] = Stored(s, v)]
               ELSE reg[s]]
  /\ \/ Hits(v) /\ pruned' = pruned \union {v} /\ UNCHANGED forwarded
     \/ ~Hits(v) /\ forwarded' = forwarded \union {v} /\ UNCHANGED pruned

\* The program is loaded again for another query.
Load ==
  /\ reg' = [s \in Stages |-> [c \in Cells |-> Empty]]
  /\ forwarded' = {}
  /\ pruned' = {}

Next ==
  \/ \E v \in Values : Ingress(v)
  \/ Load

Spec == Init /\ [][Next]_vars

-----------------------------------------------------------------------------
\* The filter tells values apart by words whose top bit is free for the tag: the
\* values a stage can hold untagged.
Small(v) == v.hi = 0 /\ v.lo \in 0 .. HalfWord - 1

\* The values that the filter may drop unseen: 0, which a register that was never
\* written equals, and those that met a value that is not Small in their cell.
Met(v) == {w \in forwarded \union pruned : Hash[w] = Hash[v]}
Spoiled(v) == v = Empty \/ \E w \in Met(v) : ~Small(w)

\* FirstIsForwarded: every other value is dropped only if it was forwarded
\* before, so the master sees it, although the words of a value travel through
\* the stages apart and are matched apart (cheetah_distinct.p4:77-114).
FirstIsForwarded == \A v \in pruned \ forwarded : Spoiled(v)

\* The stages that remember: a fourth, which the program has, is fed from stage
\* 2 like the third (cheetah_lru_import_efficient_4.p4:19) and repeats what one of the
\* first three holds.
Depth == IF NumStages < 3 THEN NumStages ELSE 3

\* The values a cell holds, in stage order, with the tags taken off.
Untagged(w) == w % HalfWord
Held(c) ==
  [s \in 1 .. Depth |-> [hi |-> Untagged(reg[s][c].hi), lo |-> Untagged(reg[s][c].lo)]]

SmallSoFar == \A v \in forwarded \union pruned : Small(v)

\* IsLRU: as long as all values are Small, the stages of a cell are one LRU
\* cache, Depth places deep, whose places hold 0 at first: each packet is a use
\* of it, in all the ways its value can sit in the stages.
Caches ==
  INSTANCE LRUCache WITH cache <- [c \in Cells |-> Held(c)], Width <- Depth, Zero <- Empty
IsLRU == Caches!Init /\ [][SmallSoFar' => Caches!Next]_(Caches!vars)

\* EveryCacheCounts: "you can increase or decrease the number of LRU caches"
\* (README.md:45).  A cell that has met as many values as it has caches holds
\* that many, if none was wide or 0.  Four caches hold no more than three.
EveryCacheCounts ==
  \A c \in Cells :
    LET met == {v \in forwarded \union pruned : Hash[v] = c}
        held == {reg[s][c].lo : s \in Stages} \ {0}
    IN  (\A v \in met : Small(v) /\ v # Empty)
          => Cardinality(held) = (IF Cardinality(met) < NumStages
                                  THEN Cardinality(met) ELSE NumStages)
=============================================================================
