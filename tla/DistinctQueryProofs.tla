------------------------ MODULE DistinctQueryProofs ------------------------
(***************************************************************************)
(* A DISTINCT query answers with every value sent, but for those of lost   *)
(* rows and those that the switch's words cannot tell apart, for all       *)
(* values, hashes, stages and sizes, and the master's free goes wrong      *)
(* exactly by the values that share a hash.                                *)
(*                                                                         *)
(* The argument, the switch first.  In a cell that has met Small values    *)
(* only, the upper words passed on are always tagged, so a stage hits      *)
(* exactly when its lower word is the packet's; lower words are never      *)
(* tagged in a register; and every lower word but 0 in a register is that  *)
(* of a value that was forwarded (IInv, cell by cell, since one wide value *)
(* spoils no cell but its own).  So what the switch drops it has forwarded *)
(* before, or it is Spoiled (EveryValueArrives).                           *)
(*                                                                         *)
(* A walk moves lower words up to the first stage that hits, or to the     *)
(* last that remembers, and so is a use of an LRU cache; a fourth stage    *)
(* keeps repeating one of three (LikeACache, StagesAreOneCache).           *)
(*                                                                         *)
(* The query's runs are runs of the switch's program (ASwitchRun).  The    *)
(* master records what it receives, once, since the walk along one chain   *)
(* decides for the whole result whether a value is new (ChainsHold).  The  *)
(* two meet in the histories: what was forwarded and not lost was          *)
(* recorded.  The heads that ptr_array lists are the values that head      *)
(* their chains (HeadsListed); the others are the slots never written.     *)
(***************************************************************************)
EXTENDS DistinctQuery, FiniteSetTheorems, SequenceTheorems, TLAPS

\* Cell c has met no wide value.
NarrowCell(c) == \A w \in forwarded \union pruned : Hash[w] = c => Small(w)

\* The words its registers hold then.
CleanCell(c) ==
  \A s \in Stages :
    /\ reg[s][c].hi = 0 \/ reg[s][c].hi = HalfWord
    /\ reg[s][c].lo < HalfWord

\* What a register remembers was forwarded.
RememberedIn(c) ==
  \A s \in Stages :
    reg[s][c].lo # 0 => [hi |-> 0, lo |-> reg[s][c].lo] \in forwarded

CellsHold == \A c \in Cells : NarrowCell(c) => CleanCell(c) /\ RememberedIn(c)

IInv == TypeOK /\ CellsHold /\ FirstIsForwarded

-----------------------------------------------------------------------------
\* A stage is fed by an earlier one.
LEMMA FeederIsEarlier ==
  ASSUME NEW s \in Stages, s # 1
  PROVE  Feeder(s) \in Stages /\ Feeder(s) \in 1 .. s - 1
  <1>1. s \in {2, 3, 4} /\ NumStages \in Nat
    BY DistinctAssumption DEF Stages
  <1>2. s = 2 \/ s = 3 \/ s = 4
    BY <1>1
  <1>3. QED
    BY <1>1, <1>2 DEF Feeder, Stages

\* The registers and histories keep their types.
LEMMA StepTypes ==
  ASSUME TypeOK, [Next]_vars
  PROVE  TypeOK'
  <1>1. ASSUME NEW v \in Values, Ingress(v) PROVE TypeOK'
    <2>1. Hash[v] \in Cells /\ v \in [hi : Words, lo : Words]
      BY DistinctAssumption
    <2>2. ASSUME NEW s \in Stages PROVE Passed(s, v) \in [hi : Words, lo : Words]
      <3>1. reg[s][Hash[v]] \in [hi : Words, lo : Words]
        BY <2>1 DEF TypeOK
      <3>2. \A held, word \in Words : PassWord(held, word) \in Words
        BY DistinctAssumption DEF PassWord, Tag, Tagged, Words
      <3>3. QED
        BY <2>1, <3>1, <3>2 DEF Passed
    <2>3. ASSUME NEW s \in Stages PROVE Stored(s, v) \in [hi : Words, lo : Words]
      <3>1. s # 1 => Feeder(s) \in Stages
        BY FeederIsEarlier
      <3>2. QED
        BY <2>1, <2>2, <3>1 DEF Stored
    <2>4. reg' \in [Stages -> [Cells -> [hi : Words, lo : Words]]]
      BY <1>1, <2>1, <2>3 DEF Ingress, TypeOK
    <2>5. QED
      BY <1>1, <2>4 DEF Ingress, TypeOK
  <1>2. CASE Load
    <2>1. Empty \in [hi : Words, lo : Words]
      BY DistinctAssumption DEF Empty, Words
    <2>2. QED
      BY <1>2, <2>1 DEF Load, TypeOK
  <1>3. CASE UNCHANGED vars
    BY <1>3 DEF vars, TypeOK
  <1>4. QED
    BY <1>1, <1>2, <1>3 DEF Next

\* In a clean cell a stage hits a Small value exactly on the lower word, which
\* it then is the only one to tag.
LEMMA HitIsEquality ==
  ASSUME TypeOK, NEW v \in Values, Small(v), CleanCell(Hash[v]), NEW s \in Stages
  PROVE  /\ Passed(s, v).hi = HalfWord
         /\ StageHits(s, v) <=> reg[s][Hash[v]].lo = v.lo
         /\ ~StageHits(s, v) => Passed(s, v).lo = reg[s][Hash[v]].lo
  <1> DEFINE held == reg[s][Hash[v]]
  <1>1. Hash[v] \in Cells /\ v.hi = 0 /\ v.lo \in 0 .. HalfWord - 1
    BY DistinctAssumption DEF Small
  <1>2. /\ held.hi \in Words /\ held.lo \in Words
        /\ held.hi = 0 \/ held.hi = HalfWord
        /\ held.lo < HalfWord
    BY <1>1 DEF TypeOK, CleanCell
  <1>3. Passed(s, v).hi = PassWord(held.hi, 0) /\ Passed(s, v).lo = PassWord(held.lo, v.lo)
    BY <1>1 DEF Passed
  <1> HIDE DEF held
  <1>4. PassWord(held.hi, 0) = HalfWord
    BY <1>2, DistinctAssumption DEF PassWord, Tag, Tagged, Words
  <1>5. /\ held.lo = v.lo => PassWord(held.lo, v.lo) >= HalfWord
        /\ held.lo # v.lo => PassWord(held.lo, v.lo) = held.lo
    BY <1>1, <1>2, DistinctAssumption DEF PassWord, Tag, Tagged, Words
  <1>6. held.lo # v.lo => ~(PassWord(held.lo, v.lo) >= HalfWord)
    BY <1>2, <1>5, DistinctAssumption DEF Words
  <1>7. StageHits(s, v) <=> held.lo = v.lo
    BY <1>3, <1>4, <1>5, <1>6, DistinctAssumption DEF StageHits, Tagged
  <1>8. QED
    BY <1>3, <1>4, <1>5, <1>7 DEF held

\* A Small value is its lower word.
LEMMA SmallIsItsWord ==
  ASSUME NEW v \in Values, Small(v)
  PROVE  v = [hi |-> 0, lo |-> v.lo] /\ (v.lo = 0 => v = Empty)
  <1>1. v \in [hi : Words, lo : Words] /\ v.hi = 0
    BY DistinctAssumption DEF Small
  <1>2. v = [hi |-> v.hi, lo |-> v.lo]
    BY <1>1
  <1>3. QED
    BY <1>1, <1>2 DEF Empty

\* A packet's walk only adds to the histories, and its value is in one of them.
LEMMA HistoriesGrow ==
  ASSUME NEW v \in Values, Ingress(v)
  PROVE  /\ forwarded \subseteq forwarded' /\ pruned \subseteq pruned'
         /\ v \in forwarded' \union pruned'
         /\ \A c \in Cells : NarrowCell(c)' => NarrowCell(c)
         /\ NarrowCell(Hash[v])' => Small(v)
  <1>1. /\ forwarded \subseteq forwarded' /\ pruned \subseteq pruned'
        /\ v \in forwarded' \union pruned'
    BY DEF Ingress
  <1>2. QED
    BY <1>1 DEF NarrowCell, Small

\* What is dropped was forwarded, or spoiled.
LEMMA HitWasForwarded ==
  ASSUME IInv, NEW v \in Values, Ingress(v), Hits(v), NarrowCell(Hash[v])', v # Empty
  PROVE  v \in forwarded
  <1>1. PICK s \in Stages : StageHits(s, v)
    BY DEF Hits
  <1>2. Hash[v] \in Cells /\ Small(v) /\ NarrowCell(Hash[v])
    BY HistoriesGrow, DistinctAssumption
  <1>3. CleanCell(Hash[v]) /\ RememberedIn(Hash[v]) /\ TypeOK
    BY <1>2 DEF IInv, CellsHold
  <1>4. reg[s][Hash[v]].lo = v.lo
    BY <1>1, <1>2, <1>3, HitIsEquality
  <1>5. v = [hi |-> 0, lo |-> v.lo] /\ v.lo # 0
    BY <1>2, SmallIsItsWord
  <1>6. QED
    BY <1>3, <1>4, <1>5 DEF RememberedIn

\* One packet's walk keeps the invariant.
LEMMA StepKeepsFirst ==
  ASSUME IInv, NEW v \in Values, Ingress(v)
  PROVE  FirstIsForwarded'
  <1> SUFFICES ASSUME NEW w \in pruned' \ forwarded' PROVE Spoiled(w)'
    BY DEF FirstIsForwarded
  <1>1. forwarded \subseteq forwarded' /\ pruned \subseteq pruned'
    BY HistoriesGrow
  <1>2. CASE w \in pruned
    <2>1. Spoiled(w)
      BY <1>1, <1>2 DEF IInv, FirstIsForwarded
    <2>2. QED
      BY <1>1, <2>1 DEF Spoiled, Met, Small
  <1>3. CASE w \notin pruned
    <2>1. w = v /\ Hits(v) /\ v \notin forwarded
      BY <1>1, <1>3 DEF Ingress
    <2>2. v = Empty \/ ~NarrowCell(Hash[v])'
      BY <2>1, HitWasForwarded
    <2>3. QED
      BY <2>1, <2>2 DEF Spoiled, Met, NarrowCell, Small
  <1>4. QED
    BY <1>2, <1>3

LEMMA StepKeepsCells ==
  ASSUME IInv, NEW v \in Values, Ingress(v)
  PROVE  CellsHold'
  <1> SUFFICES ASSUME NEW c \in Cells, NarrowCell(c)', NEW s \in Stages
               PROVE  /\ reg'[s][c].hi = 0 \/ reg'[s][c].hi = HalfWord
                      /\ reg'[s][c].lo < HalfWord
                      /\ reg'[s][c].lo # 0 => [hi |-> 0, lo |-> reg'[s][c].lo] \in forwarded'
    BY DEF CellsHold, CleanCell, RememberedIn
  <1>1. /\ TypeOK /\ CleanCell(c) /\ RememberedIn(c)
        /\ forwarded \subseteq forwarded' /\ Hash[v] \in Cells
    BY HistoriesGrow, DistinctAssumption DEF IInv, CellsHold
  <1>2. reg[s] \in [Cells -> [hi : Words, lo : Words]]
    BY <1>1 DEF TypeOK
  <1>3. CASE reg'[s][c] = reg[s][c]
    BY <1>1, <1>3 DEF CleanCell, RememberedIn
  <1>4. CASE reg'[s][c] # reg[s][c]
    <2>1. c = Hash[v] /\ Reached(s, v) /\ reg'[s][c] = Stored(s, v)
      BY <1>1, <1>2, <1>4 DEF Ingress
    <2>2. Small(v) /\ v.hi = 0 /\ v.lo < HalfWord
      <3>1. Small(v)
        BY <2>1, HistoriesGrow
      <3>2. QED
        BY <3>1, DistinctAssumption DEF Small
    <2>3. CASE s = 1
      <3>1. reg'[s][c] = v
        BY <2>1, <2>3 DEF Stored
      <3>2. v.lo # 0 => v \in forwarded'
        <4>1. Hits(v) /\ v # Empty => v \in forwarded
          BY <2>1, HitWasForwarded
        <4>2. v.lo # 0 => v # Empty
          BY DEF Empty
        <4>3. QED
          BY <1>1, <4>1, <4>2 DEF Ingress
      <3>3. v = [hi |-> 0, lo |-> v.lo]
        BY <2>2, SmallIsItsWord
      <3>4. QED
        BY <2>2, <3>1, <3>2, <3>3
    <2>4. CASE s # 1
      <3>1. Feeder(s) \in Stages /\ Feeder(s) \in 1 .. s - 1
        BY <2>4, FeederIsEarlier
      <3>2. ~StageHits(Feeder(s), v)
        BY <2>1, <3>1 DEF Reached
      <3>3. /\ Passed(Feeder(s), v).hi = HalfWord
            /\ Passed(Feeder(s), v).lo = reg[Feeder(s)][c].lo
        BY <1>1, <2>1, <2>2, <3>1, <3>2, HitIsEquality
      <3>4. reg'[s][c] = Passed(Feeder(s), v)
        BY <2>1, <2>4 DEF Stored
      <3>5. QED
        BY <1>1, <3>1, <3>3, <3>4 DEF CleanCell, RememberedIn
    <2>5. QED
      BY <2>3, <2>4
  <1>5. QED
    BY <1>3, <1>4

\* Registers that were never written.
LEMMA UnwrittenHold ==
  ASSUME reg = [s \in Stages |-> [c \in Cells |-> Empty]], forwarded = {}, pruned = {}
  PROVE  IInv
  <1>1. Empty \in [hi : Words, lo : Words] /\ 0 < HalfWord
    BY DistinctAssumption DEF Empty, Words
  <1>2. \A s \in Stages, c \in Cells : reg[s][c].hi = 0 /\ reg[s][c].lo = 0
    BY DEF Empty
  <1>3. TypeOK
    BY <1>1 DEF TypeOK
  <1>4. QED
    BY <1>1, <1>2, <1>3 DEF IInv, CellsHold, CleanCell, RememberedIn, FirstIsForwarded

\* The inductive invariant.
LEMMA Invariance == Spec => []IInv
  <1>1. Init => IInv
    BY UnwrittenHold DEF Init
  <1>2. IInv /\ [Next]_vars => IInv'
    <2> SUFFICES ASSUME IInv, [Next]_vars PROVE IInv'
      OBVIOUS
    <2>1. TypeOK'
      BY StepTypes DEF IInv
    <2>2. ASSUME NEW v \in Values, Ingress(v) PROVE IInv'
      BY <2>1, <2>2, StepKeepsFirst, StepKeepsCells DEF IInv
    <2>3. CASE Load
      <3>1. /\ \A s \in Stages, c \in Cells : reg'[s][c].hi = 0 /\ reg'[s][c].lo = 0
            /\ pruned' = {} /\ 0 < HalfWord
        BY <2>3, DistinctAssumption DEF Load, Empty
      <3>2. QED
        BY <2>1, <3>1 DEF IInv, CellsHold, CleanCell, RememberedIn, FirstIsForwarded
    <2>4. CASE UNCHANGED vars
      BY <2>1, <2>4 DEF vars, IInv, CellsHold, NarrowCell, CleanCell, RememberedIn,
                        FirstIsForwarded, Spoiled, Met
    <2>5. QED
      BY <2>2, <2>3, <2>4 DEF Next
  <1>3. QED
    BY <1>1, <1>2, PTL DEF Spec

\* The registers and histories keep their types.
THEOREM Typing == Spec => []TypeOK
  <1>1. IInv => TypeOK
    BY DEF IInv
  <1>2. QED
    BY <1>1, Invariance, PTL

\* Every value reaches the master that the switch can tell from the others of
\* its cell: it is only dropped when it was forwarded before.
THEOREM EveryValueArrives == Spec => []FirstIsForwarded
  <1>1. IInv => FirstIsForwarded
    BY DEF IInv
  <1>2. QED
    BY <1>1, Invariance, PTL

-----------------------------------------------------------------------------
\* The depth, and who feeds whom.
LEMMA DepthFacts ==
  /\ Depth \in 1 .. 3 /\ Depth \in Nat
  /\ \A s \in 1 .. Depth : s \in Stages /\ s \in Nat
  /\ \A s \in 2 .. Depth : s - 1 \in 1 .. Depth /\ Feeder(s) = s - 1
  /\ \A s \in Stages \ (1 .. Depth) : s = 4 /\ Depth = 3 /\ Feeder(s) = 2
  <1>1. NumStages \in 1 .. 4 /\ NumStages \in Nat
    BY DistinctAssumption
  <1>2. Depth \in 1 .. 3 /\ Depth <= NumStages /\ (Depth = NumStages \/ (Depth = 3 /\ NumStages = 4))
    BY <1>1 DEF Depth
  <1>3. \A s \in 1 .. Depth : s \in Stages /\ s \in Nat
    BY <1>1, <1>2 DEF Stages
  <1>4. ASSUME NEW s \in 2 .. Depth
        PROVE  s - 1 \in 1 .. Depth /\ Feeder(s) = s - 1
    <2>1. s = 2 \/ s = 3
      BY <1>2
    <2>2. QED
      BY <1>2, <2>1 DEF Feeder
  <1>5. ASSUME NEW s \in Stages \ (1 .. Depth)
        PROVE  s = 4 /\ Depth = 3 /\ Feeder(s) = 2
    <2>1. s = 4 /\ Depth = 3
      BY <1>1, <1>2 DEF Stages
    <2>2. QED
      BY <2>1 DEF Feeder
  <1>6. QED
    BY <1>2, <1>3, <1>4, <1>5

\* A stage beyond Depth repeats what one of the others holds.
Repeated(r, c) ==
  \A s \in Stages \ (1 .. Depth) : \E t \in 1 .. Depth : r[s][c].lo = r[t][c].lo

LikeACache == SmallSoFar => \A c \in Cells : Repeated(reg, c)

\* What SmallSoFar says of a cell.
LEMMA SmallCells ==
  ASSUME IInv, SmallSoFar, NEW c \in Cells
  PROVE  TypeOK /\ CleanCell(c)
  BY DEF IInv, CellsHold, NarrowCell, SmallSoFar

\* The stages that a packet reaches, by the lower words of its cell.
LEMMA Reach ==
  ASSUME IInv, SmallSoFar, NEW v \in Values, Small(v), NEW s \in Stages
  PROVE  Reached(s, v) <=> \A t \in 1 .. s - 1 : reg[t][Hash[v]].lo # v.lo
  <1>1. TypeOK /\ CleanCell(Hash[v])
    BY SmallCells, DistinctAssumption
  <1>2. \A t \in 1 .. s - 1 : t \in Stages
    BY DistinctAssumption DEF Stages
  <1>3. QED
    BY <1>1, <1>2, HitIsEquality DEF Reached

\* A packet is dropped when one of the first stages holds its value.
LEMMA Verdict ==
  ASSUME IInv, SmallSoFar, NEW v \in Values, Small(v), Repeated(reg, Hash[v])
  PROVE  Hits(v) <=> \E p \in 1 .. Depth : reg[p][Hash[v]].lo = v.lo
  <1>1. TypeOK /\ CleanCell(Hash[v])
    BY SmallCells, DistinctAssumption
  <1>2. \A s \in Stages : StageHits(s, v) <=> reg[s][Hash[v]].lo = v.lo
    BY <1>1, HitIsEquality
  <1>3. \A s \in Stages : s \in 1 .. Depth \/
          \E t \in 1 .. Depth : reg[s][Hash[v]].lo = reg[t][Hash[v]].lo
    BY DEF Repeated
  <1>4. QED
    BY <1>2, <1>3, DepthFacts DEF Hits

\* What a packet's walk leaves in the lower words of its cell.
LEMMA Walk ==
  ASSUME IInv, SmallSoFar, NEW v \in Values, Small(v), Ingress(v), NEW s \in Stages
  PROVE  /\ Reached(s, v) =>
              reg'[s][Hash[v]].lo = IF s = 1 THEN v.lo ELSE reg[Feeder(s)][Hash[v]].lo
         /\ ~Reached(s, v) => reg'[s][Hash[v]].lo = reg[s][Hash[v]].lo
  <1>1. reg[s] \in [Cells -> [hi : Words, lo : Words]] /\ Hash[v] \in Cells
    BY DistinctAssumption DEF IInv, TypeOK
  <1>2. reg'[s] = IF Reached(s, v) THEN [reg[s] EXCEPT ![Hash[v]] = Stored(s, v)] ELSE reg[s]
    BY DEF Ingress
  <1>3. ~Reached(s, v) => reg'[s][Hash[v]].lo = reg[s][Hash[v]].lo
    BY <1>2
  <1>4. ASSUME Reached(s, v)
        PROVE  reg'[s][Hash[v]].lo = IF s = 1 THEN v.lo ELSE reg[Feeder(s)][Hash[v]].lo
    <2>1. reg'[s][Hash[v]] = Stored(s, v)
      BY <1>1, <1>2, <1>4
    <2>2. CASE s = 1
      BY <2>1, <2>2 DEF Stored
    <2>3. CASE s # 1
      <3>1. Feeder(s) \in Stages /\ Feeder(s) \in 1 .. s - 1
        BY <2>3, FeederIsEarlier
      <3>2. ~StageHits(Feeder(s), v)
        BY <1>4, <3>1 DEF Reached
      <3>3. Passed(Feeder(s), v).lo = reg[Feeder(s)][Hash[v]].lo
        BY <1>1, <3>1, <3>2, SmallCells, HitIsEquality
      <3>4. QED
        BY <2>1, <2>3, <3>3 DEF Stored
    <2>4. QED
      BY <2>2, <2>3
  <1>5. QED
    BY <1>3, <1>4

\* A packet's walk leaves the other cells alone.
LEMMA WalkStays ==
  ASSUME TypeOK, NEW v \in Values, Ingress(v), NEW s \in Stages, NEW c \in Cells \ {Hash[v]}
  PROVE  reg'[s][c] = reg[s][c]
  <1>1. reg[s] \in [Cells -> [hi : Words, lo : Words]]
    BY DEF TypeOK
  <1>2. reg'[s] = IF Reached(s, v) THEN [reg[s] EXCEPT ![Hash[v]] = Stored(s, v)] ELSE reg[s]
    BY DEF Ingress
  <1>3. QED
    BY <1>1, <1>2

\* Place p of cell c is the first that holds w, or else the last place.
Frees(r, c, w, p) ==
  /\ \A s \in 1 .. p - 1 : r[s][c].lo # w
  /\ r[p][c].lo = w \/ p = Depth

\* In cell c the word w goes to the front and place p is freed.
MovedUp(r, q, c, w, p) ==
  /\ q[1][c].lo = w
  /\ \A s \in 2 .. p : q[s][c].lo = r[s - 1][c].lo
  /\ \A s \in p + 1 .. Depth : q[s][c].lo = r[s][c].lo

\* A packet's walk moves its value to the front of its cell.
LEMMA WalkMovesUp ==
  ASSUME IInv, SmallSoFar, NEW v \in Values, Small(v), Ingress(v), Repeated(reg, Hash[v])
  PROVE  \E p \in 1 .. Depth :
           /\ Frees(reg, Hash[v], v.lo, p)
           /\ MovedUp(reg, reg', Hash[v], v.lo, p)
           /\ Hits(v) <=> reg[p][Hash[v]].lo = v.lo
  <1>1. PICK c : c = Hash[v]
    OBVIOUS
  <1>2. PICK p : p = IF reg[1][c].lo = v.lo THEN 1
                     ELSE IF 2 <= Depth /\ reg[2][c].lo = v.lo THEN 2 ELSE Depth
    OBVIOUS
  <1>3. p \in 1 .. Depth
    BY <1>2, DepthFacts
  <1>4. Frees(reg, c, v.lo, p)
    <2>1. ASSUME NEW s \in 1 .. p - 1 PROVE reg[s][c].lo # v.lo
      <3>1. s = 1 \/ (s = 2 /\ 2 <= Depth /\ p = Depth)
        BY <1>2, <1>3, DepthFacts
      <3>2. p # 1
        BY <1>3, DepthFacts
      <3>3. p # 2 \/ s = 1
        BY <1>3, DepthFacts
      <3>4. QED
        BY <1>2, <3>1, <3>2, <3>3
    <2>2. QED
      BY <1>2, <2>1 DEF Frees
  <1>5. \A s \in 1 .. Depth : Reached(s, v) <=> s <= p
    <2> SUFFICES ASSUME NEW s \in 1 .. Depth PROVE Reached(s, v) <=> s <= p
      OBVIOUS
    <2>1. Reached(s, v) <=> \A t \in 1 .. s - 1 : reg[t][c].lo # v.lo
      BY <1>1, Reach, DepthFacts
    <2>2. CASE s <= p
      <3>1. \A t \in 1 .. s - 1 : t \in 1 .. p - 1
        BY <1>3, <2>2, DepthFacts
      <3>2. QED
        BY <1>4, <2>1, <2>2, <3>1 DEF Frees
    <2>3. CASE ~(s <= p)
      <3>1. p \in 1 .. s - 1 /\ p # Depth
        BY <1>3, <2>3, DepthFacts
      <3>2. QED
        BY <1>4, <2>1, <2>3, <3>1 DEF Frees
    <2>4. QED
      BY <2>2, <2>3
  <1>6. MovedUp(reg, reg', c, v.lo, p)
    <2>1. 1 \in Stages /\ 1 \in 1 .. Depth /\ 1 <= p
      BY <1>3, DepthFacts
    <2>2. reg'[1][c].lo = v.lo
      BY <1>1, <1>5, <2>1, Walk
    <2>3. ASSUME NEW s \in 2 .. p PROVE reg'[s][c].lo = reg[s - 1][c].lo
      <3>1. s \in Stages /\ s \in 1 .. Depth /\ s <= p /\ s # 1 /\ Feeder(s) = s - 1
        BY <1>3, DepthFacts
      <3>2. QED
        BY <1>1, <1>5, <3>1, Walk
    <2>4. ASSUME NEW s \in p + 1 .. Depth PROVE reg'[s][c].lo = reg[s][c].lo
      <3>1. s \in Stages /\ s \in 1 .. Depth /\ ~(s <= p)
        BY <1>3, DepthFacts
      <3>2. QED
        BY <1>1, <1>5, <3>1, Walk
    <2>5. QED
      BY <2>2, <2>3, <2>4 DEF MovedUp
  <1>7. Hits(v) <=> reg[p][c].lo = v.lo
    <2>1. Hits(v) <=> \E i \in 1 .. Depth : reg[i][c].lo = v.lo
      BY <1>1, Verdict
    <2>2. ASSUME NEW i \in 1 .. Depth, reg[i][c].lo = v.lo PROVE reg[p][c].lo = v.lo
      <3>1. i \in 1 .. p - 1 \/ i = p \/ p # Depth
        BY <1>3, DepthFacts
      <3>2. QED
        BY <1>4, <2>2, <3>1 DEF Frees
    <2>3. QED
      BY <1>3, <2>1, <2>2
  <1>8. QED
    BY <1>1, <1>3, <1>4, <1>6, <1>7

\* The fourth stage keeps repeating one of the first three.
LEMMA StaysRepeated ==
  ASSUME IInv, SmallSoFar, NEW v \in Values, Small(v), Ingress(v), Repeated(reg, Hash[v])
  PROVE  Repeated(reg', Hash[v])
  <1>1. PICK c : c = Hash[v]
    OBVIOUS
  <1>2. PICK p \in 1 .. Depth : Frees(reg, c, v.lo, p) /\ MovedUp(reg, reg', c, v.lo, p)
    BY <1>1, WalkMovesUp
  <1>3. SUFFICES ASSUME NEW s \in Stages \ (1 .. Depth)
                 PROVE  \E t \in 1 .. Depth : reg'[s][c].lo = reg'[t][c].lo
    BY <1>1 DEF Repeated
  <1>4. s = 4 /\ Depth = 3 /\ Feeder(s) = 2 /\ s \in Stages /\ p \in 1 .. 3
    BY DepthFacts
  <1>5. /\ reg'[1][c].lo = v.lo
        /\ \A i \in 2 .. p : reg'[i][c].lo = reg[i - 1][c].lo
        /\ \A i \in p + 1 .. 3 : reg'[i][c].lo = reg[i][c].lo
    BY <1>2, <1>4 DEF MovedUp
  <1>6. CASE Reached(s, v)
    <2>1. 3 \in Stages /\ s # 1 /\ 3 \in 1 .. 3
      BY <1>4, DepthFacts
    <2>2. reg'[s][c].lo = reg[2][c].lo
      BY <1>1, <1>4, <1>6, <2>1, Walk
    <2>3. Reached(3, v)
      BY <1>4, <1>6, <2>1 DEF Reached
    <2>4. 3 # 1 /\ Feeder(3) = 2
      BY DEF Feeder
    <2>5. reg'[3][c].lo = reg[2][c].lo
      BY <1>1, <2>1, <2>3, <2>4, Walk
    <2>6. QED
      BY <1>4, <2>1, <2>2, <2>5
  <1>7. CASE ~Reached(s, v)
    <2>1. reg'[s][c].lo = reg[s][c].lo
      BY <1>1, <1>4, <1>7, Walk
    <2>2. PICK t \in 1 .. 3 : reg[s][c].lo = reg[t][c].lo
      BY <1>1, <1>4 DEF Repeated
    <2>3. reg[p][c].lo = v.lo
      <3>1. PICK i \in 1 .. 3 : reg[i][c].lo = v.lo
        BY <1>1, <1>4, <1>7, Reach
      <3>2. i \in 1 .. p - 1 \/ i = p \/ p # Depth
        BY <1>4, <3>1
      <3>3. QED
        BY <1>2, <3>1, <3>2 DEF Frees
    <2>4. CASE t = p
      BY <1>4, <1>5, <2>1, <2>2, <2>3, <2>4
    <2>5. CASE t < p
      <3>1. t + 1 \in 2 .. p /\ t + 1 \in 1 .. 3 /\ (t + 1) - 1 = t
        BY <1>4, <2>5
      <3>2. reg'[t + 1][c].lo = reg[t][c].lo
        BY <1>5, <3>1
      <3>3. QED
        BY <1>4, <2>1, <2>2, <3>1, <3>2
    <2>6. CASE t > p
      <3>1. t \in p + 1 .. 3
        BY <1>4, <2>6
      <3>2. QED
        BY <1>4, <1>5, <2>1, <2>2, <3>1
    <2>7. QED
      BY <1>4, <2>4, <2>5, <2>6
  <1>8. QED
    BY <1>6, <1>7

\* Small values so far were small before.
LEMMA SmallBefore ==
  ASSUME NEW v \in Values, Ingress(v), SmallSoFar'
  PROVE  SmallSoFar /\ Small(v)
  <1>1. \A w \in forwarded' \union pruned' : Small(w)
    BY DEF SmallSoFar, Small
  <1>2. QED
    BY <1>1, HistoriesGrow DEF SmallSoFar

\* The caches' part of the invariant.
LEMMA CachesInvariance == Spec => [](IInv /\ LikeACache)
  <1>1. Init => LikeACache
    BY DepthFacts DEF Init, LikeACache, Repeated
  <1>2. IInv /\ LikeACache /\ [Next]_vars => LikeACache'
    <2> SUFFICES ASSUME IInv, LikeACache, [Next]_vars, SmallSoFar', NEW c \in Cells
                 PROVE  Repeated(reg', c)
      BY DEF LikeACache
    <2>1. ASSUME NEW v \in Values, Ingress(v) PROVE Repeated(reg', c)
      <3>1. SmallSoFar /\ Small(v)
        BY <2>1, SmallBefore
      <3>2. Repeated(reg, c)
        BY <3>1 DEF LikeACache
      <3>3. CASE c = Hash[v]
        BY <2>1, <3>1, <3>2, <3>3, StaysRepeated
      <3>4. CASE c # Hash[v]
        <4>1. \A s \in Stages : reg'[s][c] = reg[s][c]
          BY <2>1, <3>4, WalkStays DEF IInv
        <4>2. QED
          BY <3>2, <4>1, DepthFacts DEF Repeated
      <3>5. QED
        BY <3>3, <3>4
    <2>2. CASE Load
      BY <2>2, DepthFacts DEF Load, Repeated
    <2>3. CASE UNCHANGED vars
      BY <2>3 DEF vars, LikeACache, SmallSoFar, Small, Repeated
    <2>4. QED
      BY <2>1, <2>2, <2>3 DEF Next
  <1>3. QED
    BY <1>1, <1>2, Invariance, PTL DEF Spec

\* What Held says of clean register contents r.
LEMMA HeldIs ==
  ASSUME NEW r, NEW c \in Cells,
         \A s \in Stages : /\ r[s][c].hi = 0 \/ r[s][c].hi = HalfWord
                           /\ r[s][c].lo \in Words /\ r[s][c].lo < HalfWord
  PROVE  [s \in 1 .. Depth |-> [hi |-> Untagged(r[s][c].hi), lo |-> Untagged(r[s][c].lo)]]
           = [s \in 1 .. Depth |-> [hi |-> 0, lo |-> r[s][c].lo]]
  <1>1. ASSUME NEW s \in 1 .. Depth
        PROVE  Untagged(r[s][c].hi) = 0 /\ Untagged(r[s][c].lo) = r[s][c].lo
    <2>1. PICK h, l : h = r[s][c].hi /\ l = r[s][c].lo
      OBVIOUS
    <2>2. (h = 0 \/ h = HalfWord) /\ l \in 0 .. HalfWord - 1
      <3>1. s \in Stages
        BY DepthFacts
      <3>2. l \in Words /\ l < HalfWord /\ (h = 0 \/ h = HalfWord)
        BY <2>1, <3>1
      <3>3. QED
        BY <3>2, DistinctAssumption DEF Words
    <2>3. (0 % HalfWord) = 0 /\ (HalfWord % HalfWord) = 0
      BY DistinctAssumption
    <2>4. (l % HalfWord) = l
      BY <2>2, DistinctAssumption
    <2>5. QED
      BY <2>1, <2>2, <2>3, <2>4 DEF Untagged
  <1>2. QED
    BY <1>1

\* The caches before and after a step.
LEMMA HeldBefore ==
  ASSUME IInv, SmallSoFar, NEW c \in Cells
  PROVE  Held(c) = [s \in 1 .. Depth |-> [hi |-> 0, lo |-> reg[s][c].lo]]
  <1>1. \A s \in Stages : /\ reg[s][c].hi = 0 \/ reg[s][c].hi = HalfWord
                          /\ reg[s][c].lo \in Words /\ reg[s][c].lo < HalfWord
    BY SmallCells DEF CleanCell, TypeOK
  <1>2. QED
    BY <1>1, HeldIs DEF Held

LEMMA HeldAfter ==
  ASSUME IInv', SmallSoFar', NEW c \in Cells
  PROVE  Held(c)' = [s \in 1 .. Depth |-> [hi |-> 0, lo |-> reg'[s][c].lo]]
  <1>1. \A s \in Stages : /\ reg'[s][c].hi = 0 \/ reg'[s][c].hi = HalfWord
                          /\ reg'[s][c].lo \in Words /\ reg'[s][c].lo < HalfWord
    BY DEF IInv, CellsHold, NarrowCell, SmallSoFar, Small, CleanCell, TypeOK
  <1>2. QED
    BY <1>1, HeldIs DEF Held

\* A packet's walk uses its cell's cache: it is a Hit or a Miss, and what the
\* cell holds afterwards is the cache touched.
LEMMA WalkUsesCache ==
  ASSUME IInv, IInv', LikeACache, SmallSoFar', NEW v \in Values, Ingress(v)
  PROVE  Caches!Use(v)
  <1>1. PICK c, w : c = Hash[v] /\ w = v.lo
    OBVIOUS
  <1>2. SmallSoFar /\ Small(v)
    BY SmallBefore
  <1>3. c \in Cells /\ v = [hi |-> 0, lo |-> w] /\ Repeated(reg, c)
    BY <1>1, <1>2, SmallIsItsWord, DistinctAssumption DEF LikeACache
  <1>4. PICK p \in 1 .. Depth : /\ Frees(reg, c, w, p)
                                /\ MovedUp(reg, reg', c, w, p)
                                /\ Hits(v) <=> reg[p][c].lo = w
    BY <1>1, <1>2, <1>3, WalkMovesUp
  <1>5. PICK cache, next : /\ cache = [d \in Cells |-> Held(d)]
                           /\ next = [d \in Cells |-> Held(d)']
    OBVIOUS
  <1>6. cache[c] = [s \in 1 .. Depth |-> [hi |-> 0, lo |-> reg[s][c].lo]]
    BY <1>2, <1>3, <1>5, HeldBefore
  <1>7. next[c] = [s \in 1 .. Depth |-> [hi |-> 0, lo |-> reg'[s][c].lo]]
    BY <1>3, <1>5, HeldAfter
  <1>8. \A d \in Cells \ {c} : next[d] = cache[d]
    <2> SUFFICES ASSUME NEW d \in Cells \ {c} PROVE Held(d)' = Held(d)
      BY <1>5
    <2>1. \A s \in 1 .. Depth : reg'[s][d] = reg[s][d]
      BY <1>1, WalkStays, DepthFacts DEF IInv
    <2>2. QED
      BY <2>1 DEF Held
  \* Where v is found, and which place it frees.
  <1>9. \A n \in 1 .. Depth : cache[c][n] = v <=> reg[n][c].lo = w
    <2> SUFFICES ASSUME NEW n \in 1 .. Depth PROVE cache[c][n] = v <=> reg[n][c].lo = w
      OBVIOUS
    <2>1. PICK l : l = reg[n][c].lo
      OBVIOUS
    <2>2. cache[c][n] = [hi |-> 0, lo |-> l]
      BY <1>6, <2>1
    <2>3. QED
      BY <1>3, <2>1, <2>2
  <1>10. \A n \in 1 .. Depth : Caches!FoundAt(v, n) <=>
           reg[n][c].lo = w /\ \A m \in 1 .. n - 1 : reg[m][c].lo # w
    <2> SUFFICES ASSUME NEW n \in 1 .. Depth
                 PROVE  Caches!FoundAt(v, n) <=>
                          reg[n][c].lo = w /\ \A m \in 1 .. n - 1 : reg[m][c].lo # w
      OBVIOUS
    <2>1. Caches!FoundAt(v, n) <=>
            cache[c][n] = v /\ \A m \in 1 .. n - 1 : cache[c][m] # v
      BY <1>1, <1>5 DEF Caches!FoundAt
    <2>2. \A m \in 1 .. n - 1 : m \in 1 .. Depth
      BY DepthFacts
    <2>3. QED
      BY <1>9, <2>1, <2>2
  <1>11. \A n \in 1 .. Depth : Caches!FoundAt(v, n) => n = p
    <2> SUFFICES ASSUME NEW n \in 1 .. Depth, Caches!FoundAt(v, n) PROVE n = p
      OBVIOUS
    <2>1. reg[n][c].lo = w /\ \A m \in 1 .. n - 1 : reg[m][c].lo # w
      BY <1>10
    <2>2. \A m \in 1 .. p - 1 : reg[m][c].lo # w
      BY <1>4 DEF Frees
    <2>3. n \in 1 .. p - 1 \/ n = p \/ (p \in 1 .. n - 1 /\ p # Depth)
      BY DepthFacts
    <2>4. QED
      BY <1>4, <2>1, <2>2, <2>3 DEF Frees
  <1>12. Caches!FoundAt(v, p) <=> Hits(v)
    BY <1>4, <1>10 DEF Frees
  <1>13. Caches!InCache(v) <=> Hits(v)
    BY <1>11, <1>12 DEF Caches!InCache, Caches!Places
  <1>14. Caches!Freed(v) = p
    <2>1. CASE Hits(v)
      <3>1. (CHOOSE n \in 1 .. Depth : Caches!FoundAt(v, n)) = p
        BY <1>11, <1>12, <2>1
      <3>2. QED
        BY <1>13, <2>1, <3>1 DEF Caches!Freed, Caches!Places
    <2>2. CASE ~Hits(v)
      BY <1>4, <1>13, <2>2 DEF Frees, Caches!Freed
    <2>3. QED
      BY <2>1, <2>2
  <1>15. next[c] = Caches!Touched(v)
    <2>1. ASSUME NEW n \in 1 .. Depth
          PROVE  [hi |-> 0, lo |-> reg'[n][c].lo] =
                   IF n = 1 THEN v ELSE IF n <= p THEN cache[c][n - 1] ELSE cache[c][n]
      <3>1. CASE n = 1
        BY <1>3, <1>4, <3>1 DEF MovedUp
      <3>2. CASE n \in 2 .. p
        <4>1. reg'[n][c].lo = reg[n - 1][c].lo /\ n - 1 \in 1 .. Depth /\ n # 1 /\ n <= p
          BY <1>4, <3>2, DepthFacts DEF MovedUp
        <4>2. QED
          BY <1>6, <4>1
      <3>3. CASE n \in p + 1 .. Depth
        <4>1. reg'[n][c].lo = reg[n][c].lo /\ n # 1 /\ ~(n <= p)
          BY <1>4, <3>3, DepthFacts DEF MovedUp
        <4>2. QED
          BY <1>6, <4>1
      <3>4. QED
        BY <3>1, <3>2, <3>3, DepthFacts
    <2>2. Caches!Touched(v) =
            [n \in 1 .. Depth |-> IF n = 1 THEN v ELSE IF n <= p THEN cache[c][n - 1] ELSE cache[c][n]]
      BY <1>1, <1>5, <1>14 DEF Caches!Touched, Caches!Places
    <2>3. QED
      BY <1>7, <2>1, <2>2
  <1>16. next = [cache EXCEPT ![c] = Caches!Touched(v)]
    BY <1>3, <1>5, <1>8, <1>15
  <1>17. Caches!Hit(v) \/ Caches!Miss(v)
    BY <1>13 DEF Ingress, Caches!Hit, Caches!Miss
  <1>18. QED
    BY <1>1, <1>5, <1>16, <1>17 DEF Caches!Use

\* Registers r that were never written are caches of unused places.
LEMMA UnwrittenIsUnused ==
  ASSUME NEW r, NEW c \in Cells, \A s \in Stages : r[s][c] = Empty
  PROVE  [s \in 1 .. Depth |-> [hi |-> Untagged(r[s][c].hi), lo |-> Untagged(r[s][c].lo)]]
           = [n \in 1 .. Depth |-> Empty]
  <1>1. (0 % HalfWord) = 0
    BY DistinctAssumption
  <1>2. ASSUME NEW s \in 1 .. Depth
        PROVE  [hi |-> Untagged(r[s][c].hi), lo |-> Untagged(r[s][c].lo)] = Empty
    <2>1. r[s][c].hi = 0 /\ r[s][c].lo = 0
      BY DepthFacts DEF Empty
    <2>2. QED
      BY <1>1, <2>1 DEF Untagged, Empty
  <1>3. QED
    BY <1>2

\* IsLRU: as long as the values are Small, the stages of a cell are one LRU
\* cache, for any hash: three deep in the program, whose fourth stage repeats
\* one of the others.  What the registers hold is the cache, and each packet is
\* a use of it (cheetah_distinct.p4:77-114).
THEOREM StagesAreOneCache == Spec => IsLRU
  <1>1. Init => Caches!Init
    <2> SUFFICES ASSUME Init PROVE Caches!Init
      OBVIOUS
    <2>1. \A c \in Cells : Held(c) = [n \in 1 .. Depth |-> Empty]
      BY UnwrittenIsUnused DEF Init, Held
    <2>2. QED
      BY <2>1 DEF Init, Caches!Init, Caches!Unused, Caches!Places
  <1>2. ASSUME Load PROVE Caches!Restart
    <2>1. \A c \in Cells : Held(c)' = [n \in 1 .. Depth |-> Empty]
      BY <1>2, UnwrittenIsUnused DEF Load, Held
    <2>2. QED
      BY <1>2, <2>1 DEF Load, Caches!Restart, Caches!Unused, Caches!Places
  <1>3. ASSUME UNCHANGED vars PROVE UNCHANGED Caches!vars
    <2>1. \A c \in Cells : Held(c)' = Held(c)
      BY <1>3 DEF vars, Held
    <2>2. [c \in Cells |-> Held(c)'] = [c \in Cells |-> Held(c)]
      BY <2>1
    <2>3. QED
      BY <1>3, <2>2 DEF vars, Caches!vars
  <1>4. IInv /\ LikeACache /\ IInv' /\ [Next]_vars
          => [SmallSoFar' => Caches!Next]_(Caches!vars)
    <2> SUFFICES ASSUME IInv, LikeACache, IInv', [Next]_vars
                 PROVE  (SmallSoFar' => Caches!Next) \/ UNCHANGED Caches!vars
      OBVIOUS
    <2>1. ASSUME NEW v \in Values, Ingress(v), SmallSoFar' PROVE Caches!Next
      BY <2>1, WalkUsesCache DEF Caches!Next
    <2>2. CASE Load
      BY <1>2, <2>2 DEF Caches!Next
    <2>3. CASE UNCHANGED vars
      BY <1>3, <2>3
    <2>4. QED
      BY <2>1, <2>2, <2>3 DEF Next
  <1>5. QED
    BY <1>1, <1>4, CachesInvariance, PTL DEF Spec, IsLRU

-----------------------------------------------------------------------------
\* The chain of a hash holds the answered values of that hash.
ChainsHold ==
  \A h \in HVals : {chain[h][n] : n \in DOMAIN chain[h]} = {v \in Answered : HVal[v] = h}

\* What holds of the master alone.
MasterInv ==
  /\ Master!TypeOK
  /\ IsFiniteSet(Answered) /\ Cardinality(Answered) = Len(results)
  /\ ~overrun => ChainsHold

\* What holds between the switch and the master.
Recorded ==
  /\ Answered \subseteq forwarded
  /\ ~overrun => forwarded \ lost \subseteq Answered

QueryInv == MasterInv /\ Recorded

\* No chain links a value twice, and ptr_array lists the values that head one.
Firsts == {v \in Answered : chain[HVal[v]][1] = v}

HeadsListed ==
  ~overrun =>
    /\ \A h \in HVals : \A m, n \in DOMAIN chain[h] : chain[h][m] = chain[h][n] => m = n
    /\ IsFiniteSet(Firsts) /\ Cardinality(Firsts) = Len(heads)

-----------------------------------------------------------------------------
\* Without a step of the master its part of the invariant stays.
LEMMA MasterStays ==
  ASSUME MasterInv, UNCHANGED masterVars
  PROVE  MasterInv' /\ Answered' = Answered
  <1>1. results' = results /\ chain' = chain /\ heads' = heads /\ overrun' = overrun
    BY DEF masterVars
  <1>2. Answered' = Answered
    BY <1>1 DEF Answered
  <1>3. Master!TypeOK'
    BY <1>1 DEF MasterInv, Master!TypeOK
  <1>4. ~overrun' => ChainsHold'
    BY <1>1, <1>2 DEF MasterInv, ChainsHold
  <1>5. QED
    BY <1>1, <1>2, <1>3, <1>4 DEF MasterInv

\* The walk along the value's chain decides whether the result has the value.
LEMMA WalkDecides ==
  ASSUME MasterInv, ~overrun, NEW v \in Values
  PROVE  Master!InChain(v) <=> v \in Answered
  <1>1. HVal[v] \in HVals
    BY MasterAssumption DEF Master!DistinctMasterAssumption
  <1>2. {chain[HVal[v]][n] : n \in DOMAIN chain[HVal[v]]} =
          {w \in Answered : HVal[w] = HVal[v]}
    BY <1>1 DEF MasterInv, ChainsHold
  <1>3. Master!InChain(v) <=> v \in {chain[HVal[v]][n] : n \in DOMAIN chain[HVal[v]]}
    BY DEF Master!InChain
  <1>4. QED
    BY <1>2, <1>3

\* A new value is recorded, or the result is overrun.
LEMMA RecordKeeps ==
  ASSUME MasterInv, ~overrun, NEW v \in Values, v \notin Answered, Master!Record(v)
  PROVE  /\ results' \in Seq(Values) /\ overrun' \in BOOLEAN
         /\ IsFiniteSet(Answered') /\ Cardinality(Answered') = Len(results')
         /\ Answered' = (IF overrun' THEN Answered ELSE Answered \union {v})
  <1>1. results \in Seq(Values) /\ overrun \in BOOLEAN /\ Len(results) \in Nat
    BY LenProperties DEF MasterInv, Master!TypeOK
  <1>2. CASE results' = Append(results, v) /\ overrun' = overrun
    <2>1. /\ results' \in Seq(Values) /\ Len(results') = Len(results) + 1
          /\ DOMAIN results' = DOMAIN results \union {Len(results) + 1}
          /\ \A n \in DOMAIN results : results'[n] = results[n]
          /\ results'[Len(results) + 1] = v
      BY <1>1, <1>2, AppendProperties, LenProperties
    <2>2. Answered' = Answered \union {v}
      BY <2>1 DEF Answered
    <2>3. /\ IsFiniteSet(Answered \union {v})
          /\ Cardinality(Answered \union {v}) = Cardinality(Answered) + 1
      BY FS_AddElement DEF MasterInv
    <2>4. QED
      BY <1>1, <1>2, <2>1, <2>2, <2>3 DEF MasterInv
  <1>3. CASE overrun' = TRUE /\ UNCHANGED results
    BY <1>1, <1>3 DEF MasterInv, Answered
  <1>4. QED
    BY <1>2, <1>3 DEF Master!Record

\* The new value is also linked into its chain.
LEMMA LinkKeeps ==
  ASSUME MasterInv, ~overrun, NEW v \in Values, v \notin Answered, Master!Record(v),
         NEW s, s \in Seq(Values),
         {s[n] : n \in DOMAIN s} = {chain[HVal[v]][n] : n \in DOMAIN chain[HVal[v]]} \union {v},
         chain' = [chain EXCEPT ![HVal[v]] = s],
         heads' \in Seq(HVals)
  PROVE  MasterInv'
  <1> DEFINE g == HVal[v]
  <1>1. g \in HVals /\ chain \in [HVals -> Seq(Values)]
    BY MasterAssumption DEF Master!DistinctMasterAssumption, MasterInv, Master!TypeOK
  <1>2. /\ chain' \in [HVals -> Seq(Values)] /\ chain'[g] = s
        /\ \A h \in HVals \ {g} : chain'[h] = chain[h]
    BY <1>1
  <1>3. ASSUME ~overrun' PROVE ChainsHold'
    <2>1. Answered' = Answered \union {v}
      BY <1>3, RecordKeeps
    <2>2. ASSUME NEW h \in HVals
          PROVE  {chain'[h][n] : n \in DOMAIN chain'[h]} = {w \in Answered' : HVal[w] = h}
      <3>1. {chain[h][n] : n \in DOMAIN chain[h]} = {w \in Answered : HVal[w] = h}
        BY DEF MasterInv, ChainsHold
      <3>2. CASE h = g
        <4>1. {chain'[h][n] : n \in DOMAIN chain'[h]} = {w \in Answered : HVal[w] = h} \union {v}
          <5>1. {chain'[h][n] : n \in DOMAIN chain'[h]} = {s[n] : n \in DOMAIN s}
            BY <1>2, <3>2
          <5>2. {chain[HVal[v]][n] : n \in DOMAIN chain[HVal[v]]} =
                  {w \in Answered : HVal[w] = h}
            BY <3>1, <3>2
          <5>3. QED
            BY <5>1, <5>2
        <4>2. {w \in Answered' : HVal[w] = h} = {w \in Answered : HVal[w] = h} \union {v}
          BY <2>1, <3>2
        <4>3. QED
          BY <4>1, <4>2
      <3>3. CASE h # g
        BY <1>2, <2>1, <3>1, <3>3
      <3>4. QED
        BY <3>2, <3>3
    <2>3. QED
      BY <2>2 DEF ChainsHold
  <1>4. QED
    BY <1>2, <1>3, RecordKeeps DEF MasterInv, Master!TypeOK

LEMMA UpdateKeeps ==
  ASSUME MasterInv, ~overrun, NEW v \in Values, Master!Update(v)
  PROVE  /\ MasterInv'
         /\ Answered \subseteq Answered' /\ Answered' \subseteq Answered \union {v}
         /\ ~overrun' => v \in Answered'
  <1>0. /\ HVal[v] \in HVals /\ chain[HVal[v]] \in Seq(Values) /\ heads \in Seq(HVals)
    BY MasterAssumption DEF Master!DistinctMasterAssumption, MasterInv, Master!TypeOK
  <1>1. CASE Master!StartChain(v)
    <2>1. chain[HVal[v]] = <<>>
      BY <1>1 DEF Master!StartChain, Master!Found
    <2>2. v \notin Answered
      BY <2>1, WalkDecides DEF Master!InChain
    <2>3. PICK s : s = <<v>>
      OBVIOUS
    <2>4. s \in Seq(Values) /\ {s[n] : n \in DOMAIN s} = {v}
      BY <2>3
    <2>5. {chain[HVal[v]][n] : n \in DOMAIN chain[HVal[v]]} = {}
      BY <2>1
    <2>6. heads' \in Seq(HVals)
      BY <1>0, <1>1, AppendProperties DEF Master!StartChain
    <2>7. MasterInv'
      BY <1>1, <2>2, <2>3, <2>4, <2>5, <2>6, LinkKeeps DEF Master!StartChain
    <2>8. QED
      BY <1>1, <2>2, <2>7, RecordKeeps DEF Master!StartChain
  <1>2. CASE Master!ExtendChain(v)
    <2>1. v \notin Answered
      BY <1>2, WalkDecides DEF Master!ExtendChain
    <2>2. PICK s : s = Append(chain[HVal[v]], v)
      OBVIOUS
    <2>3. /\ s \in Seq(Values)
          /\ DOMAIN s = DOMAIN chain[HVal[v]] \union {Len(chain[HVal[v]]) + 1}
          /\ \A n \in DOMAIN chain[HVal[v]] : s[n] = chain[HVal[v]][n]
          /\ s[Len(chain[HVal[v]]) + 1] = v
      BY <1>0, <2>2, AppendProperties, LenProperties
    <2>4. {s[n] : n \in DOMAIN s} =
            {chain[HVal[v]][n] : n \in DOMAIN chain[HVal[v]]} \union {v}
      BY <2>3
    <2>5. MasterInv'
      <3>1. /\ Master!Record(v) /\ heads' \in Seq(HVals)
            /\ chain' = [chain EXCEPT ![HVal[v]] = s]
        BY <1>0, <1>2, <2>2 DEF Master!ExtendChain
      <3>2. QED
        BY <2>1, <2>3, <2>4, <3>1, LinkKeeps
    <2>6. QED
      BY <1>2, <2>1, <2>5, RecordKeeps DEF Master!ExtendChain
  <1>3. CASE Master!SkipKnown(v)
    <2>1. v \in Answered
      BY <1>3, WalkDecides DEF Master!SkipKnown
    <2>2. UNCHANGED masterVars
      BY <1>3 DEF Master!SkipKnown, Master!vars, masterVars
    <2>3. QED
      BY <2>1, <2>2, MasterStays
  <1>4. QED
    BY <1>1, <1>2, <1>3 DEF Master!Update

-----------------------------------------------------------------------------
\* A new value at the end of its chain becomes a head only of an empty chain.
LEMMA LinkFirsts ==
  ASSUME MasterInv, ~overrun, HeadsListed, NEW v \in Values, v \notin Answered,
         Answered' = Answered \union {v},
         chain' = [chain EXCEPT ![HVal[v]] = Append(chain[HVal[v]], v)]
  PROVE  /\ \A h \in HVals : \A m, n \in DOMAIN chain'[h] :
              chain'[h][m] = chain'[h][n] => m = n
         /\ Firsts' = (IF chain[HVal[v]] = <<>> THEN Firsts \union {v} ELSE Firsts)
  <1> DEFINE g == HVal[v]
             s == Append(chain[g], v)
  <1>1. g \in HVals /\ chain \in [HVals -> Seq(Values)] /\ chain[g] \in Seq(Values)
    BY MasterAssumption DEF Master!DistinctMasterAssumption, MasterInv, Master!TypeOK
  <1>2. chain'[g] = s /\ \A h \in HVals \ {g} : chain'[h] = chain[h]
    BY <1>1
  <1>3. {chain[g][n] : n \in DOMAIN chain[g]} = {w \in Answered : HVal[w] = g}
    BY <1>1 DEF MasterInv, ChainsHold
  <1>4. /\ Len(chain[g]) \in Nat /\ DOMAIN chain[g] = 1 .. Len(chain[g])
        /\ DOMAIN s = DOMAIN chain[g] \union {Len(chain[g]) + 1}
        /\ \A n \in DOMAIN chain[g] : s[n] = chain[g][n]
        /\ s[Len(chain[g]) + 1] = v
    BY <1>1, AppendProperties, LenProperties
  <1>5. \A n \in DOMAIN chain[g] : chain[g][n] # v
    BY <1>3
  <1>6. \A w \in Answered : HVal[w] \in HVals
    BY MasterAssumption, ElementOfSeq, LenProperties
       DEF Master!DistinctMasterAssumption, MasterInv, Master!TypeOK, Answered
  <1>7. \A h \in HVals : \A m, n \in DOMAIN chain[h] : chain[h][m] = chain[h][n] => m = n
    BY DEF HeadsListed
  <1> HIDE DEF s, g
  <1>8. ASSUME NEW h \in HVals, NEW m \in DOMAIN chain'[h], NEW n \in DOMAIN chain'[h],
               chain'[h][m] = chain'[h][n]
        PROVE  m = n
    <2>1. CASE h # g
      BY <1>2, <1>7, <1>8, <2>1
    <2>2. CASE h = g
      <3>1. \A l \in DOMAIN chain[g] : l # Len(chain[g]) + 1
        BY <1>4
      <3>2. \A a, b \in DOMAIN chain[g] : s[a] = s[b] => a = b
        BY <1>1, <1>4, <1>7
      <3>3. m \in DOMAIN s /\ n \in DOMAIN s /\ s[m] = s[n]
        BY <1>2, <1>8, <2>2
      <3>4. QED
        BY <1>4, <1>5, <3>1, <3>2, <3>3
    <2>3. QED
      BY <2>1, <2>2
  <1>9. CASE chain[g] = <<>>
    <2>1. s[1] = v /\ \A w \in Answered : HVal[w] # g
      BY <1>3, <1>4, <1>9
    <2>2. \A w \in Answered : chain'[HVal[w]] = chain[HVal[w]]
      BY <1>2, <1>6, <2>1
    <2>3. chain'[HVal[v]][1] = v
      BY <1>2, <2>1 DEF g
    <2>4. Firsts' = Firsts \union {v}
      BY <2>2, <2>3 DEF Firsts
    <2>5. QED
      BY <1>8, <1>9, <2>4 DEF g
  <1>10. CASE chain[g] # <<>>
    <2>1. 1 \in DOMAIN chain[g]
      BY <1>1, <1>4, <1>10, EmptySeq
    <2>2. s[1] = chain[g][1] /\ s[1] # v
      BY <1>4, <1>5, <2>1
    <2>3. \A w \in Answered : chain'[HVal[w]][1] = chain[HVal[w]][1]
      BY <1>2, <1>6, <2>2
    <2>4. chain'[HVal[v]][1] # v
      BY <1>2, <2>2 DEF g
    <2>5. Firsts' = Firsts
      BY <2>3, <2>4 DEF Firsts
    <2>6. QED
      BY <1>8, <1>10, <2>5 DEF g
  <1>11. QED
    BY <1>9, <1>10

LEMMA UpdateKeepsHeads ==
  ASSUME MasterInv, ~overrun, HeadsListed, NEW v \in Values, Master!Update(v)
  PROVE  HeadsListed'
  <1> SUFFICES ASSUME ~overrun'
               PROVE  /\ \A h \in HVals : \A m, n \in DOMAIN chain'[h] :
                           chain'[h][m] = chain'[h][n] => m = n
                      /\ IsFiniteSet(Firsts') /\ Cardinality(Firsts') = Len(heads')
    BY DEF HeadsListed
  <1>0. /\ HVal[v] \in HVals /\ chain[HVal[v]] \in Seq(Values) /\ heads \in Seq(HVals)
        /\ IsFiniteSet(Firsts) /\ Cardinality(Firsts) = Len(heads)
    BY MasterAssumption
       DEF Master!DistinctMasterAssumption, MasterInv, Master!TypeOK, HeadsListed
  <1>1. CASE Master!StartChain(v)
    <2>1. chain[HVal[v]] = <<>> /\ Master!Record(v) /\ heads' = Append(heads, HVal[v])
      BY <1>1 DEF Master!StartChain, Master!Found
    <2>2. v \notin Answered
      BY <2>1, WalkDecides DEF Master!InChain
    <2>3. Answered' = Answered \union {v}
      BY <2>1, <2>2, RecordKeeps
    <2>4. Append(chain[HVal[v]], v) = <<v>>
      BY <2>1
    <2>5. chain' = [chain EXCEPT ![HVal[v]] = Append(chain[HVal[v]], v)]
      BY <1>1, <2>4 DEF Master!StartChain
    <2>6. Firsts' = Firsts \union {v} /\ v \notin Firsts
      BY <2>1, <2>2, <2>3, <2>5, LinkFirsts DEF Firsts
    <2>7. IsFiniteSet(Firsts \union {v})
          /\ Cardinality(Firsts \union {v}) = Cardinality(Firsts) + 1
      BY <1>0, <2>6, FS_AddElement
    <2>8. Len(heads') = Len(heads) + 1
      BY <1>0, <2>1, AppendProperties
    <2>9. QED
      BY <1>0, <2>2, <2>3, <2>5, <2>6, <2>7, <2>8, LinkFirsts
  <1>2. CASE Master!ExtendChain(v)
    <2>1. /\ chain[HVal[v]] # <<>> /\ Master!Record(v) /\ heads' = heads
          /\ chain' = [chain EXCEPT ![HVal[v]] = Append(chain[HVal[v]], v)]
      BY <1>2 DEF Master!ExtendChain, Master!Found
    <2>2. v \notin Answered
      BY <1>2, WalkDecides DEF Master!ExtendChain
    <2>3. Answered' = Answered \union {v}
      BY <2>1, <2>2, RecordKeeps
    <2>4. QED
      BY <1>0, <2>1, <2>2, <2>3, LinkFirsts
  <1>3. CASE Master!SkipKnown(v)
    <2>1. results' = results /\ chain' = chain /\ heads' = heads
      BY <1>3 DEF Master!SkipKnown, Master!vars
    <2>2. QED
      BY <2>1 DEF HeadsListed, Firsts, Answered
  <1>4. QED
    BY <1>1, <1>2, <1>3 DEF Master!Update

-----------------------------------------------------------------------------
\* A run of the query is a run of the switch's program.
THEOREM ASwitchRun == QuerySpec => Spec
  <1>1. QueryInit => Init
    BY DEF QueryInit
  <1>2. [QueryNext]_queryVars => [Next]_vars
    BY DEF QueryNext, queryVars, Send, Restart, Next
  <1>3. QED
    BY <1>1, <1>2, PTL DEF QuerySpec, Spec

LEMMA SendKeeps ==
  ASSUME QueryInv, NEW v \in Values, Send(v)
  PROVE  QueryInv'
  <1>1. ~overrun
    BY DEF Send
  <1>2. CASE ~Hits(v) /\ Receive(v)
    <2>1. forwarded' = forwarded \union {v} /\ lost' = lost
      BY <1>2 DEF Send, Ingress, Receive
    <2>2. /\ MasterInv'
          /\ Answered \subseteq Answered' /\ Answered' \subseteq Answered \union {v}
          /\ ~overrun' => v \in Answered'
      BY <1>1, <1>2, UpdateKeeps DEF Receive, QueryInv
    <2>3. QED
      BY <1>1, <2>1, <2>2 DEF QueryInv, Recorded
  <1>3. CASE ~Hits(v) /\ Lose(v)
    <2>1. /\ forwarded' = forwarded \union {v} /\ lost' = lost \union {v}
          /\ UNCHANGED masterVars
      BY <1>3 DEF Send, Ingress, Lose
    <2>2. QED
      <3>1. MasterInv' /\ Answered' = Answered /\ overrun' = overrun
        BY <2>1, MasterStays DEF QueryInv, masterVars
      <3>2. QED
        BY <2>1, <3>1 DEF QueryInv, Recorded
  <1>4. CASE Hits(v) /\ UNCHANGED <<lost, masterVars>>
    <2>1. forwarded' = forwarded
      BY <1>4 DEF Send, Ingress
    <2>2. QED
      <3>1. MasterInv' /\ Answered' = Answered /\ overrun' = overrun
        BY <1>4, MasterStays DEF QueryInv, masterVars
      <3>2. QED
        BY <1>4, <2>1, <3>1 DEF QueryInv, Recorded
  <1>5. QED
    BY <1>2, <1>3, <1>4 DEF Send

\* An empty result with empty chains.
LEMMA EmptyAnswer ==
  ASSUME results = <<>>, chain = [h \in HVals |-> <<>>], heads = <<>>, overrun = FALSE
  PROVE  MasterInv /\ Answered = {}
  <1>1. \A S : <<>> \in Seq(S) /\ Len(<<>>) = 0
    BY EmptySeq
  <1>2. Answered = {}
    BY DEF Answered
  <1>3. ChainsHold
    BY <1>2 DEF ChainsHold
  <1>4. QED
    BY <1>1, <1>2, <1>3, FS_EmptySet DEF MasterInv, Master!TypeOK

LEMMA QueryInvariance == QuerySpec => []QueryInv
  <1>1. QueryInit => QueryInv
    BY EmptyAnswer DEF QueryInit, Init, Master!Init, QueryInv, Recorded
  <1>2. QueryInv /\ [QueryNext]_queryVars => QueryInv'
    <2> SUFFICES ASSUME QueryInv, [QueryNext]_queryVars PROVE QueryInv'
      OBVIOUS
    <2>1. ASSUME NEW v \in Values, Send(v) PROVE QueryInv'
      BY <2>1, SendKeeps
    <2>2. CASE Restart
      <3>1. /\ results' = <<>> /\ chain' = [h \in HVals |-> <<>>]
            /\ heads' = <<>> /\ overrun' = FALSE /\ forwarded' = {}
        BY <2>2 DEF Restart, Load
      <3>2. MasterInv' /\ Answered' = {}
        <4>1. \A S : <<>> \in Seq(S) /\ Len(<<>>) = 0
          BY EmptySeq
        <4>2. Answered' = {}
          BY <3>1 DEF Answered
        <4>3. ChainsHold'
          BY <3>1, <4>2 DEF ChainsHold
        <4>4. QED
          BY <3>1, <4>1, <4>2, <4>3, FS_EmptySet DEF MasterInv, Master!TypeOK
      <3>3. QED
        BY <3>1, <3>2 DEF QueryInv, Recorded
    <2>3. CASE UNCHANGED queryVars
      <3>1. /\ forwarded' = forwarded /\ lost' = lost /\ overrun' = overrun
            /\ UNCHANGED masterVars
        BY <2>3 DEF queryVars, vars, masterVars
      <3>2. QED
        BY <3>1, MasterStays DEF QueryInv, Recorded
    <2>4. QED
      BY <2>1, <2>2, <2>3 DEF QueryNext
  <1>3. QED
    BY <1>1, <1>2, PTL DEF QuerySpec

\* TheAnswerIsDistinct: until result_array is overrun, a query lists every value
\* that was sent, once, but for values of lost rows and Spoiled ones
\* (cheetah_distinct.p4:77-114, cheetah_aggregate_processing.c:116-193).
THEOREM TheAnswerIsDistinct == QuerySpec => []AnswerIsDistinct
  <1>1. QuerySpec => []FirstIsForwarded
    BY ASwitchRun, EveryValueArrives, PTL
  <1>2. QueryInv /\ FirstIsForwarded => AnswerIsDistinct
    BY DEF QueryInv, MasterInv, Recorded, FirstIsForwarded, AnswerIsDistinct
  <1>3. QED
    BY <1>1, <1>2, QueryInvariance, PTL

\* QueryTyping: the switch's registers and the master's lists keep their types
\* in every query.
THEOREM QueryTyping == QuerySpec => []QueryTypeOK
  <1>1. QuerySpec => []TypeOK
    BY ASwitchRun, Typing, PTL
  <1>2. QuerySpec => [](lost \subseteq Values)
    <2>1. QueryInit => lost \subseteq Values
      BY DEF QueryInit
    <2>2. lost \subseteq Values /\ [QueryNext]_queryVars => (lost \subseteq Values)'
      BY DEF QueryNext, queryVars, masterVars, Send, Receive, Lose, Restart
    <2>3. QED
      BY <2>1, <2>2, PTL DEF QuerySpec
  <1>3. TypeOK /\ lost \subseteq Values /\ QueryInv => QueryTypeOK
    BY DEF QueryTypeOK, QueryInv, MasterInv
  <1>4. QED
    BY <1>1, <1>2, <1>3, QueryInvariance, PTL

LEMMA HeadsInvariance == QuerySpec => []HeadsListed
  <1>1. QueryInit => HeadsListed
    <2> SUFFICES ASSUME QueryInit PROVE HeadsListed
      OBVIOUS
    <2>1. results = <<>> /\ chain = [h \in HVals |-> <<>>] /\ heads = <<>>
      BY DEF QueryInit, Master!Init
    <2>2. Firsts = {} /\ Len(heads) = 0
      BY <2>1 DEF Firsts, Answered
    <2>3. QED
      BY <2>1, <2>2, FS_EmptySet DEF HeadsListed
  <1>2. QueryInv /\ HeadsListed /\ [QueryNext]_queryVars => HeadsListed'
    <2> SUFFICES ASSUME QueryInv, HeadsListed, [QueryNext]_queryVars PROVE HeadsListed'
      OBVIOUS
    <2>1. CASE UNCHANGED masterVars
      BY <2>1 DEF masterVars, HeadsListed, Firsts, Answered
    <2>2. ASSUME NEW v \in Values, Send(v) PROVE HeadsListed'
      <3>1. CASE Receive(v)
        BY <2>2, <3>1, UpdateKeepsHeads DEF Send, Receive, QueryInv
      <3>2. QED
        BY <2>1, <2>2, <3>1 DEF Send, Lose
    <2>3. CASE Restart
      <3>1. results' = <<>> /\ chain' = [h \in HVals |-> <<>>] /\ heads' = <<>>
        BY <2>3 DEF Restart
      <3>2. Firsts' = {} /\ Len(heads') = 0
        BY <3>1 DEF Firsts, Answered
      <3>3. QED
        BY <3>1, <3>2, FS_EmptySet DEF HeadsListed
    <2>4. QED
      BY <2>1, <2>2, <2>3 DEF QueryNext, queryVars
  <1>3. QED
    BY <1>1, <1>2, QueryInvariance, PTL DEF QuerySpec

\* The instance of the master's module has its own name for Cardinality.
LEMMA MasterCardinality ==
  ASSUME NEW S
  PROVE  Master!Cardinality(S) = Cardinality(S)
  BY DEF Master!Cardinality, Cardinality

\* FreeReadsWildPerCollision: until result_array is overrun, the master's free
\* reads one slot that was never written for each value that shares its hash
\* with an earlier one, and without such values it frees every entry
\* (cheetah_aggregate_processing.c:101-114).
THEOREM FreeReadsWildPerCollision == QuerySpec => []FreeIsClean
  <1> DEFINE Rest == {v \in Answered : Head(chain[HVal[v]]) # v}
  <1>1. ASSUME QueryInv, HeadsListed, ~overrun
        PROVE  Master!WildSlots = Cardinality(Rest) /\ (Master!WildSlots = 0 => Rest = {})
    <2>1. /\ IsFiniteSet(Answered) /\ Cardinality(Answered) = Len(results)
          /\ Cardinality(Firsts) = Len(heads)
      BY <1>1 DEF QueryInv, MasterInv, HeadsListed
    <2>2. Rest = Answered \ Firsts /\ Firsts \intersect Answered = Firsts
      BY DEF Firsts
    <2> HIDE DEF Rest
    <2>3. IsFiniteSet(Rest) /\ Cardinality(Rest) = Cardinality(Answered) - Cardinality(Answered \intersect Firsts)
      BY <2>1, <2>2, FS_Difference
    <2>4. Answered \intersect Firsts = Firsts
      BY <2>2
    <2>5. Master!WildSlots = Cardinality(Rest)
      BY <2>1, <2>3, <2>4 DEF Master!WildSlots
    <2>6. QED
      BY <2>3, <2>5, FS_EmptySet
  <1>2. ASSUME QueryInv, HeadsListed, ~overrun, Rest = {}, NEW h \in HVals
        PROVE  Master!Freed(h) = chain[h]
    <2>1. /\ chain[h] \in Seq(Values) /\ Len(chain[h]) \in Nat
          /\ DOMAIN chain[h] = 1 .. Len(chain[h])
      BY <1>2, LenProperties DEF QueryInv, MasterInv, Master!TypeOK
    <2>2. ASSUME 2 \in DOMAIN chain[h] PROVE FALSE
      <3>1. PICK w : w = chain[h][2]
        OBVIOUS
      <3>2. {chain[h][n] : n \in DOMAIN chain[h]} = {v \in Answered : HVal[v] = h}
        BY <1>2 DEF QueryInv, MasterInv, ChainsHold
      <3>3. w \in Answered /\ HVal[w] = h
        BY <2>2, <3>1, <3>2
      <3>4. 1 \in DOMAIN chain[h]
        BY <2>1, <2>2
      <3>5. chain[h][1] # w
        BY <1>2, <2>2, <3>1, <3>4 DEF HeadsListed
      <3>6. Head(chain[h]) = chain[h][1]
        OBVIOUS
      <3>7. w \in Rest
        BY <3>3, <3>5, <3>6
      <3>8. QED
        BY <1>2, <3>7
    <2>3. {1, 2} \intersect DOMAIN chain[h] = DOMAIN chain[h]
      BY <2>1, <2>2
    <2>4. Master!Freed(h) = [n \in DOMAIN chain[h] |-> chain[h][n]]
      BY <2>3 DEF Master!Freed
    <2>5. QED
      BY <2>1, <2>4
  <1>3. QueryInv /\ HeadsListed => FreeIsClean
    <2> SUFFICES ASSUME QueryInv, HeadsListed, ~overrun
                 PROVE  /\ Master!WildSlots = Cardinality(Rest)
                        /\ Master!WildSlots = 0 =>
                              \A h \in HVals : Master!Freed(h) = chain[h]
      BY MasterCardinality DEF FreeIsClean, Master!FreeIsClean, Answered
    <2>1. QED
      BY <1>1, <1>2
  <1>4. QED
    BY <1>3, QueryInvariance, HeadsInvariance, PTL
=============================================================================
