---------------------------- MODULE GroupBySwitch ----------------------------
(***************************************************************************)
(* The GROUP BY (maximum per key) program of the switch,                   *)
(* data_plane/cheetah_groupby.p4 with the entries of control_plane/rules.md.*)
(*                                                                         *)
(* A packet carries one row.  Each stage hashes the key to one cell of a   *)
(* pair of register arrays, the cell's key and the cell's value, and drops *)
(* the row when the cell holds the same key with a greater value.          *)
(* Otherwise the cell takes the row, and the next stage looks at it.       *)
(*                                                                         *)
(* A packet's walk through the ingress is one action: packets enter a      *)
(* stage in the order in which they left the one before, and a stage's     *)
(* registers are read and written in one step of its ALU, so every stage   *)
(* serves the packets in arrival order.                                    *)
(***************************************************************************)
EXTENDS Naturals

CONSTANTS Keys,       \* the group-by keys in the workers' rows
          Values,     \* the values in the workers' rows
          Flows,      \* the flow ids in use
          QueryFlow,  \* the flow id the tables have an entry for
          NumStages,  \* sketches in a chain: five in the program
          Cells,      \* the indices of a register array
          Hash,       \* Hash[s][k]: the cell of key k in stage s
          HalfWord    \* 2^31, half the range of a 32-bit word

Stages == 1 .. NumStages
WordSize == 2 * HalfWord
Words == 0 .. WordSize - 1
Rows == [flow : Flows, key : Keys, value : Values]

ASSUME StageAssumption == NumStages \in Nat
ASSUME WordAssumption ==
  /\ HalfWord \in Nat \ {0}
  /\ Keys \subseteq Words
  /\ Values \subseteq Words
ASSUME HashAssumption == Hash \in [Stages -> [Keys -> Cells]]
\* Values stay below 2^31: the ALU compares by the sign of a difference.
ASSUME HalfRange == Values \subseteq 0 .. HalfWord - 1

VARIABLES keyReg,     \* reg_sketch_*_key
          valReg,     \* reg_sketch_*_value
          forwarded,  \* the rows that left the switch (history)
          pruned      \* the rows the switch dropped (history)

vars == <<keyReg, valReg, forwarded, pruned>>

TypeOK ==
  /\ keyReg \in [Stages -> [Cells -> Words]]
  /\ valReg \in [Stages -> [Cells -> Words]]
  /\ forwarded \subseteq Rows
  /\ pruned \subseteq Rows

\* Registers hold 0 when the program is loaded.
Init ==
  /\ keyReg = [s \in Stages |-> [c \in Cells |-> 0]]
  /\ valReg = [s \in Stages |-> [c \in Cells |-> 0]]
  /\ forwarded = {}
  /\ pruned = {}

-----------------------------------------------------------------------------
\* 32-bit subtraction, and a > b as the ALU computes it: a - b > 0, signed.
Sub(a, b) == IF a >= b THEN a - b ELSE a + WordSize - b
Exceeds(a, b) == Sub(a, b) \in 1 .. HalfWord - 1

Cell(s, r) == Hash[s][r.key]

\* alu_sketch_*_key leaves sketch_*_same_key = 1.
SameKey(s, r) == keyReg[s][Cell(s, r)] = r.key

\* Mutant: the value ALU does not look at the key ALU's answer.
StagePrunesAnyKey(s, r) == Exceeds(valReg[s][Cell(s, r)], r.value)

\* alu_sketch_*_value leaves prune = 1.  With both conditions true both
\* update_hi predicates hold; the two results, 1 and 0, are ORed.
StagePrunes(s, r) == SameKey(s, r) /\ Exceeds(valReg[s][Cell(s, r)], r.value)

\* The ingress applies a stage's tables while prune is 0.
Reached(s, r) == \A t \in 1 .. s - 1 : ~StagePrunes(t, r)

Prunes(r) == \E s \in Stages : StagePrunes(s, r)

\* The key ALU stores the key unless it is there already.
StoreKey(s, r) ==
  IF Reached(s, r) THEN [keyReg[s] EXCEPT ![Cell(s, r)] = r.key] ELSE keyReg[s]

\* Mutants: the value is stored only when it is greater, also under a new key;
\* it is stored even when the stage prunes the row; it is added up.
StoreValueIfGreater(s, r) ==
  IF Reached(s, r) /\ Exceeds(r.value, valReg[s][Cell(s, r)])
  THEN [valReg[s] EXCEPT ![Cell(s, r)] = r.value]
  ELSE valReg[s]
StoreValueAlways(s, r) ==
  IF Reached(s, r) THEN [valReg[s] EXCEPT ![Cell(s, r)] = r.value] ELSE valReg[s]
StoreValueSum(s, r) ==
  IF Reached(s, r) /\ ~StagePrunes(s, r)
  THEN [valReg[s] EXCEPT ![Cell(s, r)] = @ + r.value]
  ELSE valReg[s]

\* The value ALU stores the value unless the stage prunes the row.
StoreValue(s, r) ==
  IF Reached(s, r) /\ ~StagePrunes(s, r)
  THEN [valReg[s] EXCEPT ![Cell(s, r)] = r.value]
  ELSE valReg[s]

\* A packet of the query's flow walks through the chain; table_prune drops it
\* at the end of the ingress when prune is 1.
Ingress(r) ==
  /\ r.flow = QueryFlow
  /\ keyReg' = [s \in Stages |-> StoreKey(s, r)]
  /\ valReg' = [s \in Stages |-> StoreValue(s, r)]
  /\ \/ Prunes(r) /\ pruned' = pruned \union {r} /\ UNCHANGED forwarded
     \/ ~Prunes(r) /\ forwarded' = forwarded \union {r} /\ UNCHANGED pruned

\* A packet of another flow misses every table and prune stays 0.
PassThrough(r) ==
  /\ r.flow # QueryFlow
  /\ forwarded' = forwarded \union {r}
  /\ UNCHANGED <<keyReg, valReg, pruned>>

\* Mutant: the next query starts with the registers of the last.
LoadKeepingRegisters ==
  /\ forwarded' = {}
  /\ pruned' = {}
  /\ UNCHANGED <<keyReg, valReg>>

\* The operator loads the program again, for another query: nothing in the
\* program or in its rules clears a register, only a load does.
Load ==
  /\ keyReg' = [s \in Stages |-> [c \in Cells |-> 0]]
  /\ valReg' = [s \in Stages |-> [c \in Cells |-> 0]]
  /\ forwarded' = {}
  /\ pruned' = {}

Next ==
  \/ \E r \in Rows : Ingress(r) \/ PassThrough(r)
  \/ Load

Spec == Init /\ [][Next]_vars

-----------------------------------------------------------------------------
\* Row f makes row r useless to the query: same flow and key, greater value.
Beats(f, r) == f.flow = r.flow /\ f.key = r.key /\ f.value > r.value

Dominated(F, r) == \E f \in F : Beats(f, r)

\* AnswerPreserved: a row the switch dropped had a greater row of its key
\* forwarded, so the master's maximum per key is that of all the rows sent.
\* The row that beat it may have been dropped in turn, and the cell that
\* remembers the beating row may have been written by a row a later stage
\* dropped (groupby.p4:620-657).
AnswerPreserved == \A p \in pruned : Dominated(forwarded, p)

\* SketchBacked: a cell never promises more than the master was sent.  Stages
\* before the one that drops a row keep that row (groupby.p4:74-97), so a cell
\* may hold a row that was never forwarded, but a forwarded row covers it.
SketchBacked ==
  \A s \in Stages, c \in Cells :
    valReg[s][c] > 0 =>
      \E f \in forwarded : /\ f.flow = QueryFlow
                          /\ f.key = keyReg[s][c]
                          /\ f.value >= valReg[s][c]

\* Key k shares its cell of stage s with no other key.
Private(s, k) == \A j \in Keys \ {k} : Hash[s][j] # Hash[s][k]

Sent(k) == {f \in forwarded : f.flow = QueryFlow /\ f.key = k}

\* PrivateCellExact: where no other key collides with it, a key's cell holds
\* exactly the greatest of the key's forwarded values, whatever the other
\* stages evict and drop: the chain never forgets a maximum there, and so
\* drops every smaller row.
PrivateCellExact ==
  \A s \in Stages, k \in Keys :
    Private(s, k) /\ Sent(k) # {} =>
      /\ keyReg[s][Hash[s][k]] = k
      /\ \E f \in Sent(k) : f.value = valReg[s][Hash[s][k]]
      /\ \A f \in Sent(k) : f.value <= valReg[s][Hash[s][k]]

\* The program keeps the promise of PruningSpec with Dominated as redundancy.
Promise == INSTANCE PruningSpec WITH Redundant <- Dominated
PromiseKept == Promise!Spec
=============================================================================
