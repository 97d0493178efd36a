----------------------- MODULE GroupByQueryProofs -----------------------
(***************************************************************************)
(* A GROUP BY query computes the maximum of every key of which the receive *)
(* ring lost no row, for any number of workers and tables, every size of   *)
(* ring, burst and register array, and every hash.                         *)
(*                                                                         *)
(* First the switch's program loses no group's maximum (values are below   *)
(* 2^31, by HalfRange).  SketchBacked is inductive once it is joined to    *)
(* the types, because a row that is written into a cell is either          *)
(* forwarded, and then backs the cell itself, or dropped by a later stage  *)
(* whose cell holds a greater value of the key, and then the row that      *)
(* backs that cell backs this one too.  Every dropped row is beaten by     *)
(* such a row.                                                             *)
(*                                                                         *)
(* Then the query.  It is a run of the switch's program and one of the     *)
(* master's GROUP BY, whose theorems hold of it, and on the way between    *)
(* the two no row appears or disappears but into lost.                     *)
(***************************************************************************)
EXTENDS GroupByQuery, SequenceTheorems, TLAPS

\* No value register ever holds a negative number.
SmallValues == valReg \in [Stages -> [Cells -> 0 .. HalfWord - 1]]

-----------------------------------------------------------------------------
\* Below 2^31 the sign of the 32-bit difference is the order of the values.
LEMMA ExceedsIsGreater ==
  ASSUME NEW a \in 0 .. HalfWord - 1, NEW b \in 0 .. HalfWord - 1
  PROVE  Exceeds(a, b) <=> a > b
  BY WordAssumption DEF Exceeds, Sub, WordSize

\* What a row brings to the switch.
LEMMA RowFields ==
  ASSUME NEW r \in Rows
  PROVE  /\ r.flow \in Flows
         /\ r.key \in Keys /\ r.key \in Words
         /\ r.value \in Values /\ r.value \in 0 .. HalfWord - 1
         /\ \A s \in Stages : Cell(s, r) \in Cells
  BY WordAssumption, HashAssumption, HalfRange DEF Rows, Cell

\* The register arrays keep their shape while a packet walks the chain.
LEMMA StepTypes ==
  ASSUME TypeOK, SmallValues, NEW r \in Rows, Ingress(r)
  PROVE  TypeOK' /\ SmallValues'
  <1>1. ASSUME NEW s \in Stages
        PROVE  /\ StoreKey(s, r) \in [Cells -> Words]
               /\ StoreValue(s, r) \in [Cells -> 0 .. HalfWord - 1]
    BY RowFields DEF StoreKey, StoreValue, TypeOK, SmallValues
  <1>2. /\ keyReg' \in [Stages -> [Cells -> Words]]
        /\ valReg' \in [Stages -> [Cells -> 0 .. HalfWord - 1]]
    BY <1>1 DEF Ingress
  <1>3. \A x \in 0 .. HalfWord - 1 : x \in Words
    BY WordAssumption DEF Words, WordSize
  <1>4. forwarded' \subseteq Rows /\ pruned' \subseteq Rows
    BY DEF Ingress, TypeOK
  <1>5. QED
    BY <1>2, <1>3, <1>4 DEF TypeOK, SmallValues

\* A stage that drops a row knows a forwarded row that beats it.
LEMMA PruningIsBacked ==
  ASSUME TypeOK, SmallValues, SketchBacked, NEW r \in Rows,
         NEW s \in Stages, StagePrunes(s, r)
  PROVE  \E f \in forwarded :
           f.flow = QueryFlow /\ f.key = r.key /\ f.value > r.value
  <1> DEFINE c == Cell(s, r)
  <1>1. c \in Cells /\ keyReg[s][c] = r.key
    BY RowFields DEF StagePrunes, SameKey
  <1>2. valReg[s][c] \in 0 .. HalfWord - 1 /\ r.value \in 0 .. HalfWord - 1
    BY <1>1, RowFields DEF SmallValues
  <1>3. valReg[s][c] > r.value
    BY <1>2, ExceedsIsGreater DEF StagePrunes
  <1>4. PICK f \in forwarded : /\ f.flow = QueryFlow
                               /\ f.key = keyReg[s][c]
                               /\ f.value >= valReg[s][c]
    BY <1>1, <1>2, <1>3, WordAssumption DEF SketchBacked
  <1>5. f.value \in 0 .. HalfWord - 1
    BY RowFields DEF TypeOK
  <1>6. f.value > r.value
    BY <1>2, <1>3, <1>4, <1>5, WordAssumption
  <1>7. QED
    BY <1>1, <1>4, <1>6

\* One packet's walk keeps the cells backed by forwarded rows.
LEMMA StepBacked ==
  ASSUME TypeOK, SmallValues, SketchBacked, NEW r \in Rows, Ingress(r)
  PROVE  SketchBacked'
  <1> SUFFICES ASSUME NEW s \in Stages, NEW c \in Cells, valReg'[s][c] > 0
               PROVE  \E f \in forwarded' : /\ f.flow = QueryFlow
                                            /\ f.key = keyReg'[s][c]
                                            /\ f.value >= valReg'[s][c]
    BY DEF SketchBacked
  <1>1. /\ keyReg'[s] = StoreKey(s, r)
        /\ valReg'[s] = StoreValue(s, r)
        /\ r.flow = QueryFlow
    BY DEF Ingress
  <1>2. Cell(s, r) \in Cells /\ r.value \in 0 .. HalfWord - 1
    BY RowFields
  <1>3. forwarded \subseteq forwarded'
    BY DEF Ingress
  <1>4. keyReg[s] \in [Cells -> Words] /\ valReg[s] \in [Cells -> 0 .. HalfWord - 1]
    BY DEF TypeOK, SmallValues
  <1>5. CASE keyReg'[s][c] = keyReg[s][c] /\ valReg'[s][c] = valReg[s][c]
    BY <1>3, <1>5 DEF SketchBacked
  <1>6. CASE c = Cell(s, r) /\ Reached(s, r) /\ ~StagePrunes(s, r)
    <2>1. keyReg'[s][c] = r.key /\ valReg'[s][c] = r.value
      BY <1>1, <1>2, <1>4, <1>6 DEF StoreKey, StoreValue
    <2>2. CASE Prunes(r)
      <3>1. PICK t \in Stages : StagePrunes(t, r)
        BY <2>2 DEF Prunes
      <3>2. PICK f \in forwarded :
              f.flow = QueryFlow /\ f.key = r.key /\ f.value > r.value
        BY <3>1, PruningIsBacked
      <3>3. f.value \in 0 .. HalfWord - 1
        BY RowFields DEF TypeOK
      <3>4. f.value >= r.value
        BY <1>2, <3>2, <3>3, WordAssumption
      <3>5. QED
        BY <1>3, <2>1, <3>2, <3>4
    <2>3. CASE ~Prunes(r)
      <3>1. r \in forwarded'
        BY <2>3 DEF Ingress
      <3>2. r.value >= r.value
        BY <1>2, WordAssumption
      <3>3. QED
        BY <1>1, <2>1, <3>1, <3>2
    <2>4. QED
      BY <2>2, <2>3
  <1>7. CASE c # Cell(s, r) \/ ~Reached(s, r) \/ StagePrunes(s, r)
    <2>1. keyReg'[s][c] = keyReg[s][c]
      BY <1>1, <1>2, <1>4, <1>7 DEF StoreKey, StagePrunes, SameKey
    <2>2. valReg'[s][c] = valReg[s][c]
      BY <1>1, <1>2, <1>4, <1>7 DEF StoreValue
    <2>3. QED
      BY <1>5, <2>1, <2>2
  <1>8. QED
    BY <1>6, <1>7

\* One packet's walk drops a row only when a forwarded row beats it.
LEMMA StepSound ==
  ASSUME TypeOK, SmallValues, SketchBacked, NEW r \in Rows, Ingress(r)
  PROVE  \/ Promise!Forward(r)
         \/ Promise!Prune(r)
  <1>1. CASE Prunes(r)
    <2>1. PICK s \in Stages : StagePrunes(s, r)
      BY <1>1 DEF Prunes
    <2>2. Dominated(forwarded, r)
      BY <2>1, PruningIsBacked DEF Dominated, Beats, Ingress
    <2>3. QED
      BY <1>1, <2>2 DEF Ingress, Promise!Prune
  <1>2. CASE ~Prunes(r)
    BY <1>2 DEF Ingress, Promise!Forward
  <1>3. QED
    BY <1>1, <1>2

-----------------------------------------------------------------------------
\* The strengthened invariant without AnswerPreserved holds throughout.
LEMMA BackedInvariant == Spec => [](TypeOK /\ SmallValues /\ SketchBacked)
  <1> DEFINE Backed == TypeOK /\ SmallValues /\ SketchBacked
  <1>1. Init => Backed
    <2> SUFFICES ASSUME Init PROVE Backed
      OBVIOUS
    <2>1. 0 \in Words /\ 0 \in 0 .. HalfWord - 1
      BY WordAssumption DEF Words, WordSize
    <2>2. TypeOK /\ SmallValues
      BY <2>1 DEF Init, TypeOK, SmallValues
    <2>3. \A s \in Stages, c \in Cells : valReg[s][c] = 0
      BY DEF Init
    <2>4. QED
      BY <2>2, <2>3 DEF SketchBacked
  <1>2. Backed /\ [Next]_vars => Backed'
    <2> SUFFICES ASSUME Backed, [Next]_vars PROVE Backed'
      OBVIOUS
    <2>1. ASSUME NEW r \in Rows, Ingress(r) PROVE Backed'
      BY <2>1, StepTypes, StepBacked
    <2>2. ASSUME NEW r \in Rows, PassThrough(r) PROVE Backed'
      BY <2>2 DEF PassThrough, TypeOK, SmallValues, SketchBacked
    <2>3. CASE Load
      <3>1. 0 \in Words /\ 0 \in 0 .. HalfWord - 1
        BY WordAssumption DEF Words, WordSize
      <3>2. TypeOK' /\ SmallValues'
        BY <2>3, <3>1 DEF Load, TypeOK, SmallValues
      <3>3. \A s \in Stages, c \in Cells : valReg'[s][c] = 0
        BY <2>3 DEF Load
      <3>4. QED
        BY <3>2, <3>3 DEF SketchBacked
    <2>4. CASE UNCHANGED vars
      BY <2>4 DEF vars, TypeOK, SmallValues, SketchBacked
    <2>5. QED
      BY <2>1, <2>2, <2>3, <2>4 DEF Next
  <1>3. QED
    BY <1>1, <1>2, PTL DEF Spec

\* The registers and the histories keep their types.
THEOREM Typing == Spec => []TypeOK
  BY BackedInvariant, PTL

\* A cell never promises more than was forwarded.
THEOREM CellsAreBacked == Spec => []SketchBacked
  BY BackedInvariant, PTL

\* A row that is beaten stays beaten when more rows are forwarded, which is what
\* Lossless (SkylineSwitchProofs) asks of the notion of redundancy.
LEMMA DominationIsMonotone == Promise!RedundantMonotone
  BY DEF Promise!RedundantMonotone, Dominated

\* The program implements PruningSpec: every packet's walk is a Forward or a
\* Prune of a redundant row, and a load is a Restart.
THEOREM KeepsPromise == Spec => PromiseKept
  <1>1. Init => Promise!Init
    BY DEF Init, Promise!Init
  <1>2. TypeOK /\ SmallValues /\ SketchBacked /\ [Next]_vars => [Promise!Next]_(Promise!vars)
    <2> SUFFICES ASSUME TypeOK, SmallValues, SketchBacked, [Next]_vars
                 PROVE  [Promise!Next]_(Promise!vars)
      OBVIOUS
    <2>1. ASSUME NEW r \in Rows, Ingress(r) PROVE Promise!Next
      BY <2>1, StepSound DEF Promise!Next
    <2>2. ASSUME NEW r \in Rows, PassThrough(r) PROVE Promise!Next
      BY <2>2 DEF PassThrough, Promise!Next, Promise!Forward
    <2>3. CASE Load
      BY <2>3 DEF Load, Promise!Next, Promise!Restart
    <2>4. CASE UNCHANGED vars
      BY <2>4 DEF vars, Promise!vars
    <2>5. QED
      BY <2>1, <2>2, <2>3, <2>4 DEF Next
  <1>3. QED
    BY <1>1, <1>2, BackedInvariant, PTL DEF Spec, PromiseKept, Promise!Spec

\* The switch loses no group's maximum: every dropped row is beaten by a row
\* that was forwarded.
THEOREM MaximumSurvives == Spec => []AnswerPreserved
  <1>1. Init => AnswerPreserved
    BY DEF Init, AnswerPreserved
  <1>2. /\ TypeOK /\ SmallValues /\ SketchBacked /\ AnswerPreserved
        /\ [Next]_vars
        => AnswerPreserved'
    <2> SUFFICES ASSUME TypeOK, SmallValues, SketchBacked, AnswerPreserved, [Next]_vars
                 PROVE  AnswerPreserved'
      OBVIOUS
    <2>1. ASSUME NEW r \in Rows, Ingress(r) PROVE AnswerPreserved'
      <3>1. CASE Promise!Forward(r)
        BY <3>1 DEF Promise!Forward, AnswerPreserved, Dominated
      <3>2. CASE Promise!Prune(r)
        BY <3>2 DEF Promise!Prune, AnswerPreserved, Dominated
      <3>3. QED
        BY <2>1, <3>1, <3>2, StepSound
    <2>2. ASSUME NEW r \in Rows, PassThrough(r) PROVE AnswerPreserved'
      BY <2>2 DEF PassThrough, AnswerPreserved, Dominated
    <2>3. CASE Load
      BY <2>3 DEF Load, AnswerPreserved
    <2>4. CASE UNCHANGED vars
      BY <2>4 DEF vars, AnswerPreserved
    <2>5. QED
      BY <2>1, <2>2, <2>3, <2>4 DEF Next
  <1>3. QED
    BY <1>1, <1>2, BackedInvariant, PTL DEF Spec

-----------------------------------------------------------------------------
\* One packet's walk keeps a private cell equal to its key's maximum: a row
\* that the cell takes and a later stage drops would be smaller than a
\* forwarded row of the key, so the cell itself would have dropped it.
LEMMA StepExact ==
  ASSUME TypeOK, SmallValues, SketchBacked, PrivateCellExact,
         NEW r \in Rows, Ingress(r)
  PROVE  PrivateCellExact'
  <1> SUFFICES ASSUME NEW s \in Stages, NEW k \in Keys,
                      Private(s, k), Sent(k)' # {}
               PROVE  /\ keyReg'[s][Hash[s][k]] = k
                      /\ \E f \in Sent(k)' : f.value = valReg'[s][Hash[s][k]]
                      /\ \A f \in Sent(k)' : f.value <= valReg'[s][Hash[s][k]]
    BY DEF PrivateCellExact, Private
  <1> DEFINE c == Hash[s][k]
  <1>1. /\ keyReg'[s] = StoreKey(s, r)
        /\ valReg'[s] = StoreValue(s, r)
        /\ r.flow = QueryFlow
    BY DEF Ingress
  <1>2. /\ c \in Cells
        /\ Cell(s, r) \in Cells
        /\ r.key \in Keys
        /\ r.value \in 0 .. HalfWord - 1
    BY RowFields, HashAssumption
  <1>3. keyReg[s] \in [Cells -> Words] /\ valReg[s] \in [Cells -> 0 .. HalfWord - 1]
    BY DEF TypeOK, SmallValues
  <1>4. \A f \in Sent(k) \union {r} : f.value \in 0 .. HalfWord - 1
    BY RowFields DEF TypeOK, Sent
  <1>5. Sent(k) # {} => /\ keyReg[s][c] = k
                        /\ \E f \in Sent(k) : f.value = valReg[s][c]
                        /\ \A f \in Sent(k) : f.value <= valReg[s][c]
    BY DEF PrivateCellExact
  <1>6. CASE r.key # k
    <2>1. Cell(s, r) # c
      BY <1>2, <1>6 DEF Private, Cell
    <2>2. keyReg'[s][c] = keyReg[s][c] /\ valReg'[s][c] = valReg[s][c]
      BY <1>1, <1>2, <1>3, <2>1 DEF StoreKey, StoreValue
    <2>3. Sent(k)' = Sent(k)
      BY <1>6 DEF Ingress, Sent
    <2>4. QED
      BY <1>5, <2>2, <2>3
  <1>7. CASE r.key = k /\ ~Prunes(r)
    <2>1. Cell(s, r) = c
      BY <1>7 DEF Cell
    <2>2. Reached(s, r) /\ ~StagePrunes(s, r)
      BY <1>7, StageAssumption DEF Prunes, Reached, Stages
    <2>3. keyReg'[s][c] = k /\ valReg'[s][c] = r.value
      BY <1>1, <1>2, <1>3, <1>7, <2>1, <2>2 DEF StoreKey, StoreValue
    <2>4. Sent(k)' = Sent(k) \union {r}
      BY <1>1, <1>7 DEF Ingress, Sent
    <2>5. ASSUME NEW f \in Sent(k)
          PROVE  f.value <= r.value
      <3>1. keyReg[s][c] = r.key /\ f.value <= valReg[s][c]
        BY <1>5, <1>7
      <3>2. ~Exceeds(valReg[s][c], r.value)
        BY <2>1, <2>2, <3>1 DEF StagePrunes, SameKey
      <3>3. valReg[s][c] \in 0 .. HalfWord - 1
        BY <1>2, <1>3
      <3>4. ~(valReg[s][c] > r.value)
        BY <1>2, <3>2, <3>3, ExceedsIsGreater
      <3>5. QED
        BY <1>2, <1>4, <3>1, <3>3, <3>4, WordAssumption
    <2>6. r.value <= r.value
      BY <1>2, WordAssumption
    <2>7. QED
      BY <2>3, <2>4, <2>5, <2>6
  <1>8. CASE r.key = k /\ Prunes(r)
    <2>1. Sent(k)' = Sent(k)
      BY <1>8 DEF Ingress, Sent
    <2>2. StagePrunes(s, r)
      <3>1. PICK t \in Stages : StagePrunes(t, r)
        BY <1>8 DEF Prunes
      <3>2. PICK f \in Sent(k) : f.value > r.value
        BY <1>8, <3>1, PruningIsBacked DEF Sent
      <3>3. valReg[s][c] \in 0 .. HalfWord - 1
        BY <1>2, <1>3
      <3>4. keyReg[s][c] = k /\ valReg[s][c] > r.value
        BY <1>2, <1>4, <1>5, <3>2, <3>3, WordAssumption
      <3>5. Exceeds(valReg[s][c], r.value)
        BY <1>2, <3>3, <3>4, ExceedsIsGreater
      <3>6. QED
        BY <1>8, <3>4, <3>5 DEF StagePrunes, SameKey, Cell
    <2>3. keyReg'[s][c] = keyReg[s][c] /\ valReg'[s][c] = valReg[s][c]
      BY <1>1, <1>2, <1>3, <1>8, <2>2 DEF StoreKey, StoreValue, StagePrunes, SameKey
    <2>4. QED
      BY <1>5, <2>1, <2>3
  <1>9. QED
    BY <1>6, <1>7, <1>8

\* Without collisions the chain drops every row below its key's maximum: the
\* key's cell always holds that maximum.
THEOREM PrivateCellsAreExact == Spec => []PrivateCellExact
  <1>1. Init => PrivateCellExact
    BY DEF Init, PrivateCellExact, Sent
  <1>2. /\ TypeOK /\ SmallValues /\ SketchBacked /\ PrivateCellExact
        /\ [Next]_vars
        => PrivateCellExact'
    <2> SUFFICES ASSUME TypeOK, SmallValues, SketchBacked, PrivateCellExact, [Next]_vars
                 PROVE  PrivateCellExact'
      OBVIOUS
    <2>1. ASSUME NEW r \in Rows, Ingress(r) PROVE PrivateCellExact'
      BY <2>1, StepExact
    <2>2. ASSUME NEW r \in Rows, PassThrough(r) PROVE PrivateCellExact'
      <3>1. \A k \in Keys : Sent(k)' = Sent(k)
        BY <2>2 DEF PassThrough, Sent
      <3>2. QED
        BY <2>2, <3>1 DEF PassThrough, PrivateCellExact, Private
    <2>3. CASE Load
      BY <2>3 DEF Load, PrivateCellExact, Sent
    <2>4. CASE UNCHANGED vars
      BY <2>4 DEF vars, PrivateCellExact, Private, Sent
    <2>5. QED
      BY <2>1, <2>2, <2>3, <2>4 DEF Next
  <1>3. QED
    BY <1>1, <1>2, BackedInvariant, PTL DEF Spec

-----------------------------------------------------------------------------
\* The theorems about the master's GROUP BY.
MP == INSTANCE GroupByMasterProofs

LEMMA MasterParameters == MP!MasterAssumption
  BY QueryAssumption DEF Master!MasterAssumption, MP!MasterAssumption

\* The two instances of GroupByMaster are one specification.
LEMMA SameMaster ==
  /\ Master!Init <=> MP!Init
  /\ \A k \in Keys, v \in Values : Master!Update(k, v) => MP!Next
  /\ Master!TypeOK <=> MP!TypeOK
  /\ Master!Answer = MP!Answer
  /\ MP!vars = masterVars
  <1>1. Master!Init <=> MP!Init
    BY DEF Master!Init, MP!Init
  <1>2. ASSUME NEW k \in Keys, NEW v \in Values, Master!Update(k, v)
        PROVE  MP!Next
    <2>1. Master!Record(k, v) => MP!Record(k, v)
      BY DEF Master!Record, MP!Record
    <2>2. Master!Entry(k) = MP!Entry(k) /\ (Master!Found(k) <=> MP!Found(k))
      BY DEF Master!Entry, MP!Entry, Master!Found, MP!Found
    <2>3. Master!StartChain(k, v) => MP!StartChain(k, v)
      BY <2>1, <2>2 DEF Master!StartChain, MP!StartChain
    <2>4. Master!ExtendChain(k, v) => MP!ExtendChain(k, v)
      BY <2>1, <2>2 DEF Master!ExtendChain, MP!ExtendChain
    <2>5. Master!Raise(k, v) => MP!Raise(k, v)
      BY <2>2 DEF Master!Raise, MP!Raise
    <2>6. MP!Update(k, v)
      BY <1>2, <2>3, <2>4, <2>5 DEF Master!Update, MP!Update
    <2>7. QED
      BY <2>6 DEF MP!Next
  <1>3. Master!TypeOK <=> MP!TypeOK
    BY DEF Master!TypeOK, MP!TypeOK, Master!Row, MP!Row
  <1>4. Master!Answer = MP!Answer
    BY DEF Master!Answer, MP!Answer, Master!EntryOf, MP!EntryOf
  <1>5. MP!vars = masterVars
    BY DEF MP!vars, masterVars
  <1>6. QED
    BY <1>1, <1>2, <1>3, <1>4, <1>5

-----------------------------------------------------------------------------
\* The worker's tables and what is between switch and master.
Typed ==
  /\ table \in [Workers -> [1 .. TableLength -> QueryRows]]
  /\ sent \in [Workers -> 0 .. TableLength]
  /\ rx \in Seq(QueryRows) /\ Len(rx) <= RxSize
  /\ batch \in Seq(QueryRows) /\ Len(batch) <= BurstSize
  /\ lost \subseteq QueryRows

\* The row a worker sends next.
LEMMA NextRow ==
  ASSUME Typed, NEW w \in Workers, sent[w] < TableLength
  PROVE  /\ sent[w] \in Nat
         /\ sent[w] + 1 \in 1 .. TableLength
         /\ table[w][sent[w] + 1] \in QueryRows
         /\ table[w][sent[w] + 1] \in Rows
  <1>1. sent[w] \in 0 .. TableLength /\ table[w] \in [1 .. TableLength -> QueryRows]
    BY DEF Typed
  <1>2. sent[w] + 1 \in 1 .. TableLength
    BY <1>1, QueryAssumption
  <1>3. QED
    BY <1>1, <1>2, QueryAssumption DEF QueryRows

\* What the port does with a row.
LEMMA Arrival ==
  ASSUME Typed, NEW r \in QueryRows, Arrive(r)
  PROVE  /\ rx' \in Seq(QueryRows) /\ Len(rx') <= RxSize
         /\ lost' \subseteq QueryRows
         /\ lost \subseteq lost'
         /\ \A n \in DOMAIN rx : n \in DOMAIN rx' /\ rx'[n] = rx[n]
         /\ r \in lost' \/ \E n \in DOMAIN rx' : rx'[n] = r
         /\ \A n \in DOMAIN rx' : rx'[n] = r \/ (n \in DOMAIN rx /\ rx'[n] = rx[n])
  <1>1. rx \in Seq(QueryRows) /\ Len(rx) \in Nat /\ DOMAIN rx = 1 .. Len(rx)
    BY LenProperties DEF Typed
  <1>2. CASE Len(rx) < RxSize /\ rx' = Append(rx, r) /\ UNCHANGED lost
    <2>1. /\ rx' \in Seq(QueryRows)
          /\ Len(rx') = Len(rx) + 1
          /\ DOMAIN rx' = DOMAIN rx \union {Len(rx) + 1}
          /\ rx'[Len(rx) + 1] = r
          /\ \A n \in DOMAIN rx : rx'[n] = rx[n]
      BY <1>1, <1>2, AppendProperties, LenProperties
    <2>2. Len(rx') <= RxSize
      BY <1>1, <1>2, <2>1, QueryAssumption
    <2>3. QED
      BY <1>2, <2>1, <2>2 DEF Typed
  <1>3. CASE Len(rx) = RxSize /\ lost' = lost \union {r} /\ UNCHANGED rx
    BY <1>1, <1>3 DEF Typed
  <1>4. QED
    BY <1>2, <1>3 DEF Arrive

\* What is left of a sequence without its first n elements.
LEMMA RestOfSequence ==
  ASSUME NEW S, NEW s \in Seq(S), NEW n \in 0 .. Len(s)
  PROVE  /\ SubSeq(s, n + 1, Len(s)) \in Seq(S)
         /\ Len(SubSeq(s, n + 1, Len(s))) = Len(s) - n
         /\ \A l \in 1 .. Len(s) - n : SubSeq(s, n + 1, Len(s))[l] = s[n + l]
  <1>1. PICK len : len = Len(s)
    OBVIOUS
  <1>2. PICK m : m = n + 1
    OBVIOUS
  <1>3. len \in Nat /\ m \in Int /\ n \in Nat /\ 1 <= m /\ m <= len + 1
    BY <1>1, <1>2, LenProperties
  <1>4. \A i \in m .. len : s[i] \in S
    BY <1>1, <1>3, ElementOfSeq
  <1>5. PICK t : t = SubSeq(s, m, len)
    OBVIOUS
  <1>6. /\ t \in Seq(S)
        /\ Len(t) = IF m <= len THEN len - m + 1 ELSE 0
        /\ \A i \in 1 .. len - m + 1 : t[i] = s[m + i - 1]
    BY <1>3, <1>4, <1>5, SubSeqProperties
  <1>7. Len(t) = len - n
    BY <1>2, <1>3, <1>6
  <1>8. ASSUME NEW l \in 1 .. len - n
        PROVE  t[l] = s[n + l]
    <2>1. l \in 1 .. len - m + 1 /\ m + l - 1 = n + l
      BY <1>2, <1>3
    <2>2. QED
      BY <1>6, <2>1
  <1>9. QED
    BY <1>1, <1>2, <1>5, <1>6, <1>7, <1>8

\* A burst moves the first rows of the ring to the batch, and no row is lost.
LEMMA Burst ==
  ASSUME Typed, NEW n \in 1 .. BurstSize, Receive(n)
  PROVE  /\ rx' \in Seq(QueryRows) /\ Len(rx') <= RxSize
         /\ batch' \in Seq(QueryRows) /\ Len(batch') <= BurstSize
         /\ \A m \in DOMAIN rx : \/ \E l \in DOMAIN batch' : batch'[l] = rx[m]
                                \/ \E l \in DOMAIN rx' : rx'[l] = rx[m]
         /\ \A l \in DOMAIN batch' : \E m \in DOMAIN rx : batch'[l] = rx[m]
         /\ \A l \in DOMAIN rx' : \E m \in DOMAIN rx : rx'[l] = rx[m]
         /\ batch = <<>>
  <1>1. /\ rx \in Seq(QueryRows) /\ Len(rx) \in Nat /\ DOMAIN rx = 1 .. Len(rx)
        /\ Len(rx) <= RxSize
        /\ n \in Nat /\ 1 <= n /\ n <= BurstSize /\ n <= Len(rx)
        /\ batch = <<>>
    BY LenProperties, QueryAssumption DEF Typed, Receive
  <1>2. batch' = SubSeq(rx, 1, n) /\ rx' = SubSeq(rx, n + 1, Len(rx))
    BY DEF Receive
  <1>3. /\ batch' \in Seq(QueryRows)
        /\ Len(batch') = n
        /\ DOMAIN batch' = 1 .. n
        /\ \A l \in 1 .. n : batch'[l] = rx[l]
    BY <1>1, <1>2
  <1>4. /\ rx' \in Seq(QueryRows)
        /\ Len(rx') = Len(rx) - n
        /\ DOMAIN rx' = 1 .. Len(rx) - n
        /\ \A l \in 1 .. Len(rx) - n : rx'[l] = rx[n + l]
    <2>1. n \in 0 .. Len(rx)
      BY <1>1
    <2>2. /\ rx' \in Seq(QueryRows)
          /\ Len(rx') = Len(rx) - n
          /\ \A l \in 1 .. Len(rx) - n : rx'[l] = rx[n + l]
      BY <1>1, <1>2, <2>1, RestOfSequence, Zenon
    <2>3. QED
      BY <2>2, LenProperties
  <1>5. ASSUME NEW m \in DOMAIN rx
        PROVE  \/ \E l \in DOMAIN batch' : batch'[l] = rx[m]
               \/ \E l \in DOMAIN rx' : rx'[l] = rx[m]
    <2>1. CASE m <= n
      BY <1>1, <1>3, <2>1
    <2>2. CASE m > n
      <3>1. m - n \in 1 .. Len(rx) - n /\ n + (m - n) = m
        BY <1>1, <2>2
      <3>2. QED
        BY <1>4, <3>1
    <2>3. QED
      BY <1>1, <2>1, <2>2
  <1>6. \A l \in DOMAIN batch' : \E m \in DOMAIN rx : batch'[l] = rx[m]
    BY <1>1, <1>3
  <1>7. ASSUME NEW l \in DOMAIN rx'
        PROVE  \E m \in DOMAIN rx : rx'[l] = rx[m]
    <2>1. n + l \in DOMAIN rx
      BY <1>1, <1>4
    <2>2. QED
      BY <1>4, <2>1
  <1>8. Len(rx') <= RxSize /\ Len(batch') <= BurstSize
    BY <1>1, <1>3, <1>4, QueryAssumption
  <1>9. QED
    BY <1>1, <1>3, <1>4, <1>5, <1>6, <1>7, <1>8

\* The master takes the first row of the batch.
LEMMA FirstOfBatch ==
  ASSUME Typed, batch # <<>>, batch' = Tail(batch)
  PROVE  /\ Head(batch) \in QueryRows
         /\ Head(batch).key \in Keys /\ Head(batch).value \in Values
         /\ batch' \in Seq(QueryRows) /\ Len(batch') <= BurstSize
         /\ 1 \in DOMAIN batch /\ batch[1] = Head(batch)
         /\ \A m \in DOMAIN batch :
              batch[m] = Head(batch) \/ \E l \in DOMAIN batch' : batch'[l] = batch[m]
         /\ \A l \in DOMAIN batch' : \E m \in DOMAIN batch : batch'[l] = batch[m]
  <1>1. /\ batch \in Seq(QueryRows) /\ Len(batch) \in Nat /\ DOMAIN batch = 1 .. Len(batch)
        /\ Len(batch) <= BurstSize
    BY LenProperties DEF Typed
  <1>2. /\ Len(batch) >= 1
        /\ Head(batch) = batch[1]
        /\ batch' \in Seq(QueryRows)
        /\ Len(batch') = Len(batch) - 1
        /\ DOMAIN batch' = 1 .. Len(batch) - 1
        /\ \A l \in 1 .. Len(batch) - 1 : batch'[l] = batch[l + 1]
    BY <1>1
  <1>3. 1 \in DOMAIN batch /\ batch[1] \in QueryRows
    BY <1>1, <1>2, ElementOfSeq
  <1>4. Head(batch) \in QueryRows /\ Head(batch).key \in Keys /\ Head(batch).value \in Values
    BY <1>2, <1>3, RowFields DEF QueryRows
  <1>5. ASSUME NEW m \in DOMAIN batch, m # 1
        PROVE  \E l \in DOMAIN batch' : batch'[l] = batch[m]
    <2>1. m - 1 \in 1 .. Len(batch) - 1 /\ (m - 1) + 1 = m
      BY <1>1, <1>5
    <2>2. QED
      BY <1>2, <2>1
  <1>6. ASSUME NEW l \in DOMAIN batch'
        PROVE  \E m \in DOMAIN batch : batch'[l] = batch[m]
    <2>1. l + 1 \in DOMAIN batch
      BY <1>1, <1>2
    <2>2. QED
      BY <1>2, <2>1
  <1>7. Len(batch') <= BurstSize
    BY <1>1, <1>2, QueryAssumption
  <1>8. QED
    BY <1>2, <1>3, <1>4, <1>5, <1>6, <1>7

LEMMA TypedInvariant == QuerySpec => []Typed
  <1>1. QueryInit => Typed
    BY EmptySeq, QueryAssumption DEF QueryInit, Typed
  <1>2. Typed /\ [QueryNext]_queryVars => Typed'
    <2> SUFFICES ASSUME Typed, [QueryNext]_queryVars PROVE Typed'
      OBVIOUS
    <2>1. ASSUME NEW w \in Workers, Send(w) PROVE Typed'
      <3>1. /\ sent[w] < TableLength /\ sent' = [sent EXCEPT ![w] = @ + 1]
            /\ UNCHANGED <<table, batch>>
        BY <2>1 DEF Send
      <3>2. sent' \in [Workers -> 0 .. TableLength]
        BY <3>1, NextRow, QueryAssumption DEF Typed
      <3>3. PICK r \in QueryRows : Arrive(r) \/ UNCHANGED <<rx, lost>>
        BY <2>1, <3>1, NextRow DEF Send
      <3>4. QED
        BY <3>1, <3>2, <3>3, Arrival DEF Typed
    <2>2. ASSUME NEW n \in 1 .. BurstSize, Receive(n) PROVE Typed'
      BY <2>2, Burst DEF Receive, Typed
    <2>3. CASE Aggregate
      BY <2>3, FirstOfBatch DEF Aggregate, Typed
    <2>4. CASE UNCHANGED queryVars
      BY <2>4 DEF queryVars, Typed
    <2>5. QED
      BY <2>1, <2>2, <2>3, <2>4 DEF QueryNext, Poll
  <1>3. QED
    BY <1>1, <1>2, PTL DEF QuerySpec

\* A query is a run of the switch's program.
THEOREM ASwitchRun == QuerySpec => Spec
  <1>1. QueryInit => Init
    BY DEF QueryInit
  <1>2. Typed /\ [QueryNext]_queryVars => [Next]_vars
    <2> SUFFICES ASSUME Typed, [QueryNext]_queryVars PROVE Next \/ UNCHANGED vars
      OBVIOUS
    <2>1. ASSUME NEW w \in Workers, Send(w) PROVE Next
      BY <2>1, NextRow DEF Send, Next
    <2>2. CASE Poll \/ Aggregate \/ UNCHANGED queryVars
      BY <2>2 DEF Poll, Receive, Aggregate, queryVars
    <2>3. QED
      BY <2>1, <2>2 DEF QueryNext
  <1>3. QED
    BY <1>1, <1>2, TypedInvariant, PTL DEF QuerySpec, Spec

\* A query is a run of the master's GROUP BY.
THEOREM AMasterRun == QuerySpec => MP!Spec
  <1>1. QueryInit => MP!Init
    BY SameMaster DEF QueryInit
  <1>2. Typed /\ [QueryNext]_queryVars => [MP!Next]_(MP!vars)
    <2> SUFFICES ASSUME Typed, [QueryNext]_queryVars PROVE MP!Next \/ UNCHANGED masterVars
      BY DEF MP!vars, masterVars
    <2>1. CASE Aggregate
      BY <2>1, FirstOfBatch, SameMaster DEF Aggregate
    <2>2. CASE (\E w \in Workers : Send(w)) \/ Poll \/ UNCHANGED queryVars
      BY <2>2 DEF Poll, Receive, Send, queryVars
    <2>3. QED
      BY <2>1, <2>2 DEF QueryNext
  <1>3. QED
    BY <1>1, <1>2, TypedInvariant, PTL DEF QuerySpec, MP!Spec

-----------------------------------------------------------------------------
\* A row of a table was sent when a worker's counter has passed it.
SentRow(r) == \E w \in Workers : \E n \in 1 .. TableLength :
                n <= sent[w] /\ r = table[w][n]

\* The master has received row r, or one that is the same to it.
Arrived(r) == \E q \in received : q.key = r.key /\ q.value = r.value

InRing(r) == \E n \in DOMAIN rx : rx[n] = r
InBatch(r) == \E n \in DOMAIN batch : batch[n] = r

\* No row disappears on its way but into lost.
NothingVanishes ==
  /\ \A r \in QueryRows : SentRow(r) => r \in forwarded \/ r \in pruned
  /\ \A f \in forwarded : InRing(f) \/ InBatch(f) \/ f \in lost \/ Arrived(f)

\* No row appears that no worker sent.
NothingAppears ==
  /\ \A f \in forwarded : f \in QueryRows /\ SentRow(f)
  /\ \A n \in DOMAIN rx : rx[n] \in forwarded
  /\ \A n \in DOMAIN batch : batch[n] \in forwarded
  /\ \A q \in received : \E f \in forwarded : q.key = f.key /\ q.value = f.value

\* A row that is sent crosses the switch.
LEMMA SendKeeps ==
  ASSUME Typed, NothingVanishes, NothingAppears, NEW w \in Workers, Send(w)
  PROVE  NothingVanishes' /\ NothingAppears'
  <1>0. PICK r : r = table[w][sent[w] + 1]
    OBVIOUS
  <1>1. /\ r \in QueryRows /\ sent[w] \in Nat /\ sent[w] + 1 \in 1 .. TableLength
        /\ Ingress(r)
        /\ \/ Prunes(r) /\ UNCHANGED <<rx, lost>>
           \/ ~Prunes(r) /\ Arrive(r)
        /\ UNCHANGED <<table, batch, masterVars>>
        /\ sent' = [sent EXCEPT ![w] = @ + 1]
    BY <1>0, NextRow DEF Send
  <1>2. \A u \in Workers : /\ sent[u] \in Nat
                           /\ sent'[u] = IF u = w THEN sent[u] + 1 ELSE sent[u]
    BY <1>1, QueryAssumption DEF Typed
  <1>3. SentRow(r)' /\ \A q : SentRow(q) => SentRow(q)'
    <2>1. SentRow(r)'
      <3>1. sent[w] + 1 <= sent'[w] /\ table'[w][sent[w] + 1] = r
        BY <1>0, <1>1, <1>2
      <3>2. QED
        BY <1>1, <3>1 DEF SentRow
    <2>2. ASSUME NEW q, SentRow(q) PROVE SentRow(q)'
      <3>1. PICK u \in Workers, n \in 1 .. TableLength : n <= sent[u] /\ q = table[u][n]
        BY <2>2 DEF SentRow
      <3>2. n <= sent'[u]
        BY <1>2, <3>1, QueryAssumption
      <3>3. table' = table
        BY <1>1
      <3>4. QED
        BY <3>1, <3>2, <3>3 DEF SentRow
    <2>3. QED
      BY <2>1, <2>2
  <1>4. ASSUME NEW q, SentRow(q)'
        PROVE  q = r \/ SentRow(q)
    <2>1. PICK u \in Workers, n \in 1 .. TableLength : n <= sent'[u] /\ q = table[u][n]
      BY <1>1, <1>4 DEF SentRow
    <2>2. CASE n <= sent[u]
      BY <2>1, <2>2 DEF SentRow
    <2>3. CASE ~(n <= sent[u])
      <3>1. u = w /\ n = sent[u] + 1
        BY <1>2, <2>1, <2>3, QueryAssumption
      <3>2. QED
        BY <1>0, <2>1, <3>1
    <2>4. QED
      BY <2>2, <2>3
  <1>5. \A f : Arrived(f)' <=> Arrived(f)
    BY <1>1 DEF masterVars, Arrived
  <1>6. \A f : InBatch(f)' <=> InBatch(f)
    BY <1>1 DEF InBatch
  <1>7. CASE Prunes(r)
    <2>1. /\ pruned' = pruned \union {r} /\ UNCHANGED <<forwarded, rx, lost>>
      BY <1>1, <1>7 DEF Ingress
    <2>2. NothingVanishes'
      BY <1>4, <1>5, <1>6, <2>1 DEF NothingVanishes, InRing
    <2>3. NothingAppears'
      BY <1>1, <1>3, <2>1 DEF NothingAppears, masterVars
    <2>4. QED
      BY <2>2, <2>3
  <1>8. CASE ~Prunes(r)
    <2>1. forwarded' = forwarded \union {r} /\ UNCHANGED pruned /\ Arrive(r)
      BY <1>1, <1>8 DEF Ingress
    <2>2. /\ lost \subseteq lost'
          /\ \A n \in DOMAIN rx : n \in DOMAIN rx' /\ rx'[n] = rx[n]
          /\ r \in lost' \/ \E n \in DOMAIN rx' : rx'[n] = r
          /\ \A n \in DOMAIN rx' : rx'[n] = r \/ (n \in DOMAIN rx /\ rx'[n] = rx[n])
      BY <1>1, <2>1, Arrival
    <2>3. r \in lost' \/ InRing(r)'
      BY <2>2 DEF InRing
    <2>4. \A f : InRing(f) => InRing(f)'
      BY <2>2 DEF InRing
    <2>5. NothingVanishes'
      BY <1>4, <1>5, <1>6, <2>1, <2>2, <2>3, <2>4 DEF NothingVanishes
    <2>6. NothingAppears'
      BY <1>1, <1>3, <2>1, <2>2 DEF NothingAppears, masterVars
    <2>7. QED
      BY <2>5, <2>6
  <1>9. QED
    BY <1>7, <1>8

\* A burst is handed over.
LEMMA ReceiveKeeps ==
  ASSUME Typed, NothingVanishes, NothingAppears, NEW n \in 1 .. BurstSize, Receive(n)
  PROVE  NothingVanishes' /\ NothingAppears'
  <1>1. UNCHANGED <<table, sent, lost, forwarded, pruned, received>>
    BY DEF Receive, vars, masterVars
  <1>2. /\ \A r : SentRow(r)' <=> SentRow(r)
        /\ \A r : Arrived(r)' <=> Arrived(r)
    BY <1>1 DEF SentRow, Arrived
  <1>3. /\ \A f : InRing(f) => InRing(f)' \/ InBatch(f)'
        /\ \A f : ~InBatch(f)
    BY Burst DEF InRing, InBatch
  <1>4. NothingVanishes'
    BY <1>1, <1>2, <1>3 DEF NothingVanishes
  <1>5. NothingAppears'
    <2>1. /\ \A l \in DOMAIN rx' : rx'[l] \in forwarded
          /\ \A l \in DOMAIN batch' : batch'[l] \in forwarded
      BY Burst DEF NothingAppears
    <2>2. QED
      BY <1>1, <1>2, <2>1 DEF NothingAppears
  <1>6. QED
    BY <1>4, <1>5

\* The master takes a row.
LEMMA AggregateKeeps ==
  ASSUME Typed, NothingVanishes, NothingAppears, Aggregate
  PROVE  NothingVanishes' /\ NothingAppears'
  <1>1. PICK h, new : h = Head(batch) /\ new = [key |-> h.key, value |-> h.value]
    OBVIOUS
  <1>2. new.key = h.key /\ new.value = h.value
    BY <1>1
  <1>3. received' = received \union {new}
    BY <1>1 DEF Aggregate, Master!Update
  <1>4. /\ UNCHANGED <<table, sent, lost, forwarded, pruned>> /\ rx' = rx
        /\ batch # <<>> /\ batch' = Tail(batch)
    BY DEF Aggregate, vars
  <1>5. Arrived(h)' /\ \A f : Arrived(f) => Arrived(f)'
    BY <1>2, <1>3 DEF Arrived
  <1>6. \A f : InBatch(f) => f = h \/ InBatch(f)'
    BY <1>1, <1>4, FirstOfBatch DEF InBatch
  <1>7. /\ \A r : SentRow(r)' <=> SentRow(r)
        /\ \A r : InRing(r)' <=> InRing(r)
    BY <1>4 DEF SentRow, InRing
  <1>8. NothingVanishes'
    BY <1>4, <1>5, <1>6, <1>7 DEF NothingVanishes
  <1>9. h \in forwarded /\ \A l \in DOMAIN batch' : batch'[l] \in forwarded
    BY <1>1, <1>4, FirstOfBatch DEF NothingAppears
  <1>10. NothingAppears'
    BY <1>2, <1>3, <1>4, <1>7, <1>9 DEF NothingAppears
  <1>11. QED
    BY <1>8, <1>10

LEMMA WayInvariant == QuerySpec => [](NothingVanishes /\ NothingAppears)
  <1> DEFINE Way == NothingVanishes /\ NothingAppears
  <1>1. QueryInit => Way
    <2> SUFFICES ASSUME QueryInit PROVE Way
      OBVIOUS
    <2>1. \A r : ~SentRow(r)
      BY QueryAssumption DEF QueryInit, SentRow
    <2>2. rx = <<>> /\ batch = <<>> /\ forwarded = {} /\ received = {}
      BY DEF QueryInit, Init, Master!Init
    <2>3. QED
      BY <2>1, <2>2 DEF NothingVanishes, NothingAppears
  <1>2. Typed /\ Way /\ [QueryNext]_queryVars => Way'
    <2> SUFFICES ASSUME Typed, Way, [QueryNext]_queryVars PROVE Way'
      OBVIOUS
    <2>1. CASE UNCHANGED queryVars
      BY <2>1 DEF queryVars, vars, masterVars, NothingVanishes, NothingAppears,
                  SentRow, Arrived, InRing, InBatch
    <2>2. QED
      BY <2>1, SendKeeps, ReceiveKeeps, AggregateKeeps DEF QueryNext, Poll
  <1>3. QED
    BY <1>1, <1>2, TypedInvariant, PTL DEF QuerySpec

-----------------------------------------------------------------------------
\* Tables, ring, burst, registers and the master's structures keep their types.
THEOREM QueryTyping == QuerySpec => []QueryTypeOK
  <1>1. Typed /\ TypeOK /\ MP!TypeOK => QueryTypeOK
    BY SameMaster DEF Typed, QueryTypeOK
  <1>2. MP!Spec => []MP!TypeOK
    BY MP!Typing, MasterParameters
  <1>3. QED
    BY <1>1, <1>2, TypedInvariant, ASwitchRun, AMasterRun, Typing, PTL

\* What was dropped is covered by a row that is aggregated, on its way or lost.
THEOREM DroppingNeverRunsAhead == QuerySpec => []LateRowsCovered
  <1>1. TypeOK /\ NothingVanishes /\ AnswerPreserved => LateRowsCovered
    <2> SUFFICES ASSUME NothingVanishes, AnswerPreserved, NEW p \in pruned
                 PROVE  \/ \E r \in received : r.key = p.key /\ r.value > p.value
                        \/ \E n \in DOMAIN rx : Beats(rx[n], p)
                        \/ \E n \in DOMAIN batch : Beats(batch[n], p)
                        \/ Dominated(lost, p)
      BY DEF LateRowsCovered
    <2>1. PICK f \in forwarded : Beats(f, p)
      BY DEF AnswerPreserved, Dominated
    <2>2. InRing(f) \/ InBatch(f) \/ f \in lost \/ Arrived(f)
      BY DEF NothingVanishes
    <2>3. Arrived(f) => \E r \in received : r.key = p.key /\ r.value > p.value
      BY <2>1 DEF Arrived, Beats
    <2>4. QED
      BY <2>1, <2>2, <2>3 DEF InRing, InBatch, Dominated
  <1>2. QED
    BY <1>1, WayInvariant, ASwitchRun, Typing, MaximumSurvives, PTL

\* At the end of a query every key of which no row was lost has the maximum of
\* all its rows, those included that the switch dropped.
THEOREM TheAnswerIsTheMaximum == QuerySpec => []OnlyLostKeysSuffer
  <1>1. /\ Typed /\ TypeOK /\ NothingVanishes /\ NothingAppears
        /\ AnswerPreserved /\ MP!AnswerIsMaximum
        => OnlyLostKeysSuffer
    <2> SUFFICES ASSUME Typed, TypeOK, NothingVanishes, NothingAppears,
                        AnswerPreserved, MP!AnswerIsMaximum, Quiet, ~overrun,
                        NEW k \in Keys, \A r \in lost : r.key # k
                 PROVE  IsMaximum(MP!Answer[k], k)
      BY SameMaster DEF OnlyLostKeysSuffer
    <2> DEFINE x == MP!Answer[k]
    <2>1. /\ x # None => \E q \in received : q.key = k /\ q.value = x
          /\ \A q \in received : q.key = k => x # None /\ q.value <= x
      BY DEF MP!AnswerIsMaximum, MP!HoldsMaximum
    <2> HIDE DEF x
    <2>2. \A f \in forwarded : f.key = k => Arrived(f)
      BY DEF NothingVanishes, Quiet, InRing, InBatch
    <2>3. ASSUME NEW v \in KeyValues(k)
          PROVE  x # None /\ v <= x
      <3>1. PICK w \in Workers, n \in 1 .. TableLength :
              table[w][n].key = k /\ table[w][n].value = v
        BY DEF KeyValues, TableRows
      <3> DEFINE r == table[w][n]
      <3>2. r \in QueryRows /\ r \in Rows
        BY DEF Typed, QueryRows
      <3>3. SentRow(r)
        BY QueryAssumption DEF Quiet, SentRow
      <3>4. PICK f \in forwarded : f.key = k /\ v <= f.value
        <4>1. CASE r \in forwarded
          <5>1. v <= r.value
            BY <3>1, <3>2, RowFields, WordAssumption
          <5>2. QED
            BY <3>1, <4>1, <5>1
        <4>2. CASE r \in pruned
          <5>1. PICK f \in forwarded : f.key = r.key /\ f.value > r.value
            BY <4>2 DEF AnswerPreserved, Dominated, Beats
          <5>2. f.value \in 0 .. HalfWord - 1 /\ r.value \in 0 .. HalfWord - 1
            BY <3>2, RowFields DEF TypeOK
          <5>3. r.value <= f.value
            BY <5>1, <5>2, WordAssumption
          <5>4. QED
            BY <3>1, <5>1, <5>3
        <4>3. QED
          BY <3>2, <3>3, <4>1, <4>2 DEF NothingVanishes
      <3>5. PICK q \in received : q.key = k /\ q.value = f.value
        BY <2>2, <3>4 DEF Arrived
      <3>6. x # None /\ f.value <= x
        BY <2>1, <3>5
      <3>7. v \in Nat /\ f.value \in Nat
        <4>1. r.value \in 0 .. HalfWord - 1 /\ f.value \in 0 .. HalfWord - 1
          BY <3>2, RowFields DEF TypeOK
        <4>2. QED
          BY <3>1, <4>1, WordAssumption
      <3>8. x \in Nat
        <4>1. PICK s \in received : s.key = k /\ s.value = x
          BY <2>1, <3>6
        <4>2. PICK g \in forwarded : g.value = x
          BY <4>1 DEF NothingAppears
        <4>3. g.value \in 0 .. HalfWord - 1
          BY RowFields DEF TypeOK
        <4>4. QED
          BY <4>2, <4>3, WordAssumption
      <3>9. QED
        BY <3>4, <3>6, <3>7, <3>8
    <2>4. x # None => x \in KeyValues(k)
      <3> SUFFICES ASSUME x # None PROVE x \in KeyValues(k)
        OBVIOUS
      <3>1. PICK q \in received : q.key = k /\ q.value = x
        BY <2>1
      <3>2. PICK f \in forwarded : f.key = k /\ f.value = x
        BY <3>1 DEF NothingAppears
      <3>3. f \in TableRows
        BY DEF NothingAppears, SentRow, TableRows
      <3>4. QED
        BY <3>2, <3>3 DEF KeyValues
    <2>5. QED
      BY <2>3, <2>4 DEF IsMaximum, x
  <1>2. MP!Spec => []MP!AnswerIsMaximum
    BY MP!MaximumPerKey, MasterParameters
  <1>3. QED
    BY <1>1, <1>2, TypedInvariant, WayInvariant, ASwitchRun, AMasterRun,
       Typing, MaximumSurvives, PTL
=============================================================================
