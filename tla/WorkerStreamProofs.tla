------------------------- MODULE WorkerStreamProofs -------------------------
(***************************************************************************)
(* The worker's buffer arithmetic, for every table, batch, ring and pool   *)
(* that satisfies PoolAssumption: no clone is ever refused a buffer, and   *)
(* only a bounded number of rows can be missing when the worker exits.     *)
(*                                                                         *)
(* The inductive invariant joins the order of the counts (reclaimed rows   *)
(* were transmitted, transmitted rows were queued), where in the loop the  *)
(* thread is, and where each of the PoolSize buffers is.  For what packets *)
(* carry it is joined by what each template holds: the row that was stored *)
(* in it last, which is of the batch being filled or of the one before.    *)
(***************************************************************************)
EXTENDS WorkerStream, FiniteSetTheorems, TLAPS

\* The types that arithmetic needs.
Typed ==
  /\ pc \in {"fill", "store", "clone", "burst", "ack", "free", "close",
             "done", "crashed"}
  /\ base \in Nat
  /\ slot \in 0 .. Batch
  /\ pending \subseteq Fields
  /\ template \in [Slots -> [Fields -> 0 .. EntryCount]]
  /\ queued \in Nat
  /\ reclaimed \in Nat
  /\ wire \in Seq([Fields -> 0 .. EntryCount])
  /\ pool \in Int
  /\ held \subseteq Slots

\* The three counts of the ring keep their order, and the ring its size.
CountsOrdered ==
  /\ Fetched <= queued
  /\ reclaimed <= queued
  /\ queued - reclaimed <= RingSize
  /\ pc # "done" => reclaimed <= Fetched
  /\ pc = "done" => queued - Fetched <= RingSize

\* The loop's position tells how many rows are queued.
Positioned ==
  /\ base <= EntryCount
  /\ pc \in {"fill", "store", "clone", "burst"} => base + Batch <= EntryCount
  /\ pc \in {"fill", "store", "clone"} => queued = base
  /\ pc = "store" => slot < Batch
  /\ pc = "burst" => base <= queued /\ queued < base + Batch
  /\ pc \in {"ack", "free", "close", "done"} => queued = base /\ EntryCount < base + Batch
  /\ pc \notin {"close", "done"} => held = Slots
  /\ pc = "done" => held = {} /\ reclaimed = queued

IInv ==
  /\ Typed
  /\ CountsOrdered
  /\ Positioned
  /\ BuffersAccounted
  /\ NeverStarved

-----------------------------------------------------------------------------
\* There are Batch templates, and splitting them loses none.
LEMMA SlotCount ==
  /\ IsFiniteSet(Slots)
  /\ Cardinality(Slots) = Batch
  /\ \A S \in SUBSET Slots :
       /\ IsFiniteSet(S)
       /\ Cardinality(S) \in 0 .. Batch
       /\ Cardinality(Slots \ S) + Cardinality(S) = Batch
  <1>1. Batch \in Nat /\ Batch > 0
    BY SizeAssumption
  <1>2. IsFiniteSet(Slots) /\ Cardinality(Slots) = Batch
    BY <1>1, FS_Interval DEF Slots
  <1>3. ASSUME NEW S \in SUBSET Slots
        PROVE  /\ IsFiniteSet(S)
               /\ Cardinality(S) \in 0 .. Batch
               /\ Cardinality(Slots \ S) + Cardinality(S) = Batch
    <2>1. /\ IsFiniteSet(S) /\ Cardinality(S) \in Nat
          /\ Cardinality(Slots \ S) \in Nat
      BY <1>2, FS_Subset, FS_CardinalityType
    <2>2. Cardinality(Slots \ S) = Cardinality(Slots) - Cardinality(Slots \cap S)
      BY <1>2, FS_Difference
    <2>3. Slots \cap S = S
      OBVIOUS
    <2>4. Cardinality(Slots \ S) = Batch - Cardinality(S)
      BY <1>2, <2>2, <2>3
    <2>5. Cardinality(S) \in 0 .. Batch /\ Cardinality(Slots \ S) + Cardinality(S) = Batch
      BY <1>1, <2>1, <2>4
    <2>6. QED
      BY <2>1, <2>5
  <1>4. QED
    BY <1>2, <1>3

\* A row's template is one of the stream's.
LEMMA SlotOfRow ==
  ASSUME NEW r \in Nat, r >= 1
  PROVE  SlotOf(r) \in Slots
  BY SizeAssumption DEF SlotOf, Slots

\* The worker starts with its templates taken from a full pool.
LEMMA InitHolds == Init => IInv
  <1> SUFFICES ASSUME Init PROVE IInv
    OBVIOUS
  <1>1. Fetched = 0
    BY DEF Init, Fetched
  <1>2. Typed
    BY SizeAssumption, PoolAssumption DEF Init, Typed, NextBatchOr, Slots
  <1>3. CountsOrdered
    BY <1>1, SizeAssumption DEF Init, CountsOrdered, NextBatchOr
  <1>4. Positioned
    BY SizeAssumption DEF Init, Positioned, NextBatchOr
  <1>5. BuffersAccounted /\ NeverStarved
    BY SlotCount, SizeAssumption DEF Init, BuffersAccounted, NeverStarved, NextBatchOr
  <1>6. QED
    BY <1>2, <1>3, <1>4, <1>5 DEF IInv

\* Filling a template moves no buffer and queues no row.
LEMMA FillHolds ==
  ASSUME IInv, Modify \/ (\E f \in Fields : Store(f)) \/ FillDone
  PROVE  IInv'
  <1>1. Typed'
    <2>1. CASE Modify
      BY <2>1 DEF Modify, IInv, Typed
    <2>2. CASE \E f \in Fields : Store(f)
      <3>1. PICK f \in Fields : Store(f)
        BY <2>2
      <3>2. slot < Batch /\ slot \in Slots /\ slot' \in 0 .. Batch
        BY <3>1, SizeAssumption DEF Store, IInv, Typed, Positioned, Slots
      <3>3. base + slot + 1 \in 0 .. EntryCount
        BY <3>1, <3>2, SizeAssumption DEF Store, IInv, Typed, Positioned, Slots
      <3>4. template' \in [Slots -> [Fields -> 0 .. EntryCount]]
        BY <3>1, <3>2, <3>3 DEF Store, IInv, Typed
      <3>5. QED
        BY <3>1, <3>2, <3>4 DEF Store, IInv, Typed
    <2>3. CASE FillDone
      BY <2>3 DEF FillDone, IInv, Typed
    <2>4. QED
      BY <2>1, <2>2, <2>3
  <1>2. /\ UNCHANGED <<base, queued, reclaimed, wire, pool, held>>
        /\ pc \in {"fill", "store"} /\ pc' \in {"fill", "store", "clone"}
        /\ pc' = "store" => slot' < Batch
    BY DEF Modify, Store, FillDone, IInv, Positioned
  <1>3. CountsOrdered' /\ Positioned' /\ BuffersAccounted' /\ NeverStarved'
    BY <1>2 DEF IInv, CountsOrdered, Positioned, BuffersAccounted, NeverStarved, Fetched
  <1>4. QED
    BY <1>1, <1>3 DEF IInv

\* The pool has a batch of buffers whatever the ring still holds.
LEMMA CloneHolds ==
  ASSUME IInv, Clone
  PROVE  IInv'
  <1>1. pc = "clone" /\ held = Slots /\ queued = base /\ queued - reclaimed <= RingSize
    BY DEF Clone, IInv, Positioned, CountsOrdered
  <1>2. pool + Batch + (queued - reclaimed) = PoolSize
    BY <1>1, SlotCount, SizeAssumption DEF IInv, Typed, BuffersAccounted
  <1>3. pool >= Batch
    BY <1>1, <1>2, PoolAssumption, SizeAssumption DEF IInv, Typed
  <1>4. /\ pc' = "burst" /\ pool' = pool - Batch
        /\ UNCHANGED <<base, slot, pending, template, queued, reclaimed, wire, held>>
    BY <1>3 DEF Clone
  <1>5. Typed' /\ CountsOrdered' /\ NeverStarved'
    BY <1>1, <1>4, SizeAssumption
    DEF IInv, Typed, CountsOrdered, NeverStarved, Fetched
  <1>6. Positioned'
    BY <1>1, <1>4, SizeAssumption DEF IInv, Typed, Positioned
  <1>7. BuffersAccounted'
    BY <1>1, <1>2, <1>4, SlotCount, SizeAssumption
    DEF IInv, Typed, BuffersAccounted, PacketsLeft
  <1>8. QED
    BY <1>5, <1>6, <1>7 DEF IInv

\* A burst queues no more than fits, and every clone it queues it had.
LEMMA BurstHolds ==
  ASSUME IInv, NEW freed \in 0 .. RingSize, Burst(freed)
  PROVE  IInv'
  <1> DEFINE room == RingSize - (queued - reclaimed) + freed
             sent == IF room < PacketsLeft THEN room ELSE PacketsLeft
  <1>1. /\ pc = "burst"
        /\ freed \in 0 .. Fetched - reclaimed
        /\ reclaimed' = reclaimed + freed
        /\ pool' = pool + freed
        /\ queued' = queued + sent
        /\ UNCHANGED <<pending, template, wire, held>>
    BY DEF Burst, Reclaim
  <1>2. /\ base \in Nat /\ queued \in Nat /\ reclaimed \in Nat /\ pool \in Int
        /\ Fetched \in Nat
    BY DEF IInv, Typed, Fetched
  <1>3. /\ Fetched <= queued /\ reclaimed <= Fetched /\ queued - reclaimed <= RingSize
        /\ base + Batch <= EntryCount /\ base <= queued /\ queued < base + Batch
        /\ held = Slots
    BY <1>1 DEF IInv, CountsOrdered, Positioned
  <1>4. /\ sent \in Nat /\ sent <= PacketsLeft /\ sent <= room
        /\ PacketsLeft = base + Batch - queued
    BY <1>1, <1>2, <1>3, SizeAssumption DEF PacketsLeft
  <1>5. Fetched' = Fetched
    BY <1>1 DEF Fetched
  <1> HIDE DEF sent
  <1>6. \/ /\ sent = PacketsLeft
           /\ pc' = NextBatchOr("ack", base + Batch) /\ base' = base + Batch /\ slot' = 0
        \/ sent # PacketsLeft /\ UNCHANGED <<pc, base, slot>>
    BY DEF Burst, Reclaim, sent
  <1>7. Typed'
    BY <1>1, <1>2, <1>4, <1>6, SizeAssumption DEF IInv, Typed, NextBatchOr
  <1>8. CountsOrdered'
    BY <1>1, <1>2, <1>3, <1>4, <1>5, <1>6, SizeAssumption
    DEF CountsOrdered, NextBatchOr
  <1>9. Positioned'
    BY <1>1, <1>2, <1>3, <1>4, <1>6, SizeAssumption DEF Positioned, NextBatchOr
  <1>10. BuffersAccounted'
    <2>1. pool + Batch + (queued - reclaimed) + (base + Batch - queued) = PoolSize
      BY <1>1, <1>3, SlotCount DEF IInv, BuffersAccounted, PacketsLeft
    <2>2. (IF pc' = "burst" THEN base' + Batch - queued' ELSE 0) = base + Batch - queued - sent
      BY <1>1, <1>2, <1>4, <1>6, SizeAssumption DEF NextBatchOr
    <2>3. pool' + Batch + (queued' - reclaimed') + (base + Batch - queued - sent) = PoolSize
      BY <1>1, <1>2, <1>4, <2>1, SizeAssumption
    <2>4. QED
      BY <1>1, <1>3, <2>2, <2>3, SlotCount DEF BuffersAccounted, PacketsLeft
  <1>11. NeverStarved'
    BY <1>1, <1>6 DEF NeverStarved, NextBatchOr
  <1>12. QED
    BY <1>7, <1>8, <1>9, <1>10, <1>11 DEF IInv

\* The NIC transmits only what was queued.
LEMMA TransmitHolds ==
  ASSUME IInv, Transmit
  PROVE  IInv'
  <1>1. Fetched \in Nat /\ Fetched < queued /\ pc # "done" /\ pc # "crashed"
    BY DEF Transmit, IInv, Typed, Fetched
  <1>2. SlotOf(Fetched + 1) \in Slots
    BY <1>1, SlotOfRow
  <1>3. /\ wire' \in Seq([Fields -> 0 .. EntryCount])
        /\ Fetched' = Fetched + 1
    BY <1>2 DEF Transmit, IInv, Typed, Fetched
  <1>4. UNCHANGED <<pc, base, slot, pending, template, queued, reclaimed, pool, held>>
    BY DEF Transmit
  <1>5. Typed' /\ Positioned' /\ NeverStarved'
    BY <1>3, <1>4 DEF IInv, Typed, Positioned, NeverStarved
  <1>6. CountsOrdered'
    BY <1>1, <1>3, <1>4 DEF IInv, Typed, CountsOrdered
  <1>7. BuffersAccounted'
    BY <1>4 DEF IInv, BuffersAccounted, PacketsLeft
  <1>8. QED
    BY <1>5, <1>6, <1>7 DEF IInv

\* The ack, the freeing of the stream and the close lose no buffer.
LEMMA TeardownHolds ==
  ASSUME IInv, SendAck \/ FreeStream \/ Close
  PROVE  IInv'
  <1>1. CASE SendAck
    BY <1>1 DEF SendAck, IInv, Typed, CountsOrdered, Positioned, BuffersAccounted,
                NeverStarved, Fetched
  <1>2. CASE FreeStream
    <2> DEFINE cloned == {SlotOf(r) : r \in reclaimed + 1 .. queued}
    <2>1. cloned \in SUBSET Slots
      BY SlotOfRow DEF IInv, Typed
    <2>2. /\ pc = "free" /\ pc' = "close" /\ held' = cloned
          /\ pool' = pool + Cardinality(Slots \ cloned)
          /\ UNCHANGED <<base, slot, pending, template, queued, reclaimed, wire>>
      BY <1>2 DEF FreeStream
    <2> HIDE DEF cloned
    <2>3. /\ Cardinality(cloned) \in Nat /\ Cardinality(Slots \ cloned) \in Nat
          /\ Cardinality(Slots \ cloned) + Cardinality(cloned) = Batch
      <3>1. Slots \ cloned \in SUBSET Slots
        OBVIOUS
      <3>2. QED
        BY <2>1, <3>1, SlotCount
    <2>4. Typed' /\ CountsOrdered' /\ Positioned' /\ NeverStarved'
      BY <2>1, <2>2, <2>3 DEF IInv, Typed, CountsOrdered, Positioned, NeverStarved, Fetched
    <2>5. pool + Batch + (queued - reclaimed) = PoolSize
      BY <2>2, SlotCount, SizeAssumption DEF IInv, Typed, Positioned, BuffersAccounted
    <2>6. BuffersAccounted'
      BY <2>2, <2>3, <2>5, SizeAssumption DEF IInv, Typed, BuffersAccounted
    <2>7. QED
      BY <2>4, <2>6 DEF IInv
  <1>3. CASE Close
    <2>1. /\ pc = "close" /\ pc' = "done" /\ reclaimed' = queued /\ held' = {}
          /\ pool' = pool + (queued - reclaimed) + Cardinality(held)
          /\ UNCHANGED <<base, slot, pending, template, queued, wire>>
      BY <1>3 DEF Close
    <2>2. Cardinality(held) \in Nat /\ Cardinality(held') = 0
      <3>1. Cardinality(held) \in 0 .. Batch
        BY SlotCount DEF IInv, Typed
      <3>2. Cardinality(held') = 0
        BY <2>1, FS_EmptySet
      <3>3. QED
        BY <3>1, <3>2, SizeAssumption
    <2>3. Fetched' = Fetched /\ Fetched \in Nat
      BY <2>1 DEF Fetched, IInv, Typed
    <2>4. Typed' /\ Positioned' /\ NeverStarved'
      BY <2>1, <2>2 DEF IInv, Typed, Positioned, NeverStarved
    <2>5. CountsOrdered'
      BY <2>1, <2>3, SizeAssumption DEF IInv, Typed, CountsOrdered
    <2>6. BuffersAccounted'
      BY <2>1, <2>2 DEF IInv, Typed, BuffersAccounted
    <2>7. QED
      BY <2>4, <2>5, <2>6 DEF IInv
  <1>4. QED
    BY <1>1, <1>2, <1>3

\* The inductive invariant holds throughout.
LEMMA Invariance == Spec => []IInv
  <1>1. IInv /\ [Next]_vars => IInv'
    <2> SUFFICES ASSUME IInv, [Next]_vars PROVE IInv'
      OBVIOUS
    <2>1. CASE Modify \/ (\E f \in Fields : Store(f)) \/ FillDone
      BY <2>1, FillHolds
    <2>2. CASE Clone
      BY <2>2, CloneHolds
    <2>3. CASE \E freed \in 0 .. RingSize : Burst(freed)
      BY <2>3, BurstHolds
    <2>4. CASE SendAck \/ FreeStream \/ Close
      BY <2>4, TeardownHolds
    <2>5. CASE Transmit
      BY <2>5, TransmitHolds
    <2>6. CASE UNCHANGED vars
      BY <2>6 DEF vars, IInv, Typed, CountsOrdered, Positioned, BuffersAccounted,
                  NeverStarved, PacketsLeft, Fetched
    <2>7. QED
      BY <2>1, <2>2, <2>3, <2>4, <2>5, <2>6 DEF Next, Worker
  <1>2. QED
    BY <1>1, InitHolds, PTL DEF Spec

\* The variables keep their types; in particular the pool never holds more
\* buffers than it was created with.
THEOREM Typing == Spec => []TypeOK
  <1>1. IInv => TypeOK
    <2> SUFFICES ASSUME IInv PROVE TypeOK
      OBVIOUS
    <2>1. Cardinality(held) \in 0 .. Batch
      BY SlotCount DEF IInv, Typed
    <2>2. queued \in 0 .. EntryCount /\ reclaimed \in 0 .. EntryCount
      BY SizeAssumption DEF IInv, Typed, CountsOrdered, Positioned, NeverStarved
    <2>3. CASE pc = "burst"
      BY <2>1, <2>2, <2>3, SizeAssumption, PoolAssumption
      DEF IInv, Typed, TypeOK, CountsOrdered, Positioned, BuffersAccounted, PacketsLeft
    <2>4. CASE pc # "burst"
      BY <2>1, <2>2, <2>4, SizeAssumption, PoolAssumption
      DEF IInv, Typed, TypeOK, CountsOrdered, Positioned, BuffersAccounted
    <2>5. QED
      BY <2>3, <2>4
  <1>2. QED
    BY <1>1, Invariance, PTL

\* No clone is refused a buffer.
THEOREM PoolSuffices == Spec => []NeverStarved
  BY Invariance, PTL DEF IInv

\* Every buffer of the pool is accounted for.
THEOREM Accounting == Spec => []BuffersAccounted
  BY Invariance, PTL DEF IInv

\* The close returns every buffer to the pool.
THEOREM NothingLeaks == Spec => []NoLeak
  <1>1. IInv => NoLeak
    <2> SUFFICES ASSUME IInv, pc = "done" PROVE pool = PoolSize
      BY DEF NoLeak
    <2>1. held = {} /\ reclaimed = queued
      BY DEF IInv, Positioned
    <2>2. Cardinality(held) = 0
      BY <2>1, FS_EmptySet
    <2>3. QED
      BY <2>1, <2>2 DEF IInv, Typed, BuffersAccounted
  <1>2. QED
    BY <1>1, Invariance, PTL

\* At most one ring of rows and a tail shorter than a batch stay behind.
THEOREM LossIsBounded == Spec => []LossBounded
  <1>1. IInv => LossBounded
    BY SizeAssumption DEF IInv, Typed, CountsOrdered, Positioned, LossBounded, Fetched
  <1>2. QED
    BY <1>1, Invariance, PTL

-----------------------------------------------------------------------------
\* Field f of template s has been stored for the batch that is being filled.
Stored(s, f) == s < slot \/ (s = slot /\ pc = "store" /\ f \notin pending)

\* Of every template a field holds this batch's row, or still the last one's.
TemplatesHold ==
  \A s \in Slots, f \in Fields :
    template[s][f] = IF Stored(s, f) THEN base + s + 1
                     ELSE IF base = 0 THEN 0 ELSE base - Batch + s + 1

\* Batches are whole, and all templates are filled before they are cloned.
WholeBatches ==
  /\ base % Batch = 0
  /\ pc \in {"clone", "burst"} => slot = Batch

Drift == TemplatesHold /\ WholeBatches

\* A number is the sum of a multiple of n and its residue.
LEMMA Multiple ==
  ASSUME NEW n \in Nat, n > 0, NEW a \in Int
  PROVE  \E q \in Int : a = n * q + (a % n)
  <1>1. (a \div n) \in Int /\ a = n * (a \div n) + (a % n)
    OBVIOUS
  <1>2. QED
    BY <1>1

LEMMA Residue ==
  ASSUME NEW n \in Nat, n > 0, NEW q \in Int, NEW r \in 0 .. n - 1
  PROVE  (n * q + r) % n = r
  OBVIOUS

\* What is s past a multiple of n leaves the residue s; the multiple's
\* neighbours are multiples.
LEMMA PastMultiple ==
  ASSUME NEW n \in Nat, n > 0, NEW a \in Int, a % n = 0
  PROVE  /\ \A s \in 0 .. n - 1 : (a + s) % n = s
         /\ (a + n) % n = 0
         /\ (a - n) % n = 0
         /\ a > 0 => a >= n
  <1>a. PICK q \in Int : a = n * q + (a % n)
    BY Multiple
  <1>1. a = n * q
    <2>1. n * q \in Int
      OBVIOUS
    <2>2. QED
      BY <1>a, <2>1
  <1>2. \A s \in 0 .. n - 1 : (n * q + s) % n = s
    BY Residue
  <1>3. (n * (q + 1) + 0) % n = 0 /\ (n * (q - 1) + 0) % n = 0
    <2>1. q + 1 \in Int /\ q - 1 \in Int /\ 0 \in 0 .. n - 1
      OBVIOUS
    <2>2. QED
      BY <2>1, Residue
  <1>4. n * (q + 1) + 0 = n * q + n /\ n * (q - 1) + 0 = n * q - n
    OBVIOUS
  <1>5. n * q > 0 => n * q >= n
    <2>1. q >= 1 => n * q >= n
      OBVIOUS
    <2>2. q <= 0 => n * q <= 0
      OBVIOUS
    <2>3. n * q \in Int
      OBVIOUS
    <2>4. QED
      BY <2>1, <2>2, <2>3
  <1>6. QED
    BY <1>1, <1>2, <1>3, <1>4, <1>5

\* The rows that follow a multiple of Batch are in the templates in order.
LEMMA RowsOfBatch ==
  ASSUME NEW a \in Int, a % Batch = 0, NEW s \in Slots
  PROVE  SlotOf(a + s + 1) = s
  <1>1. Batch \in Nat /\ Batch > 0 /\ s \in 0 .. Batch - 1
    BY SizeAssumption DEF Slots
  <1>2. (a + s) % Batch = s
    BY <1>1, PastMultiple
  <1>3. (a + s + 1) - 1 = a + s
    BY <1>1
  <1>4. QED
    BY <1>2, <1>3 DEF SlotOf

\* Two rows of one template that are less than a batch apart are one row.
LEMMA OneRowPerBatch ==
  ASSUME NEW k \in Nat, NEW m \in Nat, k >= 1, k <= m, m < k + Batch,
         SlotOf(m) = SlotOf(k)
  PROVE  m = k
  <1>1. Batch \in Nat /\ Batch > 0 /\ k - 1 \in Int /\ m - 1 \in Int
    BY SizeAssumption
  <1>2. PICK x : x = SlotOf(k)
    OBVIOUS
  <1>3. PICK q \in Int : k - 1 = Batch * q + x
    BY <1>1, <1>2, Multiple DEF SlotOf
  <1>4. PICK p \in Int : m - 1 = Batch * p + x
    BY <1>1, <1>2, Multiple DEF SlotOf
  <1>5. x \in Int
    BY <1>1, <1>2 DEF SlotOf
  <1>6. m - k = Batch * p - Batch * q
    BY <1>1, <1>3, <1>4, <1>5
  <1>7. Batch * p - Batch * q = Batch * (p - q)
    BY <1>1
  <1>8. PICK d \in Int : d = p - q
    OBVIOUS
  <1>9. m - k = Batch * d
    BY <1>6, <1>7, <1>8
  <1>10. d >= 1 => Batch * d >= Batch
    BY <1>1
  <1>11. d <= 0 - 1 => Batch * d < 0
    BY <1>1
  <1>12. m - k >= 0 /\ m - k < Batch
    BY <1>1
  <1>13. Batch * d \in Int
    BY <1>1
  <1>14. d = 0
    BY <1>1, <1>9, <1>10, <1>11, <1>12, <1>13
  <1>15. m - k = 0
    BY <1>1, <1>9, <1>14
  <1>16. QED
    BY <1>15

\* The templates hold what the position in the loop says.
LEMMA DriftHolds ==
  ASSUME IInv, Drift, [Next]_vars
  PROVE  Drift'
  <1>1. /\ base \in Nat /\ slot \in 0 .. Batch /\ Batch \in Nat /\ Batch > 0
        /\ \A s \in Slots : s \in Nat /\ s < Batch
    BY SizeAssumption DEF IInv, Typed, Slots
  <1>2. CASE Modify
    BY <1>1, <1>2 DEF Modify, Drift, TemplatesHold, WholeBatches, Stored
  <1>3. ASSUME NEW g \in Fields, Store(g)
        PROVE  Drift'
    <2>1. /\ pc = "store" /\ slot < Batch /\ slot \in Slots
          /\ template' = [template EXCEPT ![slot][g] = base + slot + 1]
          /\ pending' = pending \ {g} /\ UNCHANGED base
      BY <1>1, <1>3 DEF Store, IInv, Positioned, Slots
    <2>2. \/ pending = {g} /\ pc' = "fill" /\ slot' = slot + 1
          \/ pending # {g} /\ UNCHANGED <<pc, slot>>
      BY <1>3 DEF Store
    <2>3. ASSUME NEW s \in Slots, NEW f \in Fields
          PROVE  template'[s][f] = IF Stored(s, f)' THEN base + s + 1
                                   ELSE IF base = 0 THEN 0 ELSE base - Batch + s + 1
      <3>1. template[slot] \in [Fields -> 0 .. EntryCount]
        BY <2>1 DEF IInv, Typed
      <3>2. CASE s = slot /\ f = g
        <4>1. template'[s][f] = base + s + 1
          BY <2>1, <3>1, <3>2 DEF IInv, Typed
        <4>2. Stored(s, f)'
          BY <1>1, <2>1, <2>2, <3>2 DEF Stored
        <4>3. QED
          BY <4>1, <4>2
      <3>3. CASE ~(s = slot /\ f = g)
        <4>1. template'[s][f] = template[s][f]
          BY <2>1, <3>1, <3>3 DEF IInv, Typed
        <4>2. Stored(s, f)' <=> Stored(s, f)
          BY <1>1, <2>1, <2>2, <3>3 DEF Stored
        <4>3. QED
          BY <4>1, <4>2 DEF Drift, TemplatesHold
      <3>4. QED
        BY <3>2, <3>3
    <2>4. WholeBatches'
      BY <2>1, <2>2 DEF Drift, WholeBatches
    <2>5. QED
      BY <2>1, <2>3, <2>4 DEF Drift, TemplatesHold
  <1>4. CASE FillDone
    BY <1>1, <1>4 DEF FillDone, Drift, TemplatesHold, WholeBatches, Stored
  <1>5. CASE Clone
    BY <1>1, <1>5 DEF Clone, Drift, TemplatesHold, WholeBatches, Stored
  <1>6. ASSUME NEW freed \in 0 .. RingSize, Burst(freed)
        PROVE  Drift'
    <2>1. /\ pc = "burst" /\ slot = Batch /\ UNCHANGED <<template, pending>>
          /\ \/ /\ base' = base + Batch /\ slot' = 0
                /\ pc' \in {"fill", "ack"}
             \/ UNCHANGED <<pc, base, slot>>
      BY <1>6 DEF Burst, NextBatchOr, Drift, WholeBatches
    <2>2. \A s \in Slots, f \in Fields : Stored(s, f)
      BY <1>1, <2>1 DEF Stored
    <2>3. \A s \in Slots, f \in Fields : template'[s][f] = base + s + 1
      BY <2>1, <2>2 DEF Drift, TemplatesHold
    <2>4. CASE base' = base + Batch /\ slot' = 0 /\ pc' \in {"fill", "ack"}
      <3>1. \A s \in Slots, f \in Fields : ~Stored(s, f)'
        BY <1>1, <2>4 DEF Stored
      <3>2. base' # 0 /\ \A s \in Slots : base' - Batch + s + 1 = base + s + 1
        BY <1>1, <2>4
      <3>3. TemplatesHold'
        BY <2>3, <3>1, <3>2 DEF TemplatesHold
      <3>4. base' % Batch = 0
        BY <1>1, <2>4, PastMultiple DEF Drift, WholeBatches
      <3>5. QED
        BY <2>4, <3>3, <3>4 DEF Drift, WholeBatches
    <2>5. CASE UNCHANGED <<pc, base, slot>>
      BY <2>1, <2>5 DEF Drift, TemplatesHold, WholeBatches, Stored
    <2>6. QED
      BY <2>1, <2>4, <2>5
  <1>7. CASE SendAck \/ FreeStream \/ Close
    BY <1>1, <1>7 DEF SendAck, FreeStream, Close, Drift, TemplatesHold, WholeBatches, Stored
  <1>8. CASE Transmit
    BY <1>8 DEF Transmit, Drift, TemplatesHold, WholeBatches, Stored
  <1>9. CASE UNCHANGED vars
    BY <1>9 DEF vars, Drift, TemplatesHold, WholeBatches, Stored
  <1>10. QED
    BY <1>2, <1>3, <1>4, <1>5, <1>6, <1>7, <1>8, <1>9 DEF Next, Worker

LEMMA DriftInvariance == Spec => []Drift
  <1>1. Init => Drift
    <2> SUFFICES ASSUME Init PROVE Drift
      OBVIOUS
    <2>1. TemplatesHold
      BY SizeAssumption DEF Init, TemplatesHold, Stored, Slots, NextBatchOr
    <2>2. 0 % Batch = 0
      BY SizeAssumption
    <2>3. WholeBatches
      BY <2>2 DEF Init, WholeBatches, NextBatchOr
    <2>4. QED
      BY <2>1, <2>3 DEF Drift
  <1>2. QED
    BY <1>1, DriftHolds, Invariance, PTL DEF Spec

-----------------------------------------------------------------------------
\* What the NIC finds when it reads a field of the next packet's template.
LEMMA NicReads ==
  ASSUME IInv, Drift, Transmit, NEW f \in Fields,
         NEW k, k = Fetched + 1, NEW s, s = SlotOf(k),
         NEW t, t = template[s][f]
  PROVE  /\ k \in Nat /\ k >= 1 /\ s \in Slots /\ t \in Nat
         /\ SlotOf(t) = s
         /\ k <= t
         /\ t < k + RingSize + Batch
         /\ Begun <= Fetched + Batch => t < k + Batch
  <1>1. /\ Fetched \in Nat /\ k \in Nat /\ k >= 1 /\ k <= queued
        /\ base \in Nat /\ queued \in Nat /\ reclaimed \in Nat
        /\ slot \in 0 .. Batch /\ Batch \in Nat /\ Batch > 0 /\ RingSize \in Nat
    BY SizeAssumption DEF Transmit, IInv, Typed, Fetched
  <1>2. s \in Slots /\ s \in Nat /\ s < Batch
    BY <1>1, SlotOfRow, SizeAssumption DEF Slots
  <1>3. t \in Nat
    BY <1>2, SizeAssumption DEF IInv, Typed
  <1>4. /\ queued - RingSize < k
        /\ queued <= base + Batch
        /\ base <= queued
        /\ pc = "burst" \/ queued = base
        /\ pc = "burst" => slot = Batch
    BY <1>1 DEF Transmit, IInv, Typed, CountsOrdered, Positioned, Drift, WholeBatches
  <1>5. base % Batch = 0 /\ (base - Batch) % Batch = 0 /\ base - Batch \in Int
    BY <1>1, PastMultiple DEF Drift, WholeBatches
  <1>6. k \in base + 1 .. base + Batch => k = base + s + 1
    <2> SUFFICES ASSUME k \in base + 1 .. base + Batch PROVE k = base + s + 1
      OBVIOUS
    <2>1. PICK x : x = k - base - 1
      OBVIOUS
    <2>2. x \in Slots /\ k = base + x + 1
      BY <1>1, <2>1 DEF Slots
    <2>3. SlotOf(k) = x
      BY <1>1, <1>5, <2>2, RowsOfBatch
    <2>4. QED
      BY <2>2, <2>3
  <1>7. k \in base - Batch + 1 .. base => k = base - Batch + s + 1
    <2> SUFFICES ASSUME k \in base - Batch + 1 .. base PROVE k = base - Batch + s + 1
      OBVIOUS
    <2>1. PICK a : a = base - Batch
      OBVIOUS
    <2>2. PICK x : x = k - a - 1
      OBVIOUS
    <2>3. x \in Slots /\ k = a + x + 1
      BY <1>1, <2>1, <2>2 DEF Slots
    <2>4. SlotOf(k) = x
      BY <1>5, <2>1, <2>3, RowsOfBatch
    <2>5. QED
      BY <2>1, <2>3, <2>4
  <1>8. CASE Stored(s, f)
    <2>1. t = base + s + 1
      BY <1>2, <1>8 DEF Drift, TemplatesHold
    <2>2. SlotOf(t) = s
      BY <1>1, <1>2, <1>5, <2>1, RowsOfBatch
    <2>3. k <= t
      <3>1. CASE k <= base
        BY <1>1, <1>2, <2>1, <3>1
      <3>2. CASE k > base
        <4>1. k \in base + 1 .. base + Batch
          BY <1>1, <1>4, <3>2
        <4>2. QED
          BY <1>1, <1>2, <1>6, <2>1, <4>1
      <3>3. QED
        BY <1>1, <3>1, <3>2
    <2>4. t < k + RingSize + Batch
      BY <1>1, <1>2, <1>4, <2>1
    <2>5. Begun <= Fetched + Batch => t < k + Batch
      <3>1. t <= Begun /\ Begun \in Nat
        BY <1>1, <1>2, <1>8, <2>1 DEF Stored, Begun
      <3>2. QED
        BY <1>1, <1>3, <3>1
    <2>6. QED
      BY <1>1, <1>2, <1>3, <2>2, <2>3, <2>4, <2>5
  <1>9. CASE ~Stored(s, f)
    <2>1. pc # "burst" /\ queued = base /\ base # 0 /\ slot <= s
      BY <1>1, <1>2, <1>4, <1>9 DEF Stored
    <2>2. t = base - Batch + s + 1
      BY <1>2, <1>9, <2>1 DEF Drift, TemplatesHold
    <2>3. SlotOf(t) = s
      BY <1>2, <1>5, <2>2, RowsOfBatch
    <2>4. k <= t
      <3>1. CASE k <= base - Batch
        BY <1>1, <1>2, <2>2, <3>1
      <3>2. CASE k > base - Batch
        <4>1. k \in base - Batch + 1 .. base
          BY <1>1, <2>1, <3>2
        <4>2. QED
          BY <1>1, <1>2, <1>7, <2>2, <4>1
      <3>3. QED
        BY <1>1, <3>1, <3>2
    <2>5. t < k + RingSize + Batch
      BY <1>1, <1>2, <1>4, <2>1, <2>2
    <2>6. Begun <= Fetched + Batch => t < k + Batch
      <3>1. Begun \in Nat /\ base + slot <= Begun
        BY <1>1 DEF Begun
      <3>2. QED
        BY <1>1, <1>2, <2>2, <3>1
    <2>7. QED
      BY <1>1, <1>2, <1>3, <2>3, <2>4, <2>5, <2>6
  <1>10. QED
    BY <1>8, <1>9

\* A packet carries its own row or a later one of its template, no further ahead
\* than a ring and a batch: the stores race with the NIC, but within bounds.
THEOREM PacketsDriftForward == Spec => []RowsDriftForward
  <1>1. Init => RowsDriftForward
    BY DEF Init, RowsDriftForward, Fetched
  <1>2. IInv /\ Drift /\ RowsDriftForward /\ [Next]_vars => RowsDriftForward'
    <2> SUFFICES ASSUME IInv, Drift, RowsDriftForward, [Next]_vars
                 PROVE  RowsDriftForward'
      OBVIOUS
    <2>1. CASE Transmit
      <3>1. PICK n, s : n = Fetched + 1 /\ s = SlotOf(n)
        OBVIOUS
      <3>2. /\ wire' = Append(wire, template[s])
            /\ wire \in Seq([Fields -> 0 .. EntryCount])
            /\ Fetched = Len(wire) /\ Fetched \in Nat
        BY <2>1, <3>1 DEF Transmit, Fetched, IInv, Typed
      <3>3. /\ Fetched' = n
            /\ wire'[n] = template[s]
            /\ \A k \in 1 .. Fetched : wire'[k] = wire[k]
        BY <3>1, <3>2 DEF Fetched
      <3>4. ASSUME NEW f \in Fields
            PROVE  /\ template[s][f] >= n
                   /\ template[s][f] < n + RingSize + Batch
                   /\ SlotOf(template[s][f]) = SlotOf(n)
        <4>1. PICK t : t = template[s][f]
          OBVIOUS
        <4>2. n \in Nat /\ t \in Nat /\ SlotOf(t) = s /\ n <= t /\ t < n + RingSize + Batch
          BY <2>1, <3>1, <4>1, NicReads
        <4>3. QED
          BY <3>1, <4>1, <4>2
      <3>5. ASSUME NEW k \in 1 .. n, NEW f \in Fields
            PROVE  /\ wire'[k][f] >= k
                   /\ wire'[k][f] < k + RingSize + Batch
                   /\ SlotOf(wire'[k][f]) = SlotOf(k)
        <4>1. CASE k = n
          BY <3>3, <3>4, <4>1
        <4>2. CASE k # n
          <5>1. k \in 1 .. Fetched
            BY <3>1, <3>2, <4>2
          <5>2. QED
            BY <3>3, <5>1 DEF RowsDriftForward
        <4>3. QED
          BY <4>1, <4>2
      <3>6. QED
        BY <3>3, <3>5 DEF RowsDriftForward, SlotOf
    <2>2. CASE Worker \/ UNCHANGED vars
      <3>1. wire' = wire
        BY <2>2 DEF Worker, Modify, Store, FillDone, Clone, Burst, SendAck, FreeStream,
                    Close, vars
      <3>2. QED
        BY <3>1 DEF RowsDriftForward, Fetched, SlotOf
    <2>3. QED
      BY <2>1, <2>2 DEF Next
  <1>3. QED
    BY <1>1, <1>2, Invariance, DriftInvariance, PTL DEF Spec

\* A packet that is read before its template is overwritten is intact.
THEOREM PaceKeepsRowsIntact == Spec => KeptPaceIsIntact
  <1>1. IInv /\ Drift /\ Transmit /\ Begun <= Fetched + Batch
        => wire'[Fetched'] = [f \in Fields |-> Fetched']
    <2> SUFFICES ASSUME IInv, Drift, Transmit, Begun <= Fetched + Batch
                 PROVE  wire'[Fetched'] = [f \in Fields |-> Fetched']
      OBVIOUS
    <2>1. PICK n, s : n = Fetched + 1 /\ s = SlotOf(n)
      OBVIOUS
    <2>2. /\ wire' = Append(wire, template[s])
          /\ wire \in Seq([Fields -> 0 .. EntryCount])
          /\ Fetched = Len(wire) /\ Fetched \in Nat
      BY <2>1 DEF Transmit, Fetched, IInv, Typed
    <2>3. Fetched' = n /\ wire'[n] = template[s]
      BY <2>1, <2>2 DEF Fetched
    <2>4. ASSUME NEW f \in Fields
          PROVE  template[s][f] = n
      <3>1. PICK t : t = template[s][f]
        OBVIOUS
      <3>2. n \in Nat /\ n >= 1 /\ t \in Nat /\ SlotOf(t) = SlotOf(n) /\ n <= t /\ t < n + Batch
        BY <2>1, <3>1, NicReads
      <3>3. QED
        BY <3>1, <3>2, OneRowPerBatch
    <2>5. template[s] \in [Fields -> 0 .. EntryCount]
      <3>1. s \in Slots
        BY <2>1, <2>2, SlotOfRow
      <3>2. QED
        BY <3>1 DEF IInv, Typed
    <2>6. template[s] = [f \in Fields |-> n]
      BY <2>4, <2>5
    <2>7. QED
      BY <2>3, <2>6
  <1>2. QED
    BY <1>1, Invariance, DriftInvariance, PTL DEF Spec, KeptPaceIsIntact
=============================================================================
