------------------------ MODULE SkylineSwitchProofs ------------------------
(***************************************************************************)
(* The SKYLINE program of the switch drops no point of the skyline, for    *)
(* all coordinates below 2^31.                                             *)
(*                                                                         *)
(* The argument: OneRow is inductive together with the types, because the  *)
(* three registers are written in one walk or not at all, and a point that *)
(* is written is never dropped.  Which sums replace which, and so whether  *)
(* the comparison of sums wraps, does not matter to it.                    *)
(*                                                                         *)
(* First comes what PruningSpec's promise is worth to any program that     *)
(* keeps it: nothing the master needs is lost, for every set of rows and   *)
(* every monotone notion of redundancy.                                    *)
(***************************************************************************)
EXTENDS SkylineSwitch, TLAPS

CONSTANTS AnyRows,           \* the rows of any query
          AnyRedundant(_, _) \* and what makes one of them redundant

Any == INSTANCE PruningSpec WITH Rows <- AnyRows, Redundant <- AnyRedundant

\* A program that keeps the promise only forwards and drops rows of its query.
LEMMA PromiseTyping == Any!Spec => []Any!TypeOK
  <1>1. Any!Init => Any!TypeOK
    BY DEF Any!Init, Any!TypeOK
  <1>2. Any!TypeOK /\ [Any!Next]_(Any!vars) => Any!TypeOK'
    BY DEF Any!TypeOK, Any!Next, Any!Forward, Any!Prune, Any!Restart, Any!vars
  <1>3. QED
    BY <1>1, <1>2, PTL DEF Any!Spec

\* A dropped row is redundant next to the forwarded rows, at every moment
\* after it was dropped.
THEOREM Lossless ==
  ASSUME Any!RedundantMonotone
  PROVE  Any!Spec => []Any!NothingLost
  <1>1. Any!Init => Any!NothingLost
    BY DEF Any!Init, Any!NothingLost
  <1>2. Any!TypeOK /\ Any!NothingLost /\ [Any!Next]_(Any!vars) => Any!NothingLost'
    <2> SUFFICES ASSUME Any!TypeOK, Any!NothingLost, [Any!Next]_(Any!vars)
                 PROVE  Any!NothingLost'
      OBVIOUS
    <2>1. CASE \E r \in AnyRows : Any!Forward(r)
      <3>1. PICK r \in AnyRows : Any!Forward(r)
        BY <2>1
      <3>2. /\ forwarded \in SUBSET AnyRows
            /\ forwarded' \in SUBSET AnyRows
            /\ forwarded \subseteq forwarded'
            /\ pruned' = pruned
            /\ pruned \subseteq AnyRows
        BY <3>1 DEF Any!Forward, Any!TypeOK
      <3>3. ASSUME NEW p \in pruned
            PROVE  AnyRedundant(forwarded', p)
        BY <3>2 DEF Any!NothingLost, Any!RedundantMonotone
      <3>4. QED
        BY <3>2, <3>3 DEF Any!NothingLost
    <2>2. CASE \E r \in AnyRows : Any!Prune(r)
      BY <2>2 DEF Any!Prune, Any!NothingLost
    <2>3. CASE Any!Restart
      BY <2>3 DEF Any!Restart, Any!NothingLost
    <2>4. CASE UNCHANGED Any!vars
      BY <2>4 DEF Any!vars, Any!NothingLost
    <2>5. QED
      BY <2>1, <2>2, <2>3, <2>4 DEF Any!Next
  <1>3. QED
    BY <1>1, <1>2, PromiseTyping, PTL DEF Any!Spec

-----------------------------------------------------------------------------

\* Below 2^31 the sign of the 32-bit difference is the order of coordinates.
LEMMA PositiveIsGreater ==
  ASSUME NEW a \in 0 .. HalfWord - 1, NEW b \in 0 .. HalfWord - 1
  PROVE  Positive(Sub(a, b)) <=> a > b
  BY SkylineAssumption DEF Positive, Sub

\* The sum of a point is a word.
LEMMA SumIsWord ==
  ASSUME NEW r \in Row
  PROVE  /\ r.x \in 0 .. HalfWord - 1 /\ r.y \in 0 .. HalfWord - 1
         /\ ValSum(r) \in Words
  <1>1. r.x \in 0 .. HalfWord - 1 /\ r.y \in 0 .. HalfWord - 1
    BY SkylineAssumption DEF Row
  <1>2. QED
    BY <1>1, SkylineAssumption DEF ValSum, Words

\* A point that is dropped is exceeded by the one in the registers, which was
\* forwarded.
LEMMA DropIsBacked ==
  ASSUME TypeOK, OneRow, NEW r \in Row, Prunes(r)
  PROVE  Exceeded(forwarded, r)
  <1>1. r.x \in 0 .. HalfWord - 1 /\ r.y \in 0 .. HalfWord - 1
    BY SumIsWord
  <1>2. regX \in 0 .. HalfWord - 1 /\ regY \in 0 .. HalfWord - 1
    BY SkylineAssumption DEF TypeOK
  <1>3. regX > r.x /\ regY > r.y
    BY <1>1, <1>2, PositiveIsGreater DEF Prunes, Dominates
  <1>4. ~(sum = 0 /\ regX = 0 /\ regY = 0)
    BY <1>1, <1>3, SkylineAssumption
  <1>5. PICK f \in forwarded : regX = f.x /\ regY = f.y
    BY <1>4 DEF OneRow
  <1>6. QED
    BY <1>3, <1>5 DEF Exceeded

\* The registers keep their types, and stay one forwarded point's.
LEMMA RegistersInvariant == Spec => [](TypeOK /\ OneRow)
  <1>1. Init => TypeOK /\ OneRow
    BY SkylineAssumption DEF Init, TypeOK, OneRow, Words
  <1>2. TypeOK /\ OneRow /\ [Next]_vars => TypeOK' /\ OneRow'
    <2> SUFFICES ASSUME TypeOK, OneRow, [Next]_vars PROVE TypeOK' /\ OneRow'
      OBVIOUS
    <2>1. ASSUME NEW r \in Row, Ingress(r) PROVE TypeOK' /\ OneRow'
      <3>1. TypeOK'
        <4>1. r.x \in Values /\ r.y \in Values
          BY DEF Row
        <4>2. sum' \in Words
          BY <2>1, SumIsWord DEF TypeOK, Ingress, Store
        <4>3. regX' \in Values \union {0} /\ regY' \in Values \union {0}
          BY <2>1, <4>1 DEF TypeOK, Ingress, Store
        <4>4. forwarded' \subseteq Row /\ pruned' \subseteq Row
          BY <2>1 DEF TypeOK, Ingress
        <4>5. QED
          BY <4>2, <4>3, <4>4 DEF TypeOK
      <3>2. CASE Replaces(r)
        <4>1. sum' = ValSum(r) /\ regX' = r.x /\ regY' = r.y
          BY <2>1, <3>2 DEF Ingress, Store
        <4>2. r \in forwarded'
          BY <2>1, <3>2 DEF Ingress, Prunes
        <4>3. QED
          BY <3>1, <4>1, <4>2 DEF OneRow, ValSum
      <3>3. CASE ~Replaces(r)
        <4>1. UNCHANGED <<sum, regX, regY>>
          BY <2>1, <3>3 DEF Ingress, Store
        <4>2. forwarded \subseteq forwarded'
          BY <2>1 DEF Ingress
        <4>3. QED
          BY <3>1, <4>1, <4>2 DEF OneRow, ValSum
      <3>4. QED
        BY <3>2, <3>3
    <2>2. CASE UNCHANGED vars
      BY <2>2 DEF vars, TypeOK, OneRow, ValSum
    <2>3. QED
      BY <2>1, <2>2 DEF Next
  <1>3. QED
    BY <1>1, <1>2, PTL DEF Spec

\* Registers hold words and coordinates.
THEOREM Typing == Spec => []TypeOK
  BY RegistersInvariant, PTL

\* The registers never hold parts of two points.
THEOREM RegistersAreOneRow == Spec => []OneRow
  BY RegistersInvariant, PTL

\* A point that is exceeded stays exceeded when more points are forwarded,
\* which Lossless asks of the notion of redundancy.
LEMMA ExceedingIsMonotone == Promise!RedundantMonotone
  BY DEF Promise!RedundantMonotone, Exceeded

\* The program implements PruningSpec: a packet's walk is a Forward, or a Prune
\* of a point that a forwarded one exceeds.
THEOREM KeepsPromise == Spec => PromiseKept
  <1>1. Init => Promise!Init
    BY DEF Init, Promise!Init
  <1>2. TypeOK /\ OneRow /\ [Next]_vars => [Promise!Next]_(Promise!vars)
    <2> SUFFICES ASSUME TypeOK, OneRow, [Next]_vars
                 PROVE  [Promise!Next]_(Promise!vars)
      OBVIOUS
    <2>1. ASSUME NEW r \in Row, Ingress(r) PROVE Promise!Next
      <3>1. CASE Prunes(r)
        <4>1. Promise!Prune(r)
          BY <2>1, <3>1, DropIsBacked DEF Ingress, Promise!Prune
        <4>2. QED
          BY <4>1 DEF Promise!Next
      <3>2. CASE ~Prunes(r)
        <4>1. Promise!Forward(r)
          BY <2>1, <3>2 DEF Ingress, Promise!Forward
        <4>2. QED
          BY <4>1 DEF Promise!Next
      <3>3. QED
        BY <3>1, <3>2
    <2>2. CASE UNCHANGED vars
      BY <2>2 DEF vars, Promise!vars
    <2>3. QED
      BY <2>1, <2>2 DEF Next
  <1>3. QED
    BY <1>1, <1>2, RegistersInvariant, PTL DEF Spec, PromiseKept, Promise!Spec

\* No point of the skyline is dropped: whatever no other point exceeds reaches
\* the master (cheetah_skyline.p4:197-205).
THEOREM NoSkylinePointIsDropped == Spec => []SkylineSurvives
  <1> DEFINE Backed == \A p \in pruned : Exceeded(forwarded, p)
  <1>1. Init => Backed
    BY DEF Init
  <1>2. TypeOK /\ OneRow /\ Backed /\ [Next]_vars => Backed'
    <2> SUFFICES ASSUME TypeOK, OneRow, Backed, [Next]_vars PROVE Backed'
      OBVIOUS
    <2>1. ASSUME NEW r \in Row, Ingress(r) PROVE Backed'
      <3>1. forwarded \subseteq forwarded'
        BY <2>1 DEF Ingress
      <3>2. \A p \in pruned' : p \in pruned \/ (p = r /\ Prunes(r))
        BY <2>1 DEF Ingress
      <3>3. \A p \in pruned' : Exceeded(forwarded, p)
        BY <3>2, DropIsBacked
      <3>4. QED
        BY <3>1, <3>3 DEF Exceeded
    <2>2. CASE UNCHANGED vars
      BY <2>2 DEF vars, Exceeded
    <2>3. QED
      BY <2>1, <2>2 DEF Next
  <1>3. Backed => SkylineSurvives
    BY DEF SkylineSurvives, Exceeded
  <1>4. QED
    BY <1>1, <1>2, <1>3, RegistersInvariant, PTL DEF Spec
=============================================================================
