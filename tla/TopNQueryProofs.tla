--------------------------- MODULE TopNQueryProofs ---------------------------
(***************************************************************************)
(* The master's TOP-N array is exact for the rows that reach it, and the   *)
(* switch drops nothing before enough rows above the cutoff are listed, on *)
(* their way or lost, for every N, every first minimum and all values      *)
(* below 2^31.                                                             *)
(*                                                                         *)
(* The argument counts: Ranked says that the i-th entry of the array is at *)
(* least w exactly when at least i of the rows received are.  Insertion    *)
(* keeps that (and so keeps the order), and the array's counts of equal    *)
(* and greater entries follow from it.  Balanced says that of the rows at  *)
(* least w that were forwarded each is received, on its way or lost, for   *)
(* every w at once; the second counter never exceeds the number of rows    *)
(* forwarded above the cutoff, so nor does it exceed theirs together.      *)
(***************************************************************************)
EXTENDS TopNQuery, SequenceTheorems, FunctionTheorems, FiniteSetTheorems, TLAPS

\* How many rows of a sequence are at least w.
AtLeast(w, s) == {i \in DOMAIN s : s[i] >= w}
Count(w, s) == Cardinality(AtLeast(w, s))

\* The i-th entry is at least w exactly when i of the rows received are.
Ranked ==
  \A w \in Nat : \A i \in DOMAIN results : results[i] >= w <=> i <= Count(w, received)

\* The array has all the rows received, up to N.
Filled == Len(results) = IF Len(received) < N THEN Len(received) ELSE N

Typed ==
  /\ results \in Seq(Values)
  /\ received \in Seq(Values)

-----------------------------------------------------------------------------
LEMMA Numbers ==
  /\ Values \subseteq Nat /\ N \in Nat /\ HalfWord \in Nat /\ HalfWord > 0
  /\ FirstMin \in Nat /\ 2 * FirstMin < HalfWord
  /\ \A v \in Values : v \in 0 .. HalfWord - 1
  BY MasterAssumption, SwitchAssumption
  DEF Master!TopNAssumption, Switch!TopNSwitchAssumption

LEMMA UpTo ==
  ASSUME NEW n \in Nat
  PROVE  IsFiniteSet(1 .. n) /\ Cardinality(1 .. n) = n
  <1>1. IsFiniteSet(1 .. n) /\ Cardinality(1 .. n) = IF 1 > n THEN 0 ELSE n - 1 + 1
    BY FS_Interval
  <1>2. (IF 1 > n THEN 0 ELSE n - 1 + 1) = n
    OBVIOUS
  <1>3. QED
    BY <1>1, <1>2

\* Counting in a sequence, and in one that has grown by a row.
LEMMA CountIsBounded ==
  ASSUME NEW s \in Seq(Values), NEW w \in Nat
  PROVE  /\ IsFiniteSet(AtLeast(w, s))
         /\ Count(w, s) \in Nat
         /\ Count(w, s) <= Len(s)
  <1>1. Len(s) \in Nat /\ AtLeast(w, s) \subseteq 1 .. Len(s)
    BY LenProperties DEF AtLeast
  <1>2. IsFiniteSet(1 .. Len(s)) /\ Cardinality(1 .. Len(s)) = Len(s)
    BY <1>1, UpTo
  <1>3. /\ IsFiniteSet(AtLeast(w, s))
        /\ Cardinality(AtLeast(w, s)) <= Cardinality(1 .. Len(s))
    BY <1>1, <1>2, FS_Subset
  <1>4. QED
    BY <1>2, <1>3, FS_CardinalityType DEF Count

LEMMA CountOfAppend ==
  ASSUME NEW s \in Seq(Values), NEW v \in Values, NEW w \in Nat
  PROVE  Count(w, Append(s, v)) = IF v >= w THEN Count(w, s) + 1 ELSE Count(w, s)
  <1>1. PICK t : t = Append(s, v)
    OBVIOUS
  <1>2. /\ DOMAIN t = DOMAIN s \union {Len(s) + 1}
        /\ Len(s) + 1 \notin DOMAIN s
        /\ t[Len(s) + 1] = v
        /\ \A i \in DOMAIN s : t[i] = s[i]
    BY <1>1, AppendProperties, LenProperties
  <1>3. CASE v >= w
    <2>1. AtLeast(w, t) = AtLeast(w, s) \union {Len(s) + 1}
      BY <1>2, <1>3 DEF AtLeast
    <2>2. Len(s) + 1 \notin AtLeast(w, s)
      BY <1>2 DEF AtLeast
    <2>3. Cardinality(AtLeast(w, t)) = Cardinality(AtLeast(w, s)) + 1
      BY <2>1, <2>2, CountIsBounded, FS_AddElement
    <2>4. QED
      BY <1>1, <1>3, <2>3 DEF Count
  <1>4. CASE ~(v >= w)
    <2>1. AtLeast(w, t) = AtLeast(w, s)
      BY <1>2, <1>4 DEF AtLeast
    <2>2. QED
      BY <1>1, <1>4, <2>1 DEF Count
  <1>5. QED
    BY <1>3, <1>4

\* Counting in a sequence and in what is behind its first row.
LEMMA CountOfTail ==
  ASSUME NEW s \in Seq(Values), s # <<>>, NEW w \in Nat
  PROVE  Count(w, s) = IF Head(s) >= w THEN Count(w, Tail(s)) + 1 ELSE Count(w, Tail(s))
  <1>1. PICK t, n : t = Tail(s) /\ n = Len(s)
    OBVIOUS
  <1>2. /\ n \in Nat /\ n >= 1 /\ DOMAIN s = 1 .. n
        /\ t \in Seq(Values) /\ Len(t) = n - 1 /\ DOMAIN t = 1 .. n - 1
        /\ \A i \in 1 .. n - 1 : t[i] = s[i + 1]
        /\ Head(s) = s[1]
    BY <1>1, HeadTailProperties, LenProperties, EmptySeq
  <1> DEFINE later == {i \in AtLeast(w, s) : i # 1}
             up == [i \in AtLeast(w, t) |-> i + 1]
  <1>3. up \in Bijection(AtLeast(w, t), later)
    <2>1. \A i \in AtLeast(w, t) : i \in 1 .. n - 1 /\ i + 1 \in later
      BY <1>2 DEF AtLeast
    <2>2. \A j \in later : j - 1 \in AtLeast(w, t) /\ (j - 1) + 1 = j
      BY <1>2 DEF AtLeast
    <2>3. \A i, j \in AtLeast(w, t) : i + 1 = j + 1 => i = j
      BY <2>1
    <2>4. \A j \in later : \E i \in AtLeast(w, t) : up[i] = j
      BY <2>2
    <2>5. QED
      BY <2>1, <2>3, <2>4, Fun_IsBij
  <1>4. IsFiniteSet(AtLeast(w, t)) /\ Count(w, t) \in Nat
    BY <1>2, CountIsBounded
  <1>5. IsFiniteSet(later) /\ Cardinality(later) = Count(w, t)
    BY <1>3, <1>4, FS_Bijection, Fun_ExistsBij DEF Count
  <1>6. CASE Head(s) >= w
    <2>1. AtLeast(w, s) = later \union {1} /\ 1 \notin later
      BY <1>2, <1>6 DEF AtLeast
    <2>2. Cardinality(AtLeast(w, s)) = Cardinality(later) + 1
      BY <1>5, <2>1, FS_AddElement
    <2>3. QED
      BY <1>1, <1>5, <1>6, <2>2 DEF Count
  <1>7. CASE ~(Head(s) >= w)
    <2>1. AtLeast(w, s) = later
      BY <1>2, <1>7 DEF AtLeast
    <2>2. QED
      BY <1>1, <1>5, <1>7, <2>1 DEF Count
  <1>8. QED
    BY <1>6, <1>7

\* What InsertAt makes of a sequence.
LEMMA Insertion ==
  ASSUME NEW S, NEW s \in Seq(S), NEW e \in S, NEW p \in 0 .. Len(s),
         NEW t, t = Master!InsertAt(s, p + 1, e)
  PROVE  /\ t \in Seq(S)
         /\ Len(t) = Len(s) + 1
         /\ \A i \in 1 .. p : t[i] = s[i]
         /\ t[p + 1] = e
         /\ \A i \in p + 2 .. Len(s) + 1 : t[i] = s[i - 1]
  <1>1. PICK len, a, b : /\ len = Len(s)
                         /\ a = SubSeq(s, 1, p)
                         /\ b = SubSeq(s, p + 1, len)
    OBVIOUS
  <1>2. len \in Nat /\ p \in Nat /\ p <= len
    BY <1>1, LenProperties
  <1>3. /\ a \in Seq(S) /\ Len(a) = p
        /\ \A i \in 1 .. p : a[i] = s[i]
    <2>1. \A i \in 1 .. p : s[i] \in S
      BY <1>1, <1>2, ElementOfSeq
    <2>2. /\ a \in Seq(S)
          /\ Len(a) = IF 1 <= p THEN p - 1 + 1 ELSE 0
          /\ \A i \in 1 .. p - 1 + 1 : a[i] = s[1 + i - 1]
      BY <1>1, <1>2, <2>1, SubSeqProperties
    <2>3. \A i \in 1 .. p : i \in 1 .. p - 1 + 1 /\ 1 + i - 1 = i
      BY <1>2
    <2>4. Len(a) = p
      BY <1>2, <2>2
    <2>5. QED
      BY <2>2, <2>3, <2>4
  <1>4. /\ b \in Seq(S) /\ Len(b) = len - p
        /\ \A i \in 1 .. len - p : b[i] = s[p + i]
    <2>1. PICK m : m = p + 1
      OBVIOUS
    <2>2. m \in Int /\ \A i \in m .. len : s[i] \in S
      BY <1>1, <1>2, <2>1, ElementOfSeq
    <2>3. /\ b \in Seq(S)
          /\ Len(b) = IF m <= len THEN len - m + 1 ELSE 0
          /\ \A i \in 1 .. len - m + 1 : b[i] = s[m + i - 1]
      BY <1>1, <1>2, <2>1, <2>2, SubSeqProperties
    <2>4. Len(b) = len - p
      BY <1>2, <2>1, <2>3
    <2>5. \A i \in 1 .. len - p : i \in 1 .. len - m + 1 /\ m + i - 1 = p + i
      BY <1>2, <2>1
    <2>6. QED
      BY <2>3, <2>4, <2>5
  <1>5. t = (a \o <<e>>) \o b
    <2>1. t = SubSeq(s, 1, (p + 1) - 1) \o <<e>> \o SubSeq(s, p + 1, Len(s))
      BY DEF Master!InsertAt
    <2>2. (p + 1) - 1 = p
      BY <1>2
    <2>3. QED
      BY <1>1, <2>1, <2>2, Zenon
  <1>6. PICK c : c = a \o <<e>>
    OBVIOUS
  <1>7. /\ c \in Seq(S) /\ Len(c) = p + 1
        /\ \A i \in 1 .. p : c[i] = s[i]
        /\ c[p + 1] = e
    <2>1. c = Append(a, e)
      BY <1>3, <1>6
    <2>2. QED
      BY <1>2, <1>3, <2>1, AppendProperties
  <1>8. /\ t \in Seq(S) /\ Len(t) = (p + 1) + (len - p)
        /\ \A i \in 1 .. (p + 1) + (len - p) :
             t[i] = IF i <= p + 1 THEN c[i] ELSE b[i - (p + 1)]
    <2>1. t = c \o b
      BY <1>5, <1>6, Zenon
    <2>2. /\ t \in Seq(S) /\ Len(t) = Len(c) + Len(b)
          /\ \A i \in 1 .. Len(c) + Len(b) :
               t[i] = IF i <= Len(c) THEN c[i] ELSE b[i - Len(c)]
      <3>1. c \in Seq(S) /\ b \in Seq(S)
        BY <1>4, <1>7
      <3>2. /\ c \o b \in Seq(S)
            /\ Len(c \o b) = Len(c) + Len(b)
            /\ \A i \in 1 .. Len(c) + Len(b) :
                 (c \o b)[i] = IF i <= Len(c) THEN c[i] ELSE b[i - Len(c)]
        BY <3>1, ConcatProperties
      <3>3. QED
        BY <2>1, <3>2, Zenon
    <2>3. Len(c) = p + 1 /\ Len(b) = len - p
      BY <1>4, <1>7
    <2>4. QED
      BY <2>2, <2>3, Zenon
  <1>9. (p + 1) + (len - p) = len + 1
    BY <1>2
  <1>10. ASSUME NEW i \in p + 2 .. len + 1
         PROVE  t[i] = s[i - 1]
    <2>1. i \in 1 .. len + 1 /\ ~(i <= p + 1) /\ i - (p + 1) \in 1 .. len - p
          /\ p + (i - (p + 1)) = i - 1
      BY <1>2
    <2>2. QED
      BY <1>4, <1>8, <1>9, <2>1
  <1>11. \A i \in 1 .. p + 1 : t[i] = c[i]
    BY <1>2, <1>8, <1>9
  <1>12. \A i \in 1 .. p : t[i] = s[i]
    BY <1>2, <1>7, <1>11
  <1>13. t[p + 1] = e
    BY <1>2, <1>7, <1>11
  <1>14. QED
    BY <1>1, <1>8, <1>9, <1>10, <1>12, <1>13

-----------------------------------------------------------------------------
\* How many entries are at least v, which is where the scan puts v.
LEMMA PlaceIsRank ==
  ASSUME Typed, Ranked, NEW v \in Values
  PROVE  /\ Master!Place(v) \in 0 .. Len(results)
         /\ \A i \in DOMAIN results : i <= Master!Place(v) <=> results[i] >= v
  <1> DEFINE stay == {i \in DOMAIN results : results[i] >= v}
  <1>1. PICK len, c : len = Len(results) /\ c = Count(v, received)
    OBVIOUS
  <1>2. v \in Nat /\ len \in Nat /\ c \in Nat /\ DOMAIN results = 1 .. len
    BY <1>1, Numbers, CountIsBounded, LenProperties DEF Typed
  <1>3. \A i \in 1 .. len : i \in stay <=> i <= c
    BY <1>1, <1>2 DEF Ranked
  <1>4. stay \subseteq 1 .. len
    BY <1>2
  <1>5. CASE stay = {}
    <2>1. Master!Place(v) = 0
      BY <1>5 DEF Master!Place
    <2>2. QED
      BY <1>1, <1>2, <1>5, <2>1
  <1>6. CASE stay # {}
    <2>1. PICK m : m = IF c < len THEN c ELSE len
      OBVIOUS
    <2> HIDE DEF stay
    <2>2. m \in stay /\ \A j \in stay : j <= m
      <3>1. PICK x \in stay : x \in 1 .. len /\ x <= c
        BY <1>3, <1>4, <1>6
      <3>2. m \in 1 .. len /\ m <= c
        BY <1>2, <2>1, <3>1
      <3>3. m \in stay
        BY <1>3, <3>2
      <3>4. \A j \in stay : j \in 1 .. len /\ j <= c
        BY <1>3, <1>4
      <3>5. \A j \in stay : j <= m
        BY <1>2, <2>1, <3>4
      <3>6. QED
        BY <3>3, <3>5
    <2>3. PICK x : x = CHOOSE i \in stay : \A j \in stay : j <= i
      OBVIOUS
    <2>4. x \in stay /\ \A j \in stay : j <= x
      BY <2>2, <2>3
    <2>5. Master!Place(v) = x
      BY <1>6, <2>3 DEF Master!Place, stay
    <2>6. x \in 1 .. len /\ x <= c
      BY <1>3, <1>4, <2>4
    <2>7. \A i \in 1 .. len : i <= x <=> i \in stay
      BY <1>2, <1>3, <2>4, <2>6
    <2>8. QED
      BY <1>1, <1>2, <2>5, <2>6, <2>7 DEF stay
  <1>7. QED
    BY <1>5, <1>6

\* A row that the array takes keeps the ranks of what is listed.
LEMMA InsertionKeepsRanks ==
  ASSUME Typed, Ranked, Filled, NEW v \in Values, NEW t, t = Master!Inserted(v),
         Len(results) < N \/ Master!Place(v) < N
  PROVE  /\ t \in Seq(Values) /\ Len(t) = Len(results) + 1
         /\ \A w \in Nat : \A i \in 1 .. Len(t) :
              t[i] >= w <=> i <= Count(w, Append(received, v))
  <1>1. PICK p, len : p = Master!Place(v) /\ len = Len(results)
    OBVIOUS
  <1>2. /\ p \in 0 .. len /\ p \in Nat /\ len \in Nat /\ v \in Nat
        /\ DOMAIN results = 1 .. len
        /\ \A i \in 1 .. len : results[i] \in Nat
        /\ \A i \in 1 .. len : i <= p <=> results[i] >= v
    <2>1. len \in Nat /\ v \in Nat /\ DOMAIN results = 1 .. len
      BY <1>1, LenProperties, Numbers DEF Typed
    <2>2. \A i \in 1 .. len : results[i] \in Nat
      BY <1>1, Numbers, ElementOfSeq DEF Typed
    <2>3. p \in 0 .. len /\ \A i \in 1 .. len : i <= p <=> results[i] >= v
      BY <1>1, <2>1, PlaceIsRank
    <2>4. QED
      BY <2>1, <2>2, <2>3
  <1>3. /\ t \in Seq(Values)
        /\ Len(t) = len + 1
        /\ \A i \in 1 .. p : t[i] = results[i]
        /\ t[p + 1] = v
        /\ \A i \in p + 2 .. len + 1 : t[i] = results[i - 1]
    <2>1. t = Master!InsertAt(results, p + 1, v)
      BY <1>1 DEF Master!Inserted
    <2>2. results \in Seq(Values) /\ p \in 0 .. Len(results)
      BY <1>1, <1>2 DEF Typed
    <2>3. /\ t \in Seq(Values)
          /\ Len(t) = Len(results) + 1
          /\ \A i \in 1 .. p : t[i] = results[i]
          /\ t[p + 1] = v
          /\ \A i \in p + 2 .. Len(results) + 1 : t[i] = results[i - 1]
      <3>1. PICK s : s = results
        OBVIOUS
      <3>2. s \in Seq(Values) /\ p \in 0 .. Len(s) /\ t = Master!InsertAt(s, p + 1, v)
        BY <2>1, <2>2, <3>1
      <3>3. t \in Seq(Values) /\ Len(t) = Len(s) + 1
        BY <3>2, Insertion
      <3>4. \A i \in 1 .. p : t[i] = s[i]
        BY <3>2, Insertion
      <3>5. t[p + 1] = v
        BY <3>2, Insertion
      <3>6. \A i \in p + 2 .. Len(s) + 1 : t[i] = s[i - 1]
        BY <3>2, Insertion
      <3>7. QED
        BY <3>1, <3>3, <3>4, <3>5, <3>6
    <2>4. QED
      BY <1>1, <2>3
  <1>4. ASSUME NEW w \in Nat, NEW i \in 1 .. len + 1
        PROVE  t[i] >= w <=> i <= Count(w, Append(received, v))
    <2>1. PICK a, b : a = Count(w, received) /\ b = Count(w, Append(received, v))
      OBVIOUS
    <2>2. /\ a \in Nat /\ a <= Len(received)
          /\ b = IF v >= w THEN a + 1 ELSE a
      BY <2>1, CountIsBounded, CountOfAppend DEF Typed
    <2>3. \A j \in 1 .. len : results[j] >= w <=> j <= a
      BY <1>2, <2>1 DEF Ranked
    <2>4. CASE i <= p
      <3>1. i \in 1 .. len /\ t[i] = results[i] /\ results[i] >= v
        BY <1>2, <1>3, <2>4
      <3>2. results[i] \in Nat /\ (results[i] >= w <=> i <= a)
        BY <1>2, <2>3, <3>1
      <3>3. v >= w => i <= a
        BY <1>2, <3>1, <3>2
      <3>4. t[i] >= w <=> i <= b
        BY <2>2, <3>1, <3>2, <3>3
      <3>5. QED
        BY <2>1, <3>4
    <2>5. CASE i = p + 1
      <3>1. t[i] = v
        BY <1>3, <2>5
      <3>2. v >= w => i <= a + 1
        <4>1. p = 0 => i <= a + 1
          BY <2>2, <2>5
        <4>2. p # 0 /\ v >= w => p <= a
          <5>1. p # 0 => p \in 1 .. len /\ results[p] >= v /\ results[p] \in Nat
            BY <1>2
          <5>2. p # 0 /\ v >= w => results[p] >= w
            BY <1>2, <5>1
          <5>3. QED
            BY <2>3, <5>1, <5>2
        <4>3. QED
          BY <1>2, <2>2, <2>5, <4>1, <4>2
      <3>3. ~(v >= w) => ~(i <= a)
        <4>1. CASE p < len
          <5>1. i \in 1 .. len /\ ~(results[i] >= v) /\ results[i] \in Nat
            BY <1>2, <2>5, <4>1
          <5>2. ~(v >= w) => ~(results[i] >= w)
            BY <1>2, <5>1
          <5>3. QED
            BY <2>3, <5>1, <5>2
        <4>2. CASE p = len
          <5>1. len < N
            BY <1>1, <4>2
          <5>2. len = Len(received)
            BY <1>1, <5>1, Numbers, LenProperties DEF Filled, Typed
          <5>3. QED
            BY <1>2, <2>2, <2>5, <4>2, <5>2
        <4>3. QED
          BY <1>2, <4>1, <4>2
      <3>4. t[i] >= w <=> i <= b
        BY <2>2, <3>1, <3>2, <3>3
      <3>5. QED
        BY <2>1, <3>4
    <2>6. CASE i >= p + 2
      <3>1. i - 1 \in 1 .. len /\ t[i] = results[i - 1] /\ ~(results[i - 1] >= v)
        BY <1>2, <1>3, <2>6
      <3>2. results[i - 1] \in Nat /\ (results[i - 1] >= w <=> i - 1 <= a)
        BY <1>2, <2>3, <3>1
      <3>3. ~(v >= w) => ~(results[i - 1] >= w)
        BY <1>2, <3>1, <3>2
      <3>4. t[i] >= w <=> i <= b
        BY <2>2, <3>1, <3>2, <3>3
      <3>5. QED
        BY <2>1, <3>4
    <2>7. QED
      BY <1>2, <2>4, <2>5, <2>6
  <1>5. QED
    BY <1>1, <1>3, <1>4

\* A row passed to the update keeps ranks and length.
LEMMA UpdateKeeps ==
  ASSUME Typed, Ranked, Filled, NEW v \in Values, Master!Update(v)
  PROVE  Typed' /\ Ranked' /\ Filled'
  <1>1. /\ received' = Append(received, v)
        /\ received' \in Seq(Values)
        /\ Len(received') = Len(received) + 1
        /\ Len(received) \in Nat /\ Len(results) \in Nat /\ N \in Nat
    BY AppendProperties, LenProperties, Numbers DEF Master!Update, Typed
  <1>2. PICK t : t = Master!Inserted(v)
    OBVIOUS
  <1>3. CASE Master!Grow(v)
    <2>1. results' = t /\ Len(results) < N
      BY <1>2, <1>3 DEF Master!Grow
    <2>2. /\ t \in Seq(Values) /\ Len(t) = Len(results) + 1
          /\ \A w \in Nat : \A i \in 1 .. Len(t) :
               t[i] >= w <=> i <= Count(w, received')
      BY <1>1, <1>2, <2>1, InsertionKeepsRanks
    <2>3. Ranked'
      BY <2>1, <2>2, LenProperties DEF Ranked
    <2>4. Filled'
      BY <1>1, <2>1, <2>2 DEF Filled
    <2>5. QED
      BY <1>1, <2>1, <2>2, <2>3, <2>4 DEF Typed
  <1>4. CASE Master!Replace(v)
    <2>1. results' = SubSeq(t, 1, N) /\ Len(results) >= N /\ Master!Place(v) < N
      BY <1>2, <1>4 DEF Master!Replace
    <2>2. /\ t \in Seq(Values) /\ Len(t) = Len(results) + 1
          /\ \A w \in Nat : \A i \in 1 .. Len(t) :
               t[i] >= w <=> i <= Count(w, received')
      BY <1>1, <1>2, <2>1, InsertionKeepsRanks
    <2>3. /\ results' \in Seq(Values) /\ Len(results') = N
          /\ \A i \in 1 .. N : results'[i] = t[i]
      BY <1>1, <2>1, <2>2
    <2>4. Ranked'
      <3>1. DOMAIN results' = 1 .. N /\ \A i \in 1 .. N : i \in 1 .. Len(t)
        BY <1>1, <2>1, <2>2, <2>3, LenProperties
      <3>2. QED
        BY <2>2, <2>3, <3>1 DEF Ranked
    <2>5. Filled'
      BY <1>1, <2>1, <2>3 DEF Filled
    <2>6. QED
      BY <1>1, <2>3, <2>4, <2>5 DEF Typed
  <1>5. CASE Master!Keep(v)
    <2>1. UNCHANGED results /\ Len(results) >= N /\ Master!Place(v) >= N
      BY <1>5 DEF Master!Keep
    <2>2. Len(results) = N
      BY <1>1, <2>1 DEF Filled
    <2>3. ASSUME NEW w \in Nat, NEW i \in DOMAIN results
          PROVE  results[i] >= w <=> i <= Count(w, received')
      <3>1. PICK a, b : a = Count(w, received) /\ b = Count(w, received')
        OBVIOUS
      <3>2. a \in Nat /\ b = IF v >= w THEN a + 1 ELSE a
        BY <1>1, <3>1, CountIsBounded, CountOfAppend DEF Typed
      <3>3. results[i] >= w <=> i <= a
        BY <3>1 DEF Ranked
      <3>4. i \in 1 .. N /\ results[i] \in Nat /\ v \in Nat
        BY <2>2, LenProperties, ElementOfSeq, Numbers DEF Typed
      <3>5. results[i] >= v
        <4>1. Master!Place(v) \in 0 .. Len(results) /\ (i <= Master!Place(v) <=> results[i] >= v)
          BY PlaceIsRank
        <4>2. i <= Master!Place(v)
          BY <1>1, <2>1, <3>4, <4>1
        <4>3. QED
          BY <4>1, <4>2
      <3>6. v >= w => results[i] >= w
        BY <3>4, <3>5
      <3>7. results[i] >= w <=> i <= b
        BY <3>2, <3>3, <3>4, <3>6
      <3>8. QED
        BY <3>1, <3>7
    <2>4. Ranked'
      BY <2>1, <2>3 DEF Ranked
    <2>5. Filled'
      BY <1>1, <2>1, <2>2 DEF Filled
    <2>6. QED
      BY <1>1, <2>1, <2>4, <2>5 DEF Typed
  <1>6. QED
    BY <1>3, <1>4, <1>5 DEF Master!Update

-----------------------------------------------------------------------------
\* The registers and what is counted: no row is counted before N are learnt,
\* and each that is counted is above the cutoff and was forwarded.
Learning == counter < N => counterTwo = 0
CountedLeft == counterTwo <= Count(2 * minimum + 1, forwarded)
DroppedLate == pruned # {} => counterTwo > N

SwitchTyped ==
  /\ sent \in Seq(Values)
  /\ Switch!TypeOK

RingTyped ==
  /\ rx \in Seq(Values)
  /\ lost \in Seq(Values)

\* What was forwarded is received, on its way or lost, of whatever size.
Balanced ==
  \A w \in Nat :
    Count(w, forwarded) = Count(w, received) + Count(w, rx) + Count(w, lost)

Inv ==
  /\ SwitchTyped /\ Learning /\ CountedLeft /\ DroppedLate
  /\ RingTyped /\ Balanced
  /\ Typed /\ Ranked /\ Filled

\* The remainder by b leaves a number below b alone.
LEMMA SmallResidue ==
  ASSUME NEW b \in Nat, b > 0, NEW a \in 0 .. b - 1
  PROVE  a % b = a
  OBVIOUS

\* A value that passes the test is above twice the minimum.
LEMMA PastIsAbove ==
  ASSUME SwitchTyped, NEW v \in Values, Switch!Past(v)
  PROVE  v >= 2 * minimum + 1
  <1>1. PICK m, d : m = 2 * minimum /\ d = m - v
    OBVIOUS
  <1>2. m \in Nat /\ m < HalfWord /\ v \in Nat /\ v < HalfWord /\ HalfWord \in Nat
    BY <1>1, Numbers DEF SwitchTyped, Switch!TypeOK
  <1>3. (d % (2 * HalfWord)) > HalfWord - 1
    BY <1>1 DEF Switch!Past, Switch!Difference
  <1>4. CASE d >= 0
    <2>1. d \in 0 .. 2 * HalfWord - 1 /\ 2 * HalfWord \in Nat /\ 2 * HalfWord > 0
      BY <1>1, <1>2, <1>4
    <2>2. (d % (2 * HalfWord)) = d
      BY <2>1, SmallResidue
    <2>3. QED
      BY <1>1, <1>2, <1>3, <2>2
  <1>5. CASE ~(d >= 0)
    BY <1>1, <1>2, <1>5
  <1>6. QED
    BY <1>4, <1>5

\* A step of the switch keeps its types, and the counting as far as it goes
\* without the master.
LEMMA IngressKeeps ==
  ASSUME SwitchTyped, Learning, DroppedLate, NEW v \in Values, Switch!Ingress(v)
  PROVE  /\ Switch!TypeOK' /\ Learning' /\ DroppedLate'
         /\ counterTwo' > 0 => minimum' = minimum
         /\ \/ counterTwo' = counterTwo
            \/ counterTwo' = counterTwo + 1 /\ Switch!Past(v) /\ ~Switch!Prunes(v)
  <1>1. /\ N \in Nat /\ counter \in 0 .. N /\ counterTwo \in 0 .. N + 1
        /\ minimum \in Nat /\ minimum <= FirstMin /\ FirstMin \in Nat /\ v \in Nat
        /\ forwarded \in Seq(Values) /\ pruned \subseteq Values
    BY Numbers DEF SwitchTyped, Switch!TypeOK
  <1>2. forwarded' \in Seq(Values) /\ pruned' \subseteq Values
    <2>1. Append(forwarded, v) \in Seq(Values)
      BY <1>1, AppendProperties
    <2>2. QED
      BY <1>1, <2>1 DEF Switch!Ingress
  <1>3. pruned' # {} => pruned # {} \/ Switch!Prunes(v)
    BY DEF Switch!Ingress
  <1>4. Switch!Prunes(v) => counterTwo > N
    BY <1>1 DEF Switch!Prunes, Switch!Counted
  <1>5. pruned' # {} => counterTwo > N
    BY <1>3, <1>4 DEF DroppedLate
  <1>6. CASE Switch!Learn(v)
    <2>1. /\ counter < N /\ counter' = counter + 1 /\ counterTwo' = counterTwo
          /\ minimum' = (IF minimum - v > 0 THEN v ELSE minimum)
      BY <1>1, <1>6 DEF Switch!Learn, Switch!MoreThanN
    <2>2. counterTwo = 0
      BY <2>1 DEF Learning
    <2>3. counter' \in 0 .. N /\ counterTwo' \in 0 .. N + 1
      BY <1>1, <2>1
    <2>4. minimum' \in Nat /\ minimum' <= FirstMin
      BY <1>1, <2>1
    <2>5. Switch!TypeOK'
      BY <1>1, <1>2, <2>3, <2>4 DEF Switch!TypeOK
    <2>6. Learning' /\ ~(counterTwo' > 0)
      BY <2>1, <2>2 DEF Learning
    <2>7. DroppedLate'
      BY <1>5, <2>1 DEF DroppedLate
    <2>8. QED
      BY <2>1, <2>5, <2>6, <2>7, Zenon
  <1>7. CASE Switch!Test(v)
    <2>1. /\ counter >= N /\ counter' = counter /\ minimum' = minimum
          /\ counterTwo' = IF Switch!Past(v) /\ ~Switch!Counted THEN counterTwo + 1
                           ELSE counterTwo
      BY <1>7 DEF Switch!Test, Switch!MoreThanN
    <2>2. \/ counterTwo' = counterTwo
          \/ /\ counterTwo' = counterTwo + 1
             /\ Switch!Past(v) /\ ~Switch!Prunes(v) /\ counterTwo <= N
      BY <1>1, <2>1 DEF Switch!Counted, Switch!Prunes
    <2>3. counterTwo' \in 0 .. N + 1 /\ counterTwo' >= counterTwo
      BY <1>1, <2>2
    <2>4. Learning'
      BY <1>1, <2>1 DEF Learning
    <2>5. DroppedLate'
      BY <1>1, <1>5, <2>3 DEF DroppedLate
    <2>6. Switch!TypeOK'
      BY <1>1, <1>2, <2>1, <2>3 DEF Switch!TypeOK
    <2>7. QED
      BY <2>1, <2>2, <2>4, <2>5, <2>6, Zenon
  <1>8. QED
    BY <1>6, <1>7 DEF Switch!Ingress

\* What a row does that the switch forwards or drops.
LEMMA SendKeeps ==
  ASSUME Inv, NEW v \in Values, Send(v)
  PROVE  Inv'
  <1>1. /\ SwitchTyped /\ Learning /\ CountedLeft /\ DroppedLate /\ RingTyped /\ Balanced
        /\ Typed /\ Ranked /\ Filled /\ Switch!Ingress(v)
        /\ results' = results /\ received' = received
    BY DEF Inv, Send, masterVars
  <1>2. Switch!TypeOK' /\ Learning' /\ DroppedLate'
    BY <1>1, IngressKeeps
  <1>3. SwitchTyped'
    <2>1. sent' \in Seq(Values)
      BY <1>1, AppendProperties DEF Send, SwitchTyped
    <2>2. QED
      BY <1>2, <2>1 DEF SwitchTyped
  <1>4. Typed' /\ Ranked' /\ Filled'
    BY <1>1 DEF Typed, Ranked, Filled, Count, AtLeast
  <1>5. /\ rx \in Seq(Values) /\ lost \in Seq(Values) /\ forwarded \in Seq(Values)
        /\ received \in Seq(Values)
    BY <1>1 DEF RingTyped, SwitchTyped, Switch!TypeOK, Typed
  <1>6. \/ /\ Switch!Prunes(v)
           /\ forwarded' = forwarded /\ rx' = rx /\ lost' = lost
        \/ /\ ~Switch!Prunes(v) /\ forwarded' = Append(forwarded, v)
           /\ rx' = Append(rx, v) /\ lost' = lost
        \/ /\ ~Switch!Prunes(v) /\ forwarded' = Append(forwarded, v)
           /\ lost' = Append(lost, v) /\ rx' = rx
    BY DEF Send, Switch!Ingress, Arrive, ringVars
  <1>7. RingTyped'
    <2>1. Append(rx, v) \in Seq(Values) /\ Append(lost, v) \in Seq(Values)
      BY <1>5, AppendProperties
    <2>2. rx' \in Seq(Values) /\ lost' \in Seq(Values)
      BY <1>5, <1>6, <2>1
    <2>3. QED
      BY <2>2 DEF RingTyped
  <1>8. ASSUME NEW w \in Nat
        PROVE  Count(w, forwarded') = Count(w, received') + Count(w, rx') + Count(w, lost')
    <2>1. PICK f, r, x, l : /\ f = Count(w, forwarded) /\ r = Count(w, received)
                            /\ x = Count(w, rx) /\ l = Count(w, lost)
      OBVIOUS
    <2>2. /\ f \in Nat /\ r \in Nat /\ x \in Nat /\ l \in Nat
          /\ f = r + x + l
      BY <1>1, <1>5, <2>1, CountIsBounded DEF Balanced
    <2>3. Count(w, received') = r
      BY <1>1, <2>1
    <2>4. CASE forwarded' = forwarded /\ rx' = rx /\ lost' = lost
      BY <2>1, <2>2, <2>3, <2>4
    <2>5. CASE forwarded' = Append(forwarded, v) /\ rx' = Append(rx, v) /\ lost' = lost
      <3>1. /\ Count(w, forwarded') = IF v >= w THEN f + 1 ELSE f
            /\ Count(w, rx') = IF v >= w THEN x + 1 ELSE x
        BY <1>5, <2>1, <2>5, CountOfAppend
      <3>2. Count(w, lost') = l
        BY <2>1, <2>5
      <3>3. QED
        BY <2>2, <2>3, <3>1, <3>2
    <2>6. CASE forwarded' = Append(forwarded, v) /\ lost' = Append(lost, v) /\ rx' = rx
      <3>1. /\ Count(w, forwarded') = IF v >= w THEN f + 1 ELSE f
            /\ Count(w, lost') = IF v >= w THEN l + 1 ELSE l
        BY <1>5, <2>1, <2>6, CountOfAppend
      <3>2. Count(w, rx') = x
        BY <2>1, <2>6
      <3>3. QED
        BY <2>2, <2>3, <3>1, <3>2
    <2>7. QED
      BY <1>6, <2>4, <2>5, <2>6
  <1>9. Balanced'
    BY <1>8 DEF Balanced
  <1>10. CountedLeft'
    <2>1. PICK w : w = 2 * minimum + 1
      OBVIOUS
    <2>2. w \in Nat /\ counterTwo \in Nat /\ minimum \in Nat
      BY <1>1, <2>1, Numbers DEF SwitchTyped, Switch!TypeOK
    <2>3. Count(w, forwarded) \in Nat /\ counterTwo <= Count(w, forwarded)
      BY <1>1, <1>5, <2>1, <2>2, CountIsBounded DEF CountedLeft
    <2>4. Count(w, Append(forwarded, v)) = IF v >= w THEN Count(w, forwarded) + 1
                                           ELSE Count(w, forwarded)
      BY <1>5, <2>2, CountOfAppend
    <2>5. counterTwo' <= Count(w, forwarded')
      <3>1. Count(w, forwarded') \in Nat /\ Count(w, forwarded') >= Count(w, forwarded)
        <4>1. CASE forwarded' = forwarded
          BY <2>3, <4>1
        <4>2. CASE forwarded' = Append(forwarded, v)
          BY <2>3, <2>4, <4>2
        <4>3. QED
          BY <1>6, <4>1, <4>2
      <3>2. CASE counterTwo' = counterTwo
        BY <2>2, <2>3, <3>1, <3>2
      <3>3. CASE counterTwo' = counterTwo + 1 /\ Switch!Past(v) /\ ~Switch!Prunes(v)
        <4>1. v >= w
          BY <1>1, <2>1, <3>3, PastIsAbove
        <4>2. Count(w, forwarded') = Count(w, forwarded) + 1
          BY <1>6, <2>4, <3>3, <4>1
        <4>3. QED
          BY <2>2, <2>3, <3>3, <4>2
      <3>4. QED
        BY <1>1, <3>2, <3>3, IngressKeeps
    <2>6. CASE counterTwo' > 0
      <3>1. minimum' = minimum
        BY <1>1, <2>6, IngressKeeps
      <3>2. QED
        BY <2>1, <2>5, <3>1 DEF CountedLeft
    <2>7. CASE ~(counterTwo' > 0)
      <3>1. counterTwo' = 0
        <4>1. N \in Nat /\ counterTwo' \in 0 .. N + 1
          BY <1>2, Numbers DEF Switch!TypeOK
        <4>2. QED
          BY <2>7, <4>1
      <3>2. PICK u, m : m = minimum' /\ u = 2 * m + 1
        OBVIOUS
      <3>3. u \in Nat
        <4>1. m \in Nat
          BY <1>2, <3>2 DEF Switch!TypeOK
        <4>2. u = 2 * m + 1
          BY <3>2
        <4>3. QED
          BY <4>1, <4>2
      <3>4. PICK s : s = forwarded'
        OBVIOUS
      <3>5. Count(u, s) \in Nat
        BY <1>2, <3>3, <3>4, CountIsBounded DEF Switch!TypeOK
      <3>6. QED
        BY <3>1, <3>2, <3>4, <3>5 DEF CountedLeft
    <2>8. QED
      BY <2>6, <2>7
  <1>11. QED
    BY <1>2, <1>3, <1>4, <1>7, <1>9, <1>10 DEF Inv

\* What the master does with the next row.
LEMMA AggregateKeeps ==
  ASSUME Inv, Aggregate
  PROVE  Inv'
  <1>1. PICK v, t : v = Head(rx) /\ t = Tail(rx)
    OBVIOUS
  <1>2. /\ SwitchTyped /\ Learning /\ CountedLeft /\ DroppedLate /\ RingTyped /\ Balanced
        /\ Typed /\ Ranked /\ Filled
        /\ rx # <<>> /\ Master!Update(v) /\ rx' = t
        /\ lost' = lost /\ UNCHANGED <<sent, counter, minimum, counterTwo, forwarded, pruned>>
    BY <1>1 DEF Inv, Aggregate, switchVars
  <1>3. /\ rx \in Seq(Values) /\ lost \in Seq(Values) /\ received \in Seq(Values)
        /\ forwarded \in Seq(Values) /\ v \in Values /\ t \in Seq(Values)
    BY <1>1, <1>2, HeadTailProperties DEF RingTyped, Typed, SwitchTyped, Switch!TypeOK
  <1>4. SwitchTyped' /\ Learning' /\ CountedLeft' /\ DroppedLate'
    BY <1>2 DEF SwitchTyped, Switch!TypeOK, Learning, CountedLeft, DroppedLate, Count, AtLeast
  <1>5. RingTyped'
    BY <1>2, <1>3 DEF RingTyped
  <1>6. Typed' /\ Ranked' /\ Filled'
    BY <1>2, <1>3, UpdateKeeps
  <1>7. ASSUME NEW w \in Nat
        PROVE  Count(w, forwarded') = Count(w, received') + Count(w, rx') + Count(w, lost')
    <2>1. PICK f, r, x, l : /\ f = Count(w, forwarded) /\ r = Count(w, received)
                            /\ x = Count(w, t) /\ l = Count(w, lost)
      OBVIOUS
    <2>2. f \in Nat /\ r \in Nat /\ x \in Nat /\ l \in Nat
      BY <1>3, <2>1, CountIsBounded
    <2>3. f = r + (IF v >= w THEN x + 1 ELSE x) + l
      <3>1. Count(w, rx) = IF v >= w THEN x + 1 ELSE x
        BY <1>1, <1>2, <1>3, <2>1, CountOfTail
      <3>2. QED
        BY <1>2, <2>1, <3>1 DEF Balanced
    <2>4. Count(w, received') = IF v >= w THEN r + 1 ELSE r
      <3>1. received' = Append(received, v)
        BY <1>2 DEF Master!Update
      <3>2. QED
        BY <1>3, <2>1, <3>1, CountOfAppend
    <2>5. Count(w, forwarded') = f /\ Count(w, rx') = x /\ Count(w, lost') = l
      BY <1>2, <2>1
    <2>6. QED
      BY <2>2, <2>3, <2>4, <2>5
  <1>8. Balanced'
    BY <1>7 DEF Balanced
  <1>9. QED
    BY <1>4, <1>5, <1>6, <1>8 DEF Inv

\* It holds from the start.
LEMMA InitInv == Init => Inv
  <1> SUFFICES ASSUME Init PROVE Inv
    OBVIOUS
  <1>1. /\ sent = <<>> /\ counter = 0 /\ minimum = FirstMin /\ counterTwo = 0
        /\ forwarded = <<>> /\ pruned = {} /\ results = <<>> /\ received = <<>>
        /\ rx = <<>> /\ lost = <<>>
    BY DEF Init, Switch!Init, Master!Init
  <1>2. <<>> \in Seq(Values) /\ Len(<<>>) = 0 /\ DOMAIN results = {}
    BY <1>1
  <1>3. SwitchTyped
    BY <1>1, <1>2, Numbers DEF SwitchTyped, Switch!TypeOK
  <1>4. Learning /\ DroppedLate /\ RingTyped /\ Typed
    BY <1>1, <1>2 DEF Learning, DroppedLate, RingTyped, Typed
  <1>5. Filled
    <2>1. Len(received) = 0 /\ Len(results) = 0 /\ N \in Nat
      BY <1>1, <1>2, Numbers
    <2>2. QED
      BY <2>1 DEF Filled
  <1>6. Ranked
    BY <1>2 DEF Ranked
  <1>7. ASSUME NEW w \in Nat PROVE Count(w, <<>>) = 0
    <2>1. PICK s : s = <<>>
      OBVIOUS
    <2>2. s \in Seq(Values) /\ Len(s) = 0
      BY <2>1
    <2>3. Count(w, s) \in Nat /\ Count(w, s) <= 0
      BY <2>2, CountIsBounded
    <2>4. Count(w, s) = 0
      BY <2>3
    <2>5. QED
      BY <2>1, <2>4, Zenon
  <1>8. Balanced
    BY <1>1, <1>7 DEF Balanced
  <1>9. CountedLeft
    <2>1. PICK w : w = 2 * minimum + 1
      OBVIOUS
    <2>2. w \in Nat
      BY <1>1, <2>1, Numbers
    <2>3. Count(w, forwarded) = 0
      BY <1>1, <1>7, <2>2
    <2>4. QED
      BY <1>1, <2>1, <2>3 DEF CountedLeft
  <1>10. QED
    BY <1>3, <1>4, <1>5, <1>6, <1>8, <1>9 DEF Inv

LEMMA Invariance == Spec => []Inv
  <1>1. Inv /\ [Next]_vars => Inv'
    <2> SUFFICES ASSUME Inv, [Next]_vars PROVE Inv'
      OBVIOUS
    <2>1. CASE \E v \in Values : Send(v)
      BY <2>1, SendKeeps
    <2>2. CASE Aggregate
      BY <2>2, AggregateKeeps
    <2>3. CASE UNCHANGED vars
      <3>1. /\ UNCHANGED <<sent, counter, minimum, counterTwo, forwarded, pruned>>
            /\ UNCHANGED <<rx, lost, results, received>>
        BY <2>3 DEF vars, switchVars, ringVars, masterVars
      <3>2. SwitchTyped' /\ Typed' /\ RingTyped'
        BY <3>1 DEF Inv, SwitchTyped, Switch!TypeOK, Typed, RingTyped
      <3>3. Learning' /\ CountedLeft' /\ DroppedLate' /\ Balanced'
        BY <3>1 DEF Inv, Learning, CountedLeft, DroppedLate, Balanced, Count, AtLeast
      <3>4. Ranked' /\ Filled'
        BY <3>1 DEF Inv, Ranked, Filled, Count, AtLeast
      <3>5. QED
        BY <3>2, <3>3, <3>4 DEF Inv
    <2>4. QED
      BY <2>1, <2>2, <2>3 DEF Next
  <1>2. QED
    BY <1>1, InitInv, PTL DEF Spec

\* Registers, counters, array and histories keep to their types.
THEOREM Typing == Spec => []TypeOK
  <1>1. Inv => TypeOK
    BY DEF Inv, SwitchTyped, RingTyped, Typed, TypeOK, Master!TypeOK
  <1>2. QED
    BY <1>1, Invariance, PTL

-----------------------------------------------------------------------------
\* The instance of the master's module has its own name for Cardinality.
LEMMA MasterCardinality ==
  ASSUME NEW S
  PROVE  Master!Cardinality(S) = Cardinality(S)
  BY DEF Master!Cardinality, Cardinality

\* The counts of the specification in terms of Count.
LEMMA TimesAndAbove ==
  ASSUME NEW s \in Seq(Values), NEW v \in Nat
  PROVE  /\ Master!Above(v, s) = Count(v + 1, s)
         /\ Master!Times(v, s) = Count(v, s) - Count(v + 1, s)
         /\ Count(v + 1, s) <= Count(v, s)
  <1>1. \A i \in DOMAIN s : s[i] \in Nat
    BY LenProperties, ElementOfSeq, Numbers
  <1>2. {i \in DOMAIN s : s[i] > v} = AtLeast(v + 1, s)
    BY <1>1 DEF AtLeast
  <1>3. {i \in DOMAIN s : s[i] = v} = AtLeast(v, s) \ AtLeast(v + 1, s)
    BY <1>1 DEF AtLeast
  <1>4. AtLeast(v + 1, s) \subseteq AtLeast(v, s)
    BY <1>1 DEF AtLeast
  <1>5. IsFiniteSet(AtLeast(v, s)) /\ IsFiniteSet(AtLeast(v + 1, s)) /\ v + 1 \in Nat
    BY CountIsBounded
  <1>6. /\ Cardinality(AtLeast(v + 1, s)) <= Cardinality(AtLeast(v, s))
    BY <1>4, <1>5, FS_Subset
  <1>7. AtLeast(v, s) \cap AtLeast(v + 1, s) = AtLeast(v + 1, s)
    BY <1>4
  <1>8. Cardinality(AtLeast(v, s) \ AtLeast(v + 1, s))
          = Cardinality(AtLeast(v, s)) - Cardinality(AtLeast(v + 1, s))
    BY <1>5, <1>7, FS_Difference
  <1>9. Master!Above(v, s) = Cardinality({i \in DOMAIN s : s[i] > v})
    BY MasterCardinality DEF Master!Above
  <1>10. Master!Times(v, s) = Cardinality({i \in DOMAIN s : s[i] = v})
    BY MasterCardinality DEF Master!Times
  <1>11. QED
    BY <1>2, <1>3, <1>6, <1>8, <1>9, <1>10 DEF Count

\* The array counts as the rows received do, up to N.
LEMMA CountsAgree ==
  ASSUME Typed, Ranked, Filled, NEW w \in Nat
  PROVE  Count(w, results) = IF Count(w, received) < N THEN Count(w, received) ELSE N
  <1>1. PICK len, c, n, m : /\ len = Len(results) /\ c = Count(w, received)
                            /\ n = Len(received)
                            /\ m = IF c < len THEN c ELSE len
    OBVIOUS
  <1>2. /\ len \in Nat /\ c \in Nat /\ n \in Nat /\ c <= n /\ N \in Nat
        /\ DOMAIN results = 1 .. len /\ len = IF n < N THEN n ELSE N
    BY <1>1, Numbers, CountIsBounded, LenProperties DEF Typed, Filled
  <1>3. m \in Nat /\ m <= len /\ m <= c /\ (m = c \/ m = len)
        /\ m = IF c < N THEN c ELSE N
    BY <1>1, <1>2
  <1>4. \A i \in 1 .. len : results[i] >= w <=> i <= c
    BY <1>1, <1>2 DEF Ranked
  <1>5. AtLeast(w, results) = 1 .. m
    <2>1. \A i \in 1 .. len : i <= c <=> i <= m
      BY <1>2, <1>3
    <2>2. \A i \in 1 .. len : i <= m <=> i \in 1 .. m
      BY <1>2, <1>3
    <2>3. 1 .. m \subseteq 1 .. len
      BY <1>2, <1>3
    <2>4. QED
      BY <1>2, <1>4, <2>1, <2>2, <2>3 DEF AtLeast
  <1>6. Cardinality(1 .. m) = m
    BY <1>3, UpTo
  <1>7. QED
    BY <1>1, <1>3, <1>5, <1>6 DEF Count

\* NothingDroppedTooEarly: when a row has been dropped, the master's array is
\* full of rows above the cutoff the drop was decided by, or the rows above it
\* that are on their way or lost at the ring make up for the places that are
\* not, with one to spare (cheetah_topn.p4:110-127).
THEOREM NothingDroppedTooEarly == Spec => []AnswerAboveCutoff
  <1>1. Inv => AnswerAboveCutoff
    <2> DEFINE cut == 2 * minimum
               w == cut + 1
    <2> SUFFICES ASSUME Inv, pruned # {}
                 PROVE  \/ Master!Above(cut, results) = N
                        \/ Master!Above(cut, results)
                             + (Master!Above(cut, rx) + Master!Above(cut, lost)) > N
      BY DEF AnswerAboveCutoff
    <2>1. /\ cut \in Nat /\ w \in Nat /\ N \in Nat
          /\ counterTwo \in Nat /\ counterTwo > N
      BY Numbers DEF Inv, SwitchTyped, Switch!TypeOK, DroppedLate
    <2>2. /\ results \in Seq(Values) /\ received \in Seq(Values)
          /\ rx \in Seq(Values) /\ lost \in Seq(Values) /\ forwarded \in Seq(Values)
          /\ Typed /\ Ranked /\ Filled
      BY DEF Inv, Typed, RingTyped, SwitchTyped, Switch!TypeOK
    <2>3. counterTwo <= Count(w, forwarded)
      BY DEF Inv, CountedLeft
    <2> HIDE DEF cut, w
    <2>4. w = cut + 1
      BY DEF w
    <2>5. PICK f, r, x, l : /\ f = Count(w, forwarded) /\ r = Count(w, received)
                            /\ x = Count(w, rx) /\ l = Count(w, lost)
      OBVIOUS
    <2>6. /\ f \in Nat /\ r \in Nat /\ x \in Nat /\ l \in Nat
          /\ f = r + x + l
      BY <2>1, <2>2, <2>5, CountIsBounded DEF Inv, Balanced
    <2>7. /\ Master!Above(cut, results) = Count(w, results)
          /\ Master!Above(cut, rx) = x /\ Master!Above(cut, lost) = l
      BY <2>1, <2>2, <2>4, <2>5, TimesAndAbove
    <2>8. Count(w, results) = IF r < N THEN r ELSE N
      BY <2>1, <2>2, <2>5, CountsAgree
    <2>9. r + x + l > N
      BY <2>1, <2>3, <2>5, <2>6
    <2>10. QED
      BY <2>1, <2>6, <2>7, <2>8, <2>9
  <1>2. QED
    BY <1>1, Invariance, PTL

\* MasterIsExact: whatever rows reach the master, in whatever order, the array
\* holds the N greatest of them, each as often as it came, in descending order
\* (cheetah_aggregate_processing.c:34-71).
THEOREM MasterIsExact == Spec => []MasterExact
  <1>1. ASSUME Inv PROVE Master!Sorted
    <2> SUFFICES ASSUME NEW i \in DOMAIN results, NEW j \in DOMAIN results, i < j
                 PROVE  results[i] >= results[j]
      BY DEF Master!Sorted
    <2>1. PICK w : w = results[j]
      OBVIOUS
    <2>2. w \in Nat /\ i \in Nat /\ j \in Nat
      <3>1. results \in Seq(Values) /\ Values \subseteq Nat
        BY <1>1, Numbers DEF Inv, Typed
      <3>2. Len(results) \in Nat /\ DOMAIN results = 1 .. Len(results)
        BY <3>1, LenProperties
      <3>3. results[j] \in Values
        BY <3>1, <3>2, ElementOfSeq
      <3>4. PICK len : len = Len(results)
        OBVIOUS
      <3>5. i \in 1 .. len /\ j \in 1 .. len /\ len \in Nat
        BY <3>2, <3>4
      <3>6. i \in Nat /\ j \in Nat
        BY <3>5
      <3>7. w \in Nat
        BY <2>1, <3>1, <3>3
      <3>8. QED
        BY <3>6, <3>7
    <2>3. PICK c : c = Count(w, received)
      OBVIOUS
    <2>4. c \in Nat
      BY <1>1, <2>2, <2>3, CountIsBounded DEF Inv, Typed
    <2>5. j <= c
      BY <1>1, <2>1, <2>2, <2>3 DEF Inv, Ranked
    <2>6. i <= c
      BY <2>2, <2>4, <2>5
    <2>7. QED
      BY <1>1, <2>1, <2>2, <2>3, <2>6 DEF Inv, Ranked
  <1>2. ASSUME Inv PROVE Master!IsTopNOf(results, received)
    <2> SUFFICES ASSUME NEW v \in Values
                 PROVE  Master!Times(v, results) =
                          IF Master!Above(v, received) >= N THEN 0
                          ELSE IF Master!Times(v, received) <= N - Master!Above(v, received)
                               THEN Master!Times(v, received)
                          ELSE N - Master!Above(v, received)
      BY DEF Master!IsTopNOf
    <2>1. PICK c, d, x, y : /\ c = Count(v, received) /\ d = Count(v + 1, received)
                            /\ x = Count(v, results) /\ y = Count(v + 1, results)
      OBVIOUS
    <2>2. v \in Nat /\ v + 1 \in Nat /\ N \in Nat /\ Typed /\ Ranked /\ Filled
      BY <1>2, Numbers DEF Inv
    <2>3. c \in Nat /\ d \in Nat
      BY <2>1, <2>2, CountIsBounded DEF Typed
    <2>4. /\ x = IF c < N THEN c ELSE N
          /\ y = IF d < N THEN d ELSE N
      BY <2>1, <2>2, CountsAgree
    <2>5. /\ Master!Above(v, received) = d /\ Master!Times(v, received) = c - d
          /\ d <= c
      BY <2>1, <2>2, TimesAndAbove DEF Typed
    <2>6. Master!Times(v, results) = x - y
      BY <2>1, <2>2, TimesAndAbove DEF Typed
    <2>7. x - y = IF d >= N THEN 0 ELSE IF c - d <= N - d THEN c - d ELSE N - d
      BY <2>2, <2>3, <2>4, <2>5
    <2>8. QED
      BY <2>5, <2>6, <2>7
  <1>3. Inv => MasterExact
    BY <1>1, <1>2 DEF MasterExact, Master!TopNExact
  <1>4. QED
    BY <1>3, Invariance, PTL
=============================================================================
