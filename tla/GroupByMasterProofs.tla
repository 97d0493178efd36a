------------------------ MODULE GroupByMasterProofs ------------------------
(***************************************************************************)
(* The master's GROUP BY keeps its list and its chains in step, and        *)
(* answers as GroupByAnswer does until its array is full, for all keys,    *)
(* values, hashes and sizes.                                               *)
(*                                                                         *)
(* The argument: the walk along a chain decides for the whole list whether *)
(* a key is new, because every entry is in the chain of its key's hash     *)
(* (ListAndChainsAgree).  So no key is listed twice, and the array is      *)
(* overrun only when more keys than slots have been seen.                  *)
(***************************************************************************)
EXTENDS GroupByMaster, FiniteSetTheorems, SequenceTheorems, TLAPS

\* The keys of the rows received.
SeenKeys == {r.key : r \in received}

\* No two entries have one key.
Unique ==
  \A m, n \in DOMAIN ptrArray : ptrArray[m].key = ptrArray[n].key => m = n

\* Every entry has a key that was received.
FromRows == \A n \in DOMAIN ptrArray : ptrArray[n].key \in SeenKeys

Inv ==
  /\ TypeOK
  /\ IsFiniteSet(SeenKeys)
  /\ Unique
  /\ FromRows
  /\ ListAndChainsAgree

-----------------------------------------------------------------------------
\* Unless the walk finds an entry, the list has none of the key.
LEMMA WalkDecides ==
  ASSUME Inv, ~overrun, NEW k \in Keys, Entry(k) = {}
  PROVE  \A n \in DOMAIN ptrArray : ptrArray[n].key # k
  BY DEF Inv, ListAndChainsAgree, Entry

\* An entry that the walk finds is the key's one entry.
LEMMA WalkFinds ==
  ASSUME Inv, ~overrun, NEW k \in Keys, NEW n \in Entry(k)
  PROVE  /\ chain[HVal[k]][n] \in DOMAIN ptrArray
         /\ ptrArray[chain[HVal[k]][n]].key = k
         /\ EntryOf(k) = {chain[HVal[k]][n]}
  <1>1. HVal[k] \in HVals /\ n \in DOMAIN chain[HVal[k]]
    BY MasterAssumption DEF Entry
  <1>2. chain[HVal[k]][n] \in DOMAIN ptrArray /\ ptrArray[chain[HVal[k]][n]].key = k
    BY <1>1 DEF Inv, ListAndChainsAgree, Entry
  <1>3. QED
    BY <1>2 DEF Inv, Unique, EntryOf

\* What a row adds to the history.
LEMMA SeenGrows ==
  ASSUME Inv, NEW k \in Keys, NEW v \in Values,
         received' = received \union {[key |-> k, value |-> v]}
  PROVE  /\ SeenKeys' = SeenKeys \union {k}
         /\ received' \subseteq Row
         /\ IsFiniteSet(SeenKeys')
  <1>1. SeenKeys' = SeenKeys \union {k}
    <2> DEFINE r == [key |-> k, value |-> v]
    <2>1. r.key = k
      OBVIOUS
    <2> HIDE DEF r
    <2>2. QED
      BY <2>1 DEF SeenKeys, r
  <1>2. QED
    BY <1>1, FS_AddElement DEF Inv, TypeOK, Row

\* A new group's entry, when there is room: the list stays without repetition
\* and made of received keys.
LEMMA Recorded ==
  ASSUME Inv, ~overrun, NEW k \in Keys, NEW v \in Values, Entry(k) = {},
         Len(ptrArray) < Size, Record(k, v),
         received' = received \union {[key |-> k, value |-> v]}
  PROVE  /\ ptrArray' \in Seq(Row)
         /\ DOMAIN ptrArray' = DOMAIN ptrArray \union {Len(ptrArray) + 1}
         /\ Len(ptrArray) + 1 \notin DOMAIN ptrArray
         /\ \A n \in DOMAIN ptrArray : ptrArray'[n] = ptrArray[n]
         /\ ptrArray'[Len(ptrArray) + 1].key = k
         /\ ptrArray'[Len(ptrArray) + 1].value = v
         /\ Unique' /\ FromRows'
         /\ overrun' = FALSE
  <1> DEFINE r == [key |-> k, value |-> v]
  <1>1. r \in Row /\ ptrArray \in Seq(Row)
    BY DEF Row, Inv, TypeOK
  <1>2. ptrArray' = Append(ptrArray, r) /\ overrun' = FALSE
    BY DEF Record, Inv, TypeOK
  <1>3. /\ ptrArray' \in Seq(Row)
        /\ DOMAIN ptrArray' = DOMAIN ptrArray \union {Len(ptrArray) + 1}
        /\ Len(ptrArray) + 1 \notin DOMAIN ptrArray
        /\ \A n \in DOMAIN ptrArray : ptrArray'[n] = ptrArray[n]
        /\ ptrArray'[Len(ptrArray) + 1] = r
    BY <1>1, <1>2, AppendProperties, LenProperties
  <1>4. r.key = k /\ r.value = v
    OBVIOUS
  <1>5. Unique'
    BY <1>3, <1>4, WalkDecides DEF Unique, Inv
  <1>6. FromRows'
    BY <1>3, <1>4 DEF FromRows, SeenKeys, Inv
  <1>7. QED
    <2> HIDE DEF r
    <2>1. QED
      BY <1>2, <1>3, <1>4, <1>5, <1>6

\* When there is no room, more keys than slots have been received.
LEMMA OverrunNeedsKeys ==
  ASSUME Inv, ~overrun, NEW k \in Keys, NEW v \in Values, Entry(k) = {},
         Len(ptrArray) >= Size,
         received' = received \union {[key |-> k, value |-> v]}
  PROVE  Cardinality(SeenKeys') > Size
  <1> DEFINE S == 1 .. Len(ptrArray) + 1
             f == [n \in S |-> IF n \in DOMAIN ptrArray THEN ptrArray[n].key ELSE k]
  <1>1. ptrArray \in Seq(Row) /\ Len(ptrArray) \in Nat /\ DOMAIN ptrArray = 1 .. Len(ptrArray)
    BY LenProperties DEF Inv, TypeOK
  <1>2. IsFiniteSet(S) /\ Cardinality(S) = Len(ptrArray) + 1
    BY <1>1, FS_Interval
  <1>3. SeenKeys' = SeenKeys \union {k}
    BY SeenGrows
  <1>4. IsFiniteSet(SeenKeys') /\ Cardinality(SeenKeys') \in Nat
    BY <1>3, FS_AddElement, FS_CardinalityType DEF Inv
  <1>5. f \in [S -> SeenKeys']
    BY <1>1, <1>3 DEF Inv, FromRows
  <1>6. \A x, y \in S : x # y => f[x] # f[y]
    BY <1>1, WalkDecides DEF Inv, Unique
  <1>7. ~(Cardinality(SeenKeys') < Cardinality(S))
    <2> SUFFICES ASSUME Cardinality(SeenKeys') < Cardinality(S) PROVE FALSE
      OBVIOUS
    <2> HIDE DEF f, S
    <2>1. \E x, y \in S : x # y /\ f[x] = f[y]
      BY <1>2, <1>4, <1>5, FS_PigeonHole
    <2>2. QED
      BY <1>6, <2>1
  <1>8. QED
    BY <1>1, <1>2, <1>4, <1>7, MasterAssumption

-----------------------------------------------------------------------------
\* A new group: recorded in the list, and linked at the end of its hash's
\* chain, which StartChain finds empty.
LEMMA NewGroupKeeps ==
  ASSUME Inv, ~overrun, NEW k \in Keys, NEW v \in Values,
         Entry(k) = {}, Record(k, v),
         chain' = [chain EXCEPT ![HVal[k]] = Append(@, Len(ptrArray) + 1)],
         received' = received \union {[key |-> k, value |-> v]}
  PROVE  Inv' /\ (overrun' => Cardinality(SeenKeys') > Size)
  <1> DEFINE h == HVal[k]
             new == Len(ptrArray) + 1
  <1>1. /\ ptrArray \in Seq(Row) /\ Len(ptrArray) \in Nat
        /\ DOMAIN ptrArray = 1 .. Len(ptrArray)
        /\ h \in HVals /\ chain[h] \in Seq(Nat)
    BY LenProperties, MasterAssumption DEF Inv, TypeOK
  <1>2. /\ chain'[h] \in Seq(Nat)
        /\ DOMAIN chain'[h] = DOMAIN chain[h] \union {Len(chain[h]) + 1}
        /\ Len(chain[h]) + 1 \notin DOMAIN chain[h]
        /\ chain'[h][Len(chain[h]) + 1] = new
        /\ \A m \in DOMAIN chain[h] : chain'[h][m] = chain[h][m]
    <2>1. chain'[h] = Append(chain[h], new)
      BY <1>1 DEF Inv, TypeOK
    <2>2. new \in Nat
      BY <1>1
    <2> HIDE DEF new, h
    <2>3. QED
      BY <1>1, <2>1, <2>2, AppendProperties, LenProperties
  <1>3. /\ chain' \in [HVals -> Seq(Nat)]
        /\ \A g \in HVals \ {h} : chain'[g] = chain[g]
    BY <1>1, <1>2 DEF Inv, TypeOK
  <1>4. received' \subseteq Row /\ IsFiniteSet(SeenKeys')
    BY SeenGrows
  <1>5. CASE Len(ptrArray) < Size
    <2>1. /\ ptrArray' \in Seq(Row) /\ Unique' /\ FromRows' /\ overrun' = FALSE
          /\ DOMAIN ptrArray' = DOMAIN ptrArray \union {new}
          /\ new \notin DOMAIN ptrArray
          /\ \A n \in DOMAIN ptrArray : ptrArray'[n] = ptrArray[n]
          /\ ptrArray'[new].key = k
      BY <1>5, Recorded
    <2> HIDE DEF new, h
    <2>2. ASSUME NEW n \in DOMAIN ptrArray'
          PROVE  \E m \in DOMAIN chain'[HVal[ptrArray'[n].key]] :
                   chain'[HVal[ptrArray'[n].key]][m] = n
      <3>1. CASE n = new
        BY <1>2, <2>1, <3>1 DEF h
      <3>2. CASE n \in DOMAIN ptrArray
        <4>1. HVal[ptrArray[n].key] \in HVals
          <5>1. ptrArray[n] \in Row
            BY <1>1, <3>2, ElementOfSeq
          <5>2. QED
            BY <5>1, MasterAssumption DEF Row
        <4>2. PICK m \in DOMAIN chain[HVal[ptrArray[n].key]] :
                chain[HVal[ptrArray[n].key]][m] = n
          BY <3>2 DEF Inv, ListAndChainsAgree
        <4>3. m \in DOMAIN chain'[HVal[ptrArray[n].key]]
              /\ chain'[HVal[ptrArray[n].key]][m] = n
          <5>1. CASE HVal[ptrArray[n].key] = h
            BY <1>2, <4>2, <5>1
          <5>2. CASE HVal[ptrArray[n].key] # h
            BY <1>3, <4>1, <4>2, <5>2
          <5>3. QED
            BY <5>1, <5>2
        <4>4. ptrArray'[n] = ptrArray[n]
          BY <2>1, <3>2
        <4>5. QED
          BY <4>3, <4>4
      <3>3. QED
        BY <2>1, <3>1, <3>2
    <2>3. ASSUME NEW g \in HVals, NEW m \in DOMAIN chain'[g]
          PROVE  /\ chain'[g][m] \in DOMAIN ptrArray'
                 /\ HVal[ptrArray'[chain'[g][m]].key] = g
                 /\ \A l \in DOMAIN chain'[g] : chain'[g][l] = chain'[g][m] => l = m
      <3>1. CASE g # h
        BY <1>3, <2>1, <3>1 DEF Inv, ListAndChainsAgree
      <3>2. CASE g = h /\ m \in DOMAIN chain[h]
        <4>1. /\ chain[h][m] \in DOMAIN ptrArray
              /\ HVal[ptrArray[chain[h][m]].key] = h
              /\ \A l \in DOMAIN chain[h] : chain[h][l] = chain[h][m] => l = m
          BY <1>1, <3>2 DEF Inv, ListAndChainsAgree
        <4>2. chain'[g][m] = chain[h][m] /\ chain'[g][m] # new
          BY <1>2, <2>1, <3>2, <4>1
        <4>3. /\ chain'[g][m] \in DOMAIN ptrArray'
              /\ HVal[ptrArray'[chain'[g][m]].key] = g
          BY <2>1, <3>2, <4>1, <4>2
        <4>4. \A l \in DOMAIN chain'[g] : chain'[g][l] = chain'[g][m] => l = m
          BY <1>2, <3>2, <4>1, <4>2
        <4>5. QED
          BY <4>3, <4>4
      <3>3. CASE g = h /\ m = Len(chain[h]) + 1
        <4>1. HVal[ptrArray'[chain'[g][m]].key] = g /\ chain'[g][m] \in DOMAIN ptrArray'
          BY <1>2, <2>1, <3>3 DEF h
        <4>2. \A l \in DOMAIN chain[h] : chain[h][l] \in DOMAIN ptrArray
          BY <1>1 DEF Inv, ListAndChainsAgree
        <4>3. chain'[g][m] = new
          BY <1>2, <3>3
        <4>4. \A l \in DOMAIN chain[h] : chain'[g][l] # new
          BY <1>2, <2>1, <3>3, <4>2
        <4>5. \A l \in DOMAIN chain'[g] : chain'[g][l] = chain'[g][m] => l = m
          BY <1>2, <3>3, <4>3, <4>4
        <4>6. QED
          BY <4>1, <4>5
      <3>4. QED
        BY <1>2, <3>1, <3>2, <3>3
    <2>4. ListAndChainsAgree'
      BY <2>2, <2>3 DEF ListAndChainsAgree
    <2>5. QED
      BY <1>3, <1>4, <2>1, <2>4 DEF Inv, TypeOK
  <1>6. CASE Len(ptrArray) >= Size
    <2>1. overrun' = TRUE /\ UNCHANGED ptrArray
      BY <1>1, <1>6, MasterAssumption DEF Record
    <2>2. Unique' /\ ListAndChainsAgree'
      BY <2>1 DEF Inv, Unique, ListAndChainsAgree
    <2>3. FromRows'
      BY <2>1, SeenGrows DEF Inv, FromRows
    <2>4. Cardinality(SeenKeys') > Size
      BY <1>6, OverrunNeedsKeys
    <2>5. QED
      BY <1>1, <1>3, <1>4, <2>1, <2>2, <2>3, <2>4 DEF Inv, TypeOK
  <1>7. QED
    BY <1>1, <1>5, <1>6, MasterAssumption

\* One entry of the list takes the greater value, and nothing moves.
RaisedAt(i, k, v) ==
  /\ ptrArray[i].key = k
  /\ ptrArray'[i].value = IF ptrArray[i].value < v THEN v ELSE ptrArray[i].value
  /\ \A m \in DOMAIN ptrArray : ptrArray'[m].key = ptrArray[m].key
  /\ \A m \in DOMAIN ptrArray : m # i => ptrArray'[m] = ptrArray[m]

\* A row of a known group.
LEMMA RaiseKeeps ==
  ASSUME Inv, ~overrun, NEW k \in Keys, NEW v \in Values, Raise(k, v),
         received' = received \union {[key |-> k, value |-> v]}
  PROVE  /\ Inv'
         /\ overrun' = FALSE
         /\ DOMAIN ptrArray' = DOMAIN ptrArray
         /\ \E i \in DOMAIN ptrArray : RaisedAt(i, k, v)
  <1>1. PICK n \in Entry(k) :
          ptrArray' = [ptrArray EXCEPT ![chain[HVal[k]][n]].value = IF @ < v THEN v ELSE @]
    BY DEF Raise
  <1> DEFINE i == chain[HVal[k]][n]
             w == IF ptrArray[i].value < v THEN v ELSE ptrArray[i].value
             e == [ptrArray[i] EXCEPT !.value = w]
  <1>2. i \in DOMAIN ptrArray /\ ptrArray[i].key = k
    BY WalkFinds
  <1>3. /\ ptrArray \in Seq(Row) /\ i \in 1 .. Len(ptrArray)
        /\ DOMAIN ptrArray = 1 .. Len(ptrArray)
    BY <1>2, LenProperties DEF Inv, TypeOK
  <1>4. ptrArray[i] \in Row
    BY <1>3, ElementOfSeq
  <1>5. e \in Row /\ e.key = k /\ e.value = w
    BY <1>2, <1>4 DEF Row
  <1>6. ptrArray' = [ptrArray EXCEPT ![i] = e]
    BY <1>1
  <1>7. /\ ptrArray' \in Seq(Row)
        /\ DOMAIN ptrArray' = DOMAIN ptrArray
        /\ ptrArray'[i] = e
        /\ \A m \in DOMAIN ptrArray : m # i => ptrArray'[m] = ptrArray[m]
    <2> HIDE DEF e, i
    <2>1. QED
      BY <1>3, <1>5, <1>6, ExceptSeq, LenProperties
  <1>8. \A m \in DOMAIN ptrArray : ptrArray'[m].key = ptrArray[m].key
    BY <1>2, <1>5, <1>7
  <1>9. UNCHANGED <<chain, overrun>>
    BY DEF Raise
  <1>10. Inv'
    <2> HIDE DEF e, i
    <2>1. TypeOK' /\ IsFiniteSet(SeenKeys')
      BY <1>7, <1>9, SeenGrows DEF Inv, TypeOK
    <2>2. Unique'
      BY <1>7, <1>8 DEF Inv, Unique
    <2>3. FromRows'
      BY <1>7, <1>8, SeenGrows DEF Inv, FromRows
    <2>4. ListAndChainsAgree'
      <3>1. \A m \in DOMAIN ptrArray : \E l \in DOMAIN chain[HVal[ptrArray[m].key]] :
              chain[HVal[ptrArray[m].key]][l] = m
        BY DEF Inv, ListAndChainsAgree
      <3>2. \A h \in HVals : \A m \in DOMAIN chain[h] :
              /\ chain[h][m] \in DOMAIN ptrArray
              /\ HVal[ptrArray[chain[h][m]].key] = h
              /\ \A l \in DOMAIN chain[h] : chain[h][l] = chain[h][m] => l = m
        BY DEF Inv, ListAndChainsAgree
      <3>3. \A h \in HVals : \A m \in DOMAIN chain[h] :
              HVal[ptrArray'[chain[h][m]].key] = h
        BY <1>8, <3>2
      <3>4. DOMAIN ptrArray' = DOMAIN ptrArray /\ chain' = chain
        BY <1>7, <1>8, <1>9
      <3>5. \A m \in DOMAIN ptrArray : ptrArray'[m].key = ptrArray[m].key
        BY <1>8
      <3>6. \A m \in DOMAIN ptrArray' : \E l \in DOMAIN chain'[HVal[ptrArray'[m].key]] :
              chain'[HVal[ptrArray'[m].key]][l] = m
        BY <3>1, <3>4, <3>5
      <3>7. QED
        BY <3>2, <3>3, <3>4, <3>6 DEF ListAndChainsAgree
    <2>5. QED
      BY <2>1, <2>2, <2>3, <2>4 DEF Inv
  <1>11. QED
    <2>1. \A m \in DOMAIN ptrArray : m # i => ptrArray'[m] = ptrArray[m]
      BY <1>7
    <2>2. ptrArray'[i].value = IF ptrArray[i].value < v THEN v ELSE ptrArray[i].value
      BY <1>5, <1>7
    <2>3. overrun' = FALSE
      BY <1>9
    <2> HIDE DEF i, e, w
    <2>4. RaisedAt(i, k, v)
      BY <1>2, <1>8, <2>1, <2>2 DEF RaisedAt
    <2>5. QED
      BY <1>2, <1>7, <1>10, <2>3, <2>4

-----------------------------------------------------------------------------
\* The two paths to a new group have one effect on the chains.
LEMMA NewGroup ==
  ASSUME Inv, NEW k \in Keys, NEW v \in Values,
         StartChain(k, v) \/ ExtendChain(k, v)
  PROVE  /\ Entry(k) = {}
         /\ Record(k, v)
         /\ chain' = [chain EXCEPT ![HVal[k]] = Append(@, Len(ptrArray) + 1)]
  <1>1. CASE StartChain(k, v)
    <2>1. chain[HVal[k]] = <<>>
      BY <1>1 DEF StartChain, Found
    <2>2. Append(chain[HVal[k]], Len(ptrArray) + 1) = <<Len(ptrArray) + 1>>
      BY <2>1
    <2>3. Entry(k) = {}
      BY <2>1 DEF Entry
    <2>4. QED
      BY <1>1, <2>2, <2>3 DEF StartChain
  <1>2. CASE ExtendChain(k, v)
    BY <1>2 DEF ExtendChain
  <1>3. QED
    BY <1>1, <1>2

\* Every row keeps the invariant, and only a key too many sets overrun.
LEMMA UpdateKeeps ==
  ASSUME Inv, NEW k \in Keys, NEW v \in Values, Update(k, v)
  PROVE  Inv' /\ (overrun' => Cardinality(SeenKeys') > Size)
  <1>1. ~overrun /\ received' = received \union {[key |-> k, value |-> v]}
    BY DEF Update
  <1>2. CASE StartChain(k, v) \/ ExtendChain(k, v)
    BY <1>1, <1>2, NewGroup, NewGroupKeeps
  <1>3. CASE Raise(k, v)
    BY <1>1, <1>3, RaiseKeeps
  <1>4. QED
    BY <1>2, <1>3 DEF Update

LEMMA Invariance == Spec => []Inv
  <1>1. Init => Inv
    <2> SUFFICES ASSUME Init PROVE Inv
      OBVIOUS
    <2>1. ptrArray \in Seq(Row) /\ DOMAIN ptrArray = {}
      BY EmptySeq DEF Init
    <2>2. chain \in [HVals -> Seq(Nat)] /\ \A h \in HVals : DOMAIN chain[h] = {}
      BY EmptySeq DEF Init
    <2>3. SeenKeys = {} /\ IsFiniteSet(SeenKeys)
      BY FS_EmptySet DEF Init, SeenKeys
    <2>4. TypeOK
      BY <2>1, <2>2 DEF Init, TypeOK
    <2>5. QED
      BY <2>1, <2>2, <2>3, <2>4 DEF Inv, Unique, FromRows, ListAndChainsAgree
  <1>2. Inv /\ [Next]_vars => Inv'
    <2>1. Inv /\ Next => Inv'
      BY UpdateKeeps DEF Next
    <2>2. Inv /\ UNCHANGED vars => Inv'
      BY DEF vars, Inv, TypeOK, SeenKeys, Unique, FromRows, ListAndChainsAgree
    <2>3. QED
      BY <2>1, <2>2
  <1>3. QED
    BY <1>1, <1>2, PTL DEF Spec

\* The list holds rows, the chains indices.
THEOREM Typing == Spec => []TypeOK
  <1>1. Inv => TypeOK
    BY DEF Inv
  <1>2. QED
    BY <1>1, Invariance, PTL

\* Every entry is linked in its chain, and nothing else is.
THEOREM ChainsMatchList == Spec => []ListAndChainsAgree
  <1>1. Inv => ListAndChainsAgree
    BY DEF Inv
  <1>2. QED
    BY <1>1, Invariance, PTL

\* No key is printed twice.
THEOREM EveryKeyOnce == Spec => []OneGroupPerKey
  <1>1. Inv => OneGroupPerKey
    <2> SUFFICES ASSUME Inv, NEW k \in Keys PROVE Cardinality(EntryOf(k)) <= 1
      BY DEF OneGroupPerKey
    <2>1. CASE EntryOf(k) = {}
      <3>1. Cardinality(EntryOf(k)) = 0
        BY <2>1, FS_EmptySet
      <3>2. QED
        BY <3>1
    <2>2. CASE EntryOf(k) # {}
      <3>1. PICK n \in EntryOf(k) : TRUE
        BY <2>2
      <3>2. \A m \in EntryOf(k) : m = n
        BY <3>1 DEF EntryOf, Inv, Unique
      <3>3. EntryOf(k) = {n}
        BY <3>1, <3>2
      <3>4. Cardinality(EntryOf(k)) = 1
        BY <3>3, FS_Singleton, Zenon
      <3>5. QED
        BY <3>4
    <2>3. QED
      BY <2>1, <2>2
  <1>2. QED
    BY <1>1, Invariance, PTL

\* The array is overrun only by more keys than it has slots.
THEOREM OverrunIsByKeys == Spec => []OverrunOnlyBeyondSize
  <1> DEFINE Goal == overrun => Cardinality(SeenKeys) > Size
  <1>1. Init => Goal
    BY DEF Init
  <1>2. Inv /\ Goal /\ [Next]_vars => Goal'
    <2>1. Inv /\ Next => Goal'
      BY UpdateKeeps DEF Next
    <2>2. Goal /\ UNCHANGED vars => Goal'
      BY DEF vars, SeenKeys
    <2>3. QED
      BY <2>1, <2>2
  <1>3. Goal => OverrunOnlyBeyondSize
    BY DEF OverrunOnlyBeyondSize, SeenKeys
  <1>4. QED
    BY <1>1, <1>2, <1>3, Invariance, PTL DEF Spec

-----------------------------------------------------------------------------
\* What the printed answer is for a key with an entry, and for one without.
LEMMA AnswerAt ==
  ASSUME Unique
  PROVE  /\ \A n \in DOMAIN ptrArray :
              ptrArray[n].key \in Keys => Answer[ptrArray[n].key] = ptrArray[n].value
         /\ \A k \in Keys :
              (\A n \in DOMAIN ptrArray : ptrArray[n].key # k) => Answer[k] = None
  <1>1. ASSUME NEW n \in DOMAIN ptrArray, ptrArray[n].key \in Keys
        PROVE  Answer[ptrArray[n].key] = ptrArray[n].value
    <2>1. EntryOf(ptrArray[n].key) = {n}
      BY DEF EntryOf, Unique
    <2>2. (CHOOSE m \in {n} : TRUE) = n
      OBVIOUS
    <2>3. QED
      BY <1>1, <2>1, <2>2 DEF Answer
  <1>2. ASSUME NEW k \in Keys, \A n \in DOMAIN ptrArray : ptrArray[n].key # k
        PROVE  Answer[k] = None
    BY <1>2 DEF Answer, EntryOf
  <1>3. QED
    BY <1>1, <1>2

\* A row of a new group: the answer gains its key, or the array is overrun.
LEMMA NewGroupIsSeen ==
  ASSUME Inv, ~overrun, Inv', NEW k \in Keys, NEW v \in Values,
         Entry(k) = {}, Record(k, v),
         received' = received \union {[key |-> k, value |-> v]}
  PROVE  Query!See(k, v) \/ (overrun' /\ Answer' = Answer)
  <1>1. CASE Len(ptrArray) < Size
    <2>1. /\ DOMAIN ptrArray' = DOMAIN ptrArray \union {Len(ptrArray) + 1}
          /\ \A n \in DOMAIN ptrArray : ptrArray'[n] = ptrArray[n]
          /\ ptrArray'[Len(ptrArray) + 1].key = k
          /\ ptrArray'[Len(ptrArray) + 1].value = v
      BY <1>1, Recorded
    <2>2. \A n \in DOMAIN ptrArray : ptrArray[n].key # k
      BY WalkDecides
    <2>3. Answer[k] = None
      BY <2>2, AnswerAt DEF Inv
    <2>4. Answer'[k] = v
      <3>1. Unique'
        BY DEF Inv
      <3>2. EntryOf(k)' = {Len(ptrArray) + 1}
        BY <2>1, <2>2 DEF EntryOf
      <3>3. (CHOOSE m \in {Len(ptrArray) + 1} : TRUE) = Len(ptrArray) + 1
        OBVIOUS
      <3>4. QED
        BY <2>1, <3>2, <3>3 DEF Answer
    <2>5. ASSUME NEW j \in Keys, j # k
          PROVE  Answer'[j] = Answer[j]
      <3>1. EntryOf(j)' = EntryOf(j)
        BY <2>1, <2>5 DEF EntryOf
      <3>2. CASE EntryOf(j) = {}
        BY <3>1, <3>2 DEF Answer
      <3>3. CASE EntryOf(j) # {}
        <4> DEFINE n == CHOOSE m \in EntryOf(j) : TRUE
        <4>1. n \in DOMAIN ptrArray
          BY <3>3 DEF EntryOf
        <4>2. Answer[j] = ptrArray[n].value
          BY <3>3 DEF Answer
        <4>3. Answer'[j] = ptrArray'[n].value
          BY <3>1, <3>3 DEF Answer
        <4>4. QED
          BY <2>1, <4>1, <4>2, <4>3
      <3>4. QED
        BY <3>2, <3>3
    <2>6. /\ Answer = [j \in Keys |-> Answer[j]]
          /\ Answer' = [j \in Keys |-> Answer'[j]]
      BY DEF Answer
    <2>7. QED
      BY <2>3, <2>4, <2>5, <2>6 DEF Query!See
  <1>2. CASE Len(ptrArray) >= Size
    <2>1. Len(ptrArray) \in Nat
      BY LenProperties DEF Inv, TypeOK
    <2>2. overrun' = TRUE /\ UNCHANGED ptrArray
      BY <1>2, <2>1, MasterAssumption DEF Record
    <2>3. Answer' = Answer
      BY <2>2 DEF Answer, EntryOf
    <2>4. QED
      BY <2>2, <2>3
  <1>3. QED
    <2>1. Len(ptrArray) \in Nat
      BY LenProperties DEF Inv, TypeOK
    <2>2. QED
      BY <1>1, <1>2, <2>1, MasterAssumption

\* A row of a known group: the answer's value is raised.
LEMMA KnownGroupIsSeen ==
  ASSUME Inv, ~overrun, NEW k \in Keys, NEW v \in Values, Raise(k, v),
         received' = received \union {[key |-> k, value |-> v]}
  PROVE  Query!See(k, v)
  <1>1. /\ Unique /\ Unique' /\ ptrArray \in Seq(Row)
        /\ DOMAIN ptrArray' = DOMAIN ptrArray
    BY RaiseKeeps DEF Inv, TypeOK
  <1>2. PICK i \in DOMAIN ptrArray : RaisedAt(i, k, v)
    BY RaiseKeeps
  <1>3. ptrArray[i].value \in Values
    <2>1. ptrArray[i] \in Row
      BY <1>1, <1>2, ElementOfSeq, LenProperties
    <2>2. QED
      BY <2>1 DEF Row
  <1>4. Answer[k] = ptrArray[i].value /\ Answer[k] # None
    BY <1>1, <1>2, <1>3, AnswerAt, MasterAssumption DEF RaisedAt
  <1>5. \A j \in Keys : EntryOf(j)' = EntryOf(j)
    BY <1>1, <1>2 DEF RaisedAt, EntryOf
  <1>6. EntryOf(k) = {i} /\ (CHOOSE m \in {i} : TRUE) = i
    BY <1>1, <1>2 DEF RaisedAt, EntryOf, Unique
  <1>7. Answer'[k] = IF Answer[k] < v THEN v ELSE Answer[k]
    BY <1>2, <1>4, <1>5, <1>6 DEF RaisedAt, Answer
  <1>8. ASSUME NEW j \in Keys, j # k
        PROVE  Answer'[j] = Answer[j]
    <2>1. CASE EntryOf(j) = {}
      BY <1>5, <2>1 DEF Answer
    <2>2. CASE EntryOf(j) # {}
      <3> DEFINE n == CHOOSE m \in EntryOf(j) : TRUE
      <3>1. n \in DOMAIN ptrArray /\ ptrArray[n].key = j
        BY <2>2 DEF EntryOf
      <3>2. Answer[j] = ptrArray[n].value
        BY <2>2 DEF Answer
      <3>3. Answer'[j] = ptrArray'[n].value
        BY <1>5, <2>2 DEF Answer
      <3>4. n # i
        BY <1>2, <1>8, <3>1 DEF RaisedAt
      <3>5. ptrArray'[n] = ptrArray[n]
        BY <1>2, <3>1, <3>4 DEF RaisedAt
      <3>6. QED
        BY <3>2, <3>3, <3>5
    <2>3. QED
      BY <2>1, <2>2
  <1>9. /\ Answer = [j \in Keys |-> Answer[j]]
        /\ Answer' = [j \in Keys |-> Answer'[j]]
    BY DEF Answer
  <1>10. QED
    BY <1>4, <1>7, <1>8, <1>9 DEF Query!See

\* Every row is seen, but for one that overruns the array.
LEMMA UpdateIsSeen ==
  ASSUME Inv, Inv', NEW k \in Keys, NEW v \in Values, Update(k, v)
  PROVE  Query!See(k, v) \/ (overrun' /\ Answer' = Answer)
  <1>1. ~overrun /\ received' = received \union {[key |-> k, value |-> v]}
    BY DEF Update
  <1>2. CASE StartChain(k, v) \/ ExtendChain(k, v)
    BY <1>1, <1>2, NewGroup, NewGroupIsSeen
  <1>3. CASE Raise(k, v)
    BY <1>1, <1>3, KnownGroupIsSeen
  <1>4. QED
    BY <1>2, <1>3 DEF Update

\* Until the array is full the printed answer is GroupByAnswer's, row by row.
THEOREM AnswersExactly == Spec => AnswerExact
  <1>1. Init => Query!Init
    BY DEF Init, Query!Init, Answer, EntryOf
  <1>2. Inv /\ Inv' /\ [Next]_vars => [Query!Next]_Answer
    <2> SUFFICES ASSUME Inv, Inv', [Next]_vars PROVE Query!Next \/ Answer' = Answer
      OBVIOUS
    <2>1. ASSUME NEW k \in Keys, NEW v \in Values, Update(k, v)
          PROVE  Query!Next \/ Answer' = Answer
      BY <2>1, UpdateIsSeen DEF Query!Next
    <2>2. CASE UNCHANGED vars
      BY <2>2 DEF vars, Answer, EntryOf
    <2>3. QED
      BY <2>1, <2>2 DEF Next
  <1>3. QED
    BY <1>1, <1>2, Invariance, PTL DEF Spec, AnswerExact, Query!Spec

-----------------------------------------------------------------------------
\* Answer[k] is the greatest value received with k, and None without one.
HoldsMaximum(k) ==
  /\ Answer[k] # None => \E r \in received : r.key = k /\ r.value = Answer[k]
  /\ \A r \in received : r.key = k => Answer[k] # None /\ r.value <= Answer[k]

AnswerIsMaximum == ~overrun => \A k \in Keys : HoldsMaximum(k)

\* Seeing a row keeps every key's maximum.
LEMMA SeeKeepsMaximum ==
  ASSUME Inv, \A j \in Keys : HoldsMaximum(j), NEW k \in Keys, NEW v \in Values,
         Query!See(k, v), received' = received \union {[key |-> k, value |-> v]}
  PROVE  \A j \in Keys : HoldsMaximum(j)'
  <1> DEFINE x == Answer[k]
             y == IF x = None \/ x < v THEN v ELSE x
             new == [key |-> k, value |-> v]
  <1>1. v \in Nat /\ v # None
    BY MasterAssumption
  <1>2. x # None => x \in Nat
    BY MasterAssumption DEF HoldsMaximum, Inv, TypeOK, Row
  <1>3. \A r \in received : r.value \in Nat
    BY MasterAssumption DEF Inv, TypeOK, Row
  <1>4. new.key = k /\ new.value = v /\ received' = received \union {new}
    OBVIOUS
  <1>5. Answer'[k] = y /\ \A j \in Keys \ {k} : Answer'[j] = Answer[j]
    BY DEF Query!See, Answer
  <1> HIDE DEF new
  <1>6. ASSUME NEW j \in Keys \ {k}
        PROVE  HoldsMaximum(j)'
    BY <1>4, <1>5 DEF HoldsMaximum
  <1>7. y # None /\ y \in Nat /\ v <= y /\ (x # None => x <= y)
    BY <1>1, <1>2
  <1>8. y = v \/ (y = x /\ x # None)
    OBVIOUS
  <1>9. \E r \in received' : r.key = k /\ r.value = y
    BY <1>4, <1>8 DEF HoldsMaximum
  <1>10. ASSUME NEW r \in received', r.key = k
         PROVE  r.value <= y
    <2>1. CASE r = new
      BY <1>4, <1>7, <2>1
    <2>2. CASE r \in received
      <3>1. x # None /\ r.value <= x
        BY <1>10, <2>2 DEF HoldsMaximum
      <3>2. QED
        BY <1>2, <1>3, <1>7, <2>2, <3>1
    <2>3. QED
      BY <1>4, <2>1, <2>2
  <1> HIDE DEF y
  <1>11. HoldsMaximum(k)'
    BY <1>5, <1>7, <1>9, <1>10 DEF HoldsMaximum
  <1>12. QED
    BY <1>6, <1>11

\* Until the array is overrun the answer is the maximum of what was received,
\* key by key, whatever order the rows came in and whatever keys collide.
THEOREM MaximumPerKey == Spec => []AnswerIsMaximum
  <1>1. Init => AnswerIsMaximum
    BY DEF Init, AnswerIsMaximum, HoldsMaximum, Answer, EntryOf
  <1>2. Inv /\ Inv' /\ AnswerIsMaximum /\ [Next]_vars => AnswerIsMaximum'
    <2> SUFFICES ASSUME Inv, Inv', AnswerIsMaximum, [Next]_vars, ~overrun'
                 PROVE  \A k \in Keys : HoldsMaximum(k)'
      BY DEF AnswerIsMaximum
    <2>1. ASSUME NEW k \in Keys, NEW v \in Values, Update(k, v)
          PROVE  \A j \in Keys : HoldsMaximum(j)'
      <3>1. ~overrun /\ received' = received \union {[key |-> k, value |-> v]}
        BY <2>1 DEF Update
      <3>2. Query!See(k, v)
        BY <2>1, UpdateIsSeen
      <3>3. QED
        BY <3>1, <3>2, SeeKeepsMaximum DEF AnswerIsMaximum
    <2>2. CASE UNCHANGED vars
      BY <2>2 DEF vars, AnswerIsMaximum, HoldsMaximum, Answer, EntryOf
    <2>3. QED
      BY <2>1, <2>2 DEF Next
  <1>3. QED
    BY <1>1, <1>2, Invariance, PTL DEF Spec
=============================================================================
