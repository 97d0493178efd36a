-------------------------- MODULE JoinMasterProofs --------------------------
(***************************************************************************)
(* The master's JOIN pairs all rows that join and each pair once, never    *)
(* rows of different keys, only rows that join when every key's primary    *)
(* row comes first, and stops at its limits, for all keys, hashes and      *)
(* sizes.                                                                  *)
(*                                                                         *)
(* The argument: the rows in a bin are received rows of the bin's key      *)
(* (BinsBacked), so an entry is a pair of rows of one key.  A primary row  *)
(* is in its key's bin from its arrival on (RowsKept), so a secondary row  *)
(* that is no orphan finds the bin and is never put into one.  The bin is  *)
(* the only one of its key and holds a row once (BinsDistinct), so every   *)
(* pair that joins is emitted (AllPaired) and none is emitted twice        *)
(* (EntriesDistinct).                                                      *)
(***************************************************************************)
EXTENDS JoinMaster, FiniteSetTheorems, SequenceTheorems, TLAPS

RowsOf(b) == {b.rows[i] : i \in DOMAIN b.rows}

\* The rows of a bin were received and have its key; its array is large enough.
Backed(b, rcv) ==
  /\ \A i \in RowsOf(b) : i \in DOMAIN rcv /\ rcv[i].key = b.key
  /\ b.cap >= 1
  /\ Len(b.rows) <= b.cap

BinsBacked ==
  \A h \in HVals : \A n \in DOMAIN bins[h] : Backed(bins[h][n], received)

\* An entry pairs an earlier row with a later, secondary one of the same key.
Pairs(e, rcv) ==
  /\ e[1] \in DOMAIN rcv /\ e[2] \in DOMAIN rcv
  /\ e[1] < e[2]
  /\ rcv[e[2]].tbl = "secondary"
  /\ rcv[e[1]].key = rcv[e[2]].key

EntriesPair == \A n \in DOMAIN entries : Pairs(entries[n], received)

\* Every primary row is in the bin of its key.
Kept(i) == \E n \in Places(received[i].key) :
             i \in RowsOf(bins[HVal[received[i].key]][n])
RowsKept ==
  ~aborted => \A i \in DOMAIN received : received[i].tbl = "primary" => Kept(i)

\* Without orphans only primary rows are kept and paired.
PrimaryOnly ==
  NoOrphan =>
    /\ \A h \in HVals : \A n \in DOMAIN bins[h] :
         \A i \in RowsOf(bins[h][n]) : received[i].tbl = "primary"
    /\ \A n \in DOMAIN entries : received[entries[n][1]].tbl = "primary"

\* A key has one bin, and a bin holds a row once.
NoRepeat(b) == \A i, j \in DOMAIN b.rows : b.rows[i] = b.rows[j] => i = j

BinsDistinct ==
  \A h \in HVals : \A m \in DOMAIN bins[h] :
    /\ NoRepeat(bins[h][m])
    /\ \A n \in DOMAIN bins[h] : bins[h][m].key = bins[h][n].key => m = n

\* No pair is in the result twice, and every pair that joins is in it.
EntriesDistinct == \A m, n \in DOMAIN entries : entries[m] = entries[n] => m = n

Paired(i, j) == \E n \in DOMAIN entries : entries[n] = <<i, j>>
AllPaired == ~aborted => \A i, j \in DOMAIN received : Joins(i, j) => Paired(i, j)

Used == {h \in HVals : bins[h] # <<>>}

Inv ==
  /\ TypeOK
  /\ IsFiniteSet(Used)
  /\ BinsBacked
  /\ EntriesPair
  /\ RowsKept
  /\ PrimaryOnly
  /\ BinsDistinct
  /\ EntriesDistinct
  /\ AllPaired
  /\ AbortsAtLimits

-----------------------------------------------------------------------------
\* A row arrives: it is the last, and the earlier ones are as they were.
LEMMA Arrival ==
  ASSUME Inv, NEW k \in Keys, NEW tbl \in Tables, Len(received) < MaxRows,
         received' = Append(received, [key |-> k, tbl |-> tbl])
  PROVE  /\ received' \in Seq([key : Keys, tbl : Tables])
         /\ DOMAIN received = 1 .. Len(received) /\ Len(received) \in Nat
         /\ DOMAIN received' = DOMAIN received \union {ThisRow}
         /\ ThisRow \notin DOMAIN received /\ ThisRow \in Row
         /\ \A i \in DOMAIN received : received'[i] = received[i] /\ i < ThisRow
         /\ received'[ThisRow].key = k /\ received'[ThisRow].tbl = tbl
  <1> DEFINE r == [key |-> k, tbl |-> tbl]
  <1>1. r \in [key : Keys, tbl : Tables] /\ r.key = k /\ r.tbl = tbl
    OBVIOUS
  <1>2. /\ received \in Seq([key : Keys, tbl : Tables])
        /\ received' = Append(received, r)
    BY DEF Inv, TypeOK
  <1> HIDE DEF r
  <1>3. /\ received' \in Seq([key : Keys, tbl : Tables])
        /\ DOMAIN received = 1 .. Len(received) /\ Len(received) \in Nat
        /\ DOMAIN received' = 1 .. Len(received) + 1
        /\ \A i \in DOMAIN received : received'[i] = received[i]
        /\ received'[ThisRow] = r
    BY <1>1, <1>2, AppendProperties, LenProperties DEF ThisRow
  <1>4. QED
    BY <1>1, <1>3, LimitAssumption DEF ThisRow, Row

\* What holds of bins and entries before the arrival holds after it.
LEMMA ArrivalKeeps ==
  ASSUME NEW rcv, NEW later,
         \A i \in DOMAIN rcv : i \in DOMAIN later /\ later[i] = rcv[i]
  PROVE  /\ \A b : Backed(b, rcv) => Backed(b, later)
         /\ \A e : Pairs(e, rcv) => Pairs(e, later)
  BY DEF Backed, Pairs

\* A row that is no orphan finds the bin of its key.
LEMMA NoOrphanFinds ==
  ASSUME Inv, ~aborted, NEW k \in Keys, Len(received) < MaxRows,
         received' = Append(received, [key |-> k, tbl |-> "secondary"]),
         NoOrphan'
  PROVE  Places(k) # {}
  <1>1. \E i \in DOMAIN received : received[i].tbl = "primary" /\ received[i].key = k
    BY Arrival DEF NoOrphan, Joins, Tables, ThisRow
  <1>2. QED
    BY <1>1 DEF Inv, RowsKept, Kept

\* A row that is not paired with anything leaves no pair out.
LEMMA StillPaired ==
  ASSUME Inv, ~aborted, NEW k \in Keys, NEW tbl \in Tables, Len(received) < MaxRows,
         received' = Append(received, [key |-> k, tbl |-> tbl]),
         UNCHANGED entries, tbl = "primary" \/ Places(k) = {}
  PROVE  AllPaired'
  <1> SUFFICES ASSUME NEW i \in DOMAIN received', NEW j \in DOMAIN received', Joins(i, j)'
               PROVE  Paired(i, j)
    BY DEF AllPaired, Paired
  <1>1. CASE j = ThisRow
    <2>1. /\ i \in DOMAIN received /\ received[i].tbl = "primary" /\ received[i].key = k
          /\ tbl # "primary"
      BY <1>1, Arrival DEF Joins
    <2>2. Kept(i)
      BY <2>1 DEF Inv, RowsKept
    <2>3. QED
      BY <2>1, <2>2 DEF Kept
  <1>2. CASE j \in DOMAIN received
    <2>1. i \in DOMAIN received
      <3>1. i < j /\ i # ThisRow
        BY <1>2, Arrival DEF Joins
      <3>2. QED
        BY <3>1, Arrival
    <2>2. Joins(i, j)
      BY <1>2, <2>1, Arrival DEF Joins
    <2>3. QED
      BY <1>2, <2>1, <2>2 DEF Inv, AllPaired
  <1>3. QED
    BY <1>1, <1>2, Arrival

LEMMA NoOrphanBefore ==
  ASSUME Inv, NEW k \in Keys, NEW tbl \in Tables, Len(received) < MaxRows,
         received' = Append(received, [key |-> k, tbl |-> tbl]), NoOrphan'
  PROVE  NoOrphan
  <1>1. SUFFICES ASSUME NEW j \in DOMAIN received, received[j].tbl = "secondary"
                 PROVE  \E i \in 1 .. j - 1 : Joins(i, j)
    BY DEF NoOrphan
  <1>2. PICK i \in 1 .. j - 1 : Joins(i, j)'
    BY <1>1, Arrival DEF NoOrphan
  <1>3. i \in DOMAIN received
    BY <1>2, Arrival
  <1>4. QED
    BY <1>2, <1>3, Arrival DEF Joins

-----------------------------------------------------------------------------
\* A row is put into a bin b, the p-th behind its key's hash, new or not.
Put(k, tbl, b, p) ==
  LET h == HVal[k]
  IN  /\ b \in Bin /\ b.key = k
      /\ Len(b.rows) <= b.cap /\ b.cap >= 1
      /\ ThisRow \in RowsOf(b) /\ NoRepeat(b)
      /\ \/ p \notin DOMAIN bins[h] /\ RowsOf(b) = {ThisRow} /\ Places(k) = {}
         \/ /\ p \in DOMAIN bins[h]
            /\ RowsOf(b) = RowsOf(bins[h][p]) \union {ThisRow}
            /\ bins[h][p].key = k
      /\ bins' \in [HVals -> Seq(Bin)]
      /\ DOMAIN bins'[h] = DOMAIN bins[h] \union {p}
      /\ bins'[h][p] = b
      /\ \A m \in DOMAIN bins[h] \ {p} : bins'[h][m] = bins[h][m]
      /\ \A g \in HVals \ {h} : bins'[g] = bins[g]

LEMMA PutKeeps ==
  ASSUME Inv, ~aborted, NEW k \in Keys, NEW tbl \in Tables,
         Len(received) < MaxRows,
         received' = Append(received, [key |-> k, tbl |-> tbl]),
         NEW b, NEW p, Put(k, tbl, b, p), UNCHANGED <<entries, aborted>>,
         NoOrphan' => tbl = "primary", tbl = "primary" \/ Places(k) = {},
         IsFiniteSet(Used'), Cardinality(Used') <= HashSize
  PROVE  Inv'
  <1> DEFINE h == HVal[k]
  <1>0. h \in HVals
    BY HashAssumption
  <1>1. TypeOK'
    BY Arrival DEF Put, Inv, TypeOK
  <1>2. Backed(b, received')
    <2>1. ASSUME NEW i \in RowsOf(b)
          PROVE  i \in DOMAIN received' /\ received'[i].key = b.key
      <3>1. CASE i = ThisRow
        BY <3>1, Arrival DEF Put
      <3>2. CASE p \in DOMAIN bins[h] /\ i \in RowsOf(bins[h][p])
        BY <1>0, <3>2, Arrival DEF Put, Inv, BinsBacked, Backed
      <3>3. QED
        BY <2>1, <3>1, <3>2 DEF Put
    <2>2. QED
      BY <2>1 DEF Put, Backed
  <1>3. BinsBacked'
    <2>1. ASSUME NEW g \in HVals, NEW n \in DOMAIN bins'[g]
          PROVE  Backed(bins'[g][n], received')
      <3>1. CASE g = h /\ n = p
        BY <1>2, <3>1 DEF Put
      <3>2. CASE ~(g = h /\ n = p)
        <4>1. n \in DOMAIN bins[g] /\ bins'[g][n] = bins[g][n]
          BY <2>1, <3>2 DEF Put
        <4>2. Backed(bins[g][n], received)
          BY <4>1 DEF Inv, BinsBacked
        <4>3. QED
          BY <4>1, <4>2, ArrivalKeeps, Arrival
      <3>3. QED
        BY <3>1, <3>2
    <2>2. QED
      BY <2>1 DEF BinsBacked
  <1>4. EntriesPair'
    BY ArrivalKeeps, Arrival DEF Inv, EntriesPair
  <1>5. RowsKept'
    <2>1. SUFFICES ASSUME NEW i \in DOMAIN received', received'[i].tbl = "primary"
                   PROVE  Kept(i)'
      BY DEF RowsKept
    <2>2. CASE i = ThisRow
      <3>1. /\ received'[i].key = k /\ p \in DOMAIN bins'[h] /\ bins'[h][p] = b
            /\ b.key = k /\ i \in RowsOf(b)
        BY <2>2, Arrival DEF Put
      <3>2. p \in Places(k)'
        BY <3>1 DEF Places
      <3>3. QED
        BY <3>1, <3>2 DEF Kept
    <2>3. CASE i \in DOMAIN received
      <3>1. received'[i] = received[i]
        BY <2>3, Arrival
      <3>2. PICK n \in Places(received[i].key) :
              i \in RowsOf(bins[HVal[received[i].key]][n])
        BY <2>1, <2>3, <3>1 DEF Inv, RowsKept, Kept
      <3> DEFINE g == HVal[received[i].key]
      <3>3. g \in HVals
        <4>1. received[i] \in [key : Keys, tbl : Tables]
          <5>1. /\ received \in Seq([key : Keys, tbl : Tables])
                /\ i \in 1 .. Len(received)
            BY <2>3, LenProperties DEF Inv, TypeOK
          <5>2. QED
            BY <5>1, ElementOfSeq
        <4>2. QED
          BY <4>1, HashAssumption
      <3>4. n \in DOMAIN bins[g] /\ bins[g][n].key = received[i].key
        BY <3>2 DEF Places
      <3>5. /\ n \in DOMAIN bins'[g] /\ bins'[g][n].key = received[i].key
            /\ i \in RowsOf(bins'[g][n])
        <4>1. CASE g = h /\ n = p
          BY <3>2, <3>4, <4>1 DEF Put
        <4>2. CASE ~(g = h /\ n = p)
          BY <3>2, <3>3, <3>4, <4>2 DEF Put
        <4>3. QED
          BY <4>1, <4>2
      <3>6. QED
        BY <3>1, <3>5 DEF Kept, Places
    <2>4. QED
      BY <2>1, <2>2, <2>3, Arrival
  <1>6. PrimaryOnly'
    <2>1. SUFFICES ASSUME NoOrphan'
                   PROVE  /\ \A g \in HVals : \A n \in DOMAIN bins'[g] :
                               \A i \in RowsOf(bins'[g][n]) : received'[i].tbl = "primary"
                          /\ \A n \in DOMAIN entries' :
                               received'[entries'[n][1]].tbl = "primary"
      BY DEF PrimaryOnly
    <2>2. /\ \A g \in HVals : \A n \in DOMAIN bins[g] :
               \A i \in RowsOf(bins[g][n]) : received[i].tbl = "primary"
          /\ \A n \in DOMAIN entries : received[entries[n][1]].tbl = "primary"
      BY <2>1, NoOrphanBefore DEF Inv, PrimaryOnly
    <2>3. ASSUME NEW g \in HVals, NEW n \in DOMAIN bins'[g],
                 NEW i \in RowsOf(bins'[g][n])
          PROVE  received'[i].tbl = "primary"
      <3>1. CASE i = ThisRow
        BY <2>1, <3>1, Arrival
      <3>2. CASE n \in DOMAIN bins[g] /\ i \in RowsOf(bins[g][n])
        <4>1. i \in DOMAIN received
          BY <3>2 DEF Inv, BinsBacked, Backed
        <4>2. QED
          BY <2>2, <3>2, <4>1, Arrival
      <3>3. i = ThisRow \/ (n \in DOMAIN bins[g] /\ i \in RowsOf(bins[g][n]))
        <4>1. CASE g = h /\ n = p
          BY <2>3, <4>1 DEF Put
        <4>2. CASE ~(g = h /\ n = p)
          BY <2>3, <4>2 DEF Put
        <4>3. QED
          BY <4>1, <4>2
      <3>4. QED
        BY <3>1, <3>2, <3>3
    <2>4. ASSUME NEW n \in DOMAIN entries
          PROVE  received'[entries[n][1]].tbl = "primary"
      BY <2>2, Arrival DEF Inv, EntriesPair, Pairs
    <2>5. QED
      BY <2>3, <2>4
  <1>7. AbortsAtLimits'
    BY DEF Inv, AbortsAtLimits, TableFull, Used
  <1>8. BinsDistinct'
    <2>1. ASSUME NEW g \in HVals, NEW m \in DOMAIN bins'[g]
          PROVE  NoRepeat(bins'[g][m])
      <3>1. CASE g = h /\ m = p
        BY <3>1 DEF Put
      <3>2. CASE ~(g = h /\ m = p)
        BY <2>1, <3>2 DEF Put, Inv, BinsDistinct
      <3>3. QED
        BY <3>1, <3>2
    <2>2. ASSUME NEW g \in HVals \ {h}, NEW m \in DOMAIN bins'[g], NEW n \in DOMAIN bins'[g],
                 bins'[g][m].key = bins'[g][n].key
          PROVE  m = n
      BY <2>2 DEF Put, Inv, BinsDistinct
    <2>3. ASSUME NEW m \in DOMAIN bins[h], NEW n \in DOMAIN bins[h],
                 bins'[h][m].key = bins'[h][n].key
          PROVE  m = n
      <3>1. \A l \in DOMAIN bins[h] : bins'[h][l].key = bins[h][l].key
        BY DEF Put
      <3>2. QED
        BY <1>0, <2>3, <3>1 DEF Inv, BinsDistinct
    <2>4. ASSUME NEW m \in DOMAIN bins[h], p \notin DOMAIN bins[h]
          PROVE  bins'[h][m].key # bins'[h][p].key
      <3>1. m \notin Places(k) /\ bins'[h][p].key = k /\ bins'[h][m] = bins[h][m]
        BY <2>4 DEF Put
      <3>2. QED
        BY <3>1 DEF Places
    <2>5. DOMAIN bins'[h] = DOMAIN bins[h] \union {p}
      BY DEF Put
    <2> HIDE DEF h
    <2>6. ASSUME NEW m \in DOMAIN bins'[h], NEW n \in DOMAIN bins'[h],
                 bins'[h][m].key = bins'[h][n].key
          PROVE  m = n
      BY <2>3, <2>4, <2>5, <2>6
    <2>7. QED
      BY <2>1, <2>2, <2>6 DEF BinsDistinct
  <1>9. EntriesDistinct' /\ AllPaired'
    BY StillPaired DEF Inv, EntriesDistinct
  <1>10. QED
    BY <1>1, <1>3, <1>4, <1>5, <1>6, <1>7, <1>8, <1>9 DEF Inv

-----------------------------------------------------------------------------
\* Bins and entries stay as they are: the arrival alone, with or without abort.
LEMMA SkipKeeps ==
  ASSUME Inv, ~aborted, NEW k \in Keys, NEW tbl \in Tables,
         Len(received) < MaxRows,
         received' = Append(received, [key |-> k, tbl |-> tbl]),
         UNCHANGED <<bins, entries>>, aborted' \in BOOLEAN,
         aborted' => TableFull,
         ~aborted' => tbl = "secondary" /\ Places(k) = {}
  PROVE  Inv'
  <1>1. TypeOK'
    BY Arrival DEF Inv, TypeOK
  <1>2. BinsBacked' /\ EntriesPair'
    BY ArrivalKeeps, Arrival DEF Inv, BinsBacked, EntriesPair
  <1>3. RowsKept'
    <2>1. SUFFICES ASSUME ~aborted', NEW i \in DOMAIN received',
                          received'[i].tbl = "primary"
                   PROVE  Kept(i)'
      BY DEF RowsKept
    <2>2. i \in DOMAIN received
      BY <2>1, Arrival DEF Tables
    <2>3. Kept(i)
      BY <2>1, <2>2, Arrival DEF Inv, RowsKept
    <2>4. QED
      BY <2>2, <2>3, Arrival DEF Kept, Places
  <1>4. PrimaryOnly'
    <2>1. SUFFICES ASSUME NoOrphan'
                   PROVE  /\ \A g \in HVals : \A n \in DOMAIN bins[g] :
                               \A i \in RowsOf(bins[g][n]) : received'[i].tbl = "primary"
                          /\ \A n \in DOMAIN entries :
                               received'[entries[n][1]].tbl = "primary"
      BY DEF PrimaryOnly
    <2>2. /\ \A g \in HVals : \A n \in DOMAIN bins[g] :
               \A i \in RowsOf(bins[g][n]) : received[i].tbl = "primary"
          /\ \A n \in DOMAIN entries : received[entries[n][1]].tbl = "primary"
      BY <2>1, NoOrphanBefore DEF Inv, PrimaryOnly
    <2>3. /\ \A g \in HVals : \A n \in DOMAIN bins[g] :
               \A i \in RowsOf(bins[g][n]) : i \in DOMAIN received
          /\ \A n \in DOMAIN entries : entries[n][1] \in DOMAIN received
      BY DEF Inv, BinsBacked, Backed, EntriesPair, Pairs
    <2>4. QED
      BY <2>2, <2>3, Arrival
  <1>5. AbortsAtLimits' /\ Used' = Used
    BY DEF Inv, AbortsAtLimits, TableFull, Used
  <1>6. BinsDistinct' /\ EntriesDistinct'
    BY DEF Inv, BinsDistinct, EntriesDistinct
  <1>7. AllPaired'
    <2>1. CASE aborted'
      BY <2>1 DEF AllPaired
    <2>2. CASE ~aborted'
      BY <2>2, StillPaired
    <2>3. QED
      BY <2>1, <2>2
  <1>8. QED
    BY <1>1, <1>2, <1>3, <1>4, <1>5, <1>6, <1>7 DEF Inv

-----------------------------------------------------------------------------
\* The bin that a row opens.
LEMMA Opened ==
  ASSUME Inv, NEW k \in Keys, Len(received) < MaxRows
  PROVE  /\ NewBin(k) \in Bin /\ NewBin(k).key = k
         /\ RowsOf(NewBin(k)) = {ThisRow} /\ NoRepeat(NewBin(k))
         /\ Len(NewBin(k).rows) <= NewBin(k).cap /\ NewBin(k).cap >= 1
  <1>1. ThisRow \in Row /\ <<ThisRow>> \in Seq(Row) /\ Len(<<ThisRow>>) = 1
    BY LenProperties, LimitAssumption DEF Inv, TypeOK, ThisRow, Row
  <1>2. InitCap \in Nat /\ InitCap >= 1
    BY LimitAssumption
  <1>3. /\ NewBin(k) \in Bin /\ NewBin(k).key = k
        /\ NewBin(k).rows = <<ThisRow>> /\ NewBin(k).cap = InitCap
    BY <1>1, <1>2 DEF NewBin, Bin
  <1>4. DOMAIN <<ThisRow>> = {1} /\ <<ThisRow>>[1] = ThisRow
    OBVIOUS
  <1>5. RowsOf(NewBin(k)) = {ThisRow}
    BY <1>3, <1>4 DEF RowsOf
  <1>6. NoRepeat(NewBin(k))
    BY <1>3, <1>4 DEF NoRepeat
  <1>7. QED
    BY <1>1, <1>2, <1>3, <1>5, <1>6

LEMMA OpenChainKeeps ==
  ASSUME Inv, ~aborted, NEW k \in Keys, NEW tbl \in Tables,
         Len(received) < MaxRows,
         received' = Append(received, [key |-> k, tbl |-> tbl]),
         OpenChain(k, tbl)
  PROVE  Inv'
  <1> DEFINE h == HVal[k]
  <1>0. h \in HVals /\ bins[h] = <<>>
    BY HashAssumption DEF OpenChain, Found
  <1>1. CASE TableFull
    BY <1>1, SkipKeeps DEF OpenChain
  <1>2. CASE ~TableFull
    <2>1. PICK b : b = NewBin(k)
      OBVIOUS
    <2>2. bins' = [bins EXCEPT ![h] = <<b>>] /\ UNCHANGED <<entries, aborted>>
      BY <1>2, <2>1 DEF OpenChain
    <2>3. /\ b \in Bin /\ b.key = k /\ RowsOf(b) = {ThisRow} /\ NoRepeat(b)
          /\ Len(b.rows) <= b.cap /\ b.cap >= 1
      BY <2>1, Opened
    <2>4. bins \in [HVals -> Seq(Bin)]
      BY DEF Inv, TypeOK
    <2>5. <<b>> \in Seq(Bin) /\ DOMAIN <<b>> = {1} /\ <<b>>[1] = b /\ <<b>> # <<>>
      BY <2>3
    <2>6. /\ bins' \in [HVals -> Seq(Bin)] /\ bins'[h] = <<b>>
          /\ \A g \in HVals \ {h} : bins'[g] = bins[g]
      BY <1>0, <2>2, <2>4, <2>5
    <2>7. Put(k, tbl, b, 1)
      <3>1. DOMAIN bins[h] = {} /\ Places(k) = {}
        BY <1>0 DEF Places
      <3> HIDE DEF h
      <3>2. QED
        BY <2>3, <2>5, <2>6, <3>1 DEF Put, h
    <2>8. Used' = Used \union {h} /\ h \notin Used
      BY <1>0, <2>5, <2>6 DEF Used
    <2>9. IsFiniteSet(Used') /\ Cardinality(Used') <= HashSize
      <3>1. IsFiniteSet(Used) /\ Cardinality(Used) \in Nat /\ Cardinality(Used) < HashSize
        BY <1>2, FS_CardinalityType, LimitAssumption DEF Inv, TableFull, Used
      <3> HIDE DEF h
      <3>2. /\ IsFiniteSet(Used \union {h})
            /\ Cardinality(Used \union {h}) = Cardinality(Used) + 1
        BY <2>8, <3>1, FS_AddElement
      <3>3. QED
        BY <2>8, <3>1, <3>2, LimitAssumption
    <2>10. Places(k) = {}
      BY <1>0 DEF Places
    <2>11. NoOrphan' => tbl = "primary"
      BY <2>10, NoOrphanFinds DEF Tables
    <2>12. QED
      BY <2>2, <2>7, <2>9, <2>10, <2>11, PutKeeps
  <1>3. QED
    BY <1>1, <1>2

LEMMA ExtendChainKeeps ==
  ASSUME Inv, ~aborted, NEW k \in Keys, NEW tbl \in Tables,
         Len(received) < MaxRows,
         received' = Append(received, [key |-> k, tbl |-> tbl]),
         ExtendChain(k, tbl)
  PROVE  Inv'
  <1> DEFINE h == HVal[k]
             p == Len(bins[h]) + 1
  <1>1. PICK b : b = NewBin(k)
    OBVIOUS
  <1>2. /\ b \in Bin /\ b.key = k /\ RowsOf(b) = {ThisRow} /\ NoRepeat(b)
        /\ Len(b.rows) <= b.cap /\ b.cap >= 1
    BY <1>1, Opened
  <1>3. bins \in [HVals -> Seq(Bin)] /\ h \in HVals /\ bins[h] \in Seq(Bin)
    BY HashAssumption DEF Inv, TypeOK
  <1>4. /\ Append(bins[h], b) \in Seq(Bin)
        /\ DOMAIN Append(bins[h], b) = DOMAIN bins[h] \union {p} /\ p \notin DOMAIN bins[h]
        /\ Append(bins[h], b)[p] = b
        /\ \A m \in DOMAIN bins[h] : Append(bins[h], b)[m] = bins[h][m]
        /\ Append(bins[h], b) # <<>>
    BY <1>2, <1>3, AppendProperties, LenProperties
  <1>5. /\ bins' \in [HVals -> Seq(Bin)] /\ bins'[h] = Append(bins[h], b)
        /\ \A g \in HVals \ {h} : bins'[g] = bins[g]
    BY <1>1, <1>3, <1>4 DEF ExtendChain
  <1>6. PICK q : q = p
    OBVIOUS
  <1>7. Put(k, tbl, b, q)
    <2>1. Places(k) = {}
      BY DEF ExtendChain
    <2> HIDE DEF h, p
    <2>2. QED
      BY <1>2, <1>4, <1>5, <1>6, <2>1 DEF Put, h
  <1>8. Used' = Used
    BY <1>3, <1>4, <1>5 DEF ExtendChain, Found, Used
  <1>9. QED
    BY <1>7, <1>8, PutKeeps DEF ExtendChain, Inv, AbortsAtLimits, Used

LEMMA AddRowKeeps ==
  ASSUME Inv, ~aborted, NEW k \in Keys, NEW tbl \in Tables,
         Len(received) < MaxRows,
         received' = Append(received, [key |-> k, tbl |-> tbl]),
         AddRow(k, tbl)
  PROVE  Inv'
  <1> DEFINE h == HVal[k]
  <1>1. PICK n \in Places(k) :
          bins' = [bins EXCEPT ![h][n] =
                     [bins[h][n] EXCEPT !.rows = Append(@, ThisRow),
                                        !.cap = Grown(bins[h][n])]]
    BY DEF AddRow
  <1>2. /\ bins \in [HVals -> Seq(Bin)] /\ h \in HVals /\ bins[h] \in Seq(Bin)
        /\ n \in DOMAIN bins[h] /\ bins[h][n].key = k
    BY HashAssumption DEF Inv, TypeOK, Places
  <1>3. PICK old : old = bins[h][n]
    OBVIOUS
  <1>4. old \in Bin /\ Len(old.rows) <= old.cap /\ old.cap >= 1
    BY <1>2, <1>3, ElementOfSeq DEF Inv, BinsBacked, Backed
  <1>5. PICK b : b = [old EXCEPT !.rows = Append(@, ThisRow), !.cap = Grown(old)]
    OBVIOUS
  <1>6. ThisRow \in Row
    BY LenProperties, LimitAssumption DEF Inv, TypeOK, ThisRow, Row
  <1>7. /\ old.rows \in Seq(Row) /\ old.cap \in Nat /\ old.key \in Keys
        /\ Len(old.rows) \in Nat /\ Append(old.rows, ThisRow) \in Seq(Row)
        /\ Len(Append(old.rows, ThisRow)) = Len(old.rows) + 1
    BY <1>4, <1>6, AppendProperties, LenProperties DEF Bin
  <1>8. /\ b.rows = Append(old.rows, ThisRow) /\ b.key = old.key /\ b.cap = Grown(old)
        /\ Grown(old) \in Nat /\ Grown(old) >= 1
        /\ Len(b.rows) <= b.cap /\ b \in Bin
    <2>1. Grown(old) \in Nat /\ Grown(old) >= 1 /\ Len(old.rows) + 1 <= Grown(old)
      BY <1>4, <1>7 DEF Grown
    <2>2. b.rows = Append(old.rows, ThisRow) /\ b.key = old.key /\ b.cap = Grown(old)
      BY <1>4, <1>5 DEF Bin
    <2>3. b = [key |-> old.key, rows |-> Append(old.rows, ThisRow), cap |-> Grown(old)]
      BY <1>4, <1>5 DEF Bin
    <2>4. b \in Bin
      BY <1>7, <2>1, <2>3 DEF Bin
    <2>5. QED
      BY <1>7, <2>1, <2>2, <2>4
  <1>b. /\ DOMAIN b.rows = DOMAIN old.rows \union {Len(old.rows) + 1}
         /\ b.rows[Len(old.rows) + 1] = ThisRow
         /\ \A i \in DOMAIN old.rows : b.rows[i] = old.rows[i]
    BY <1>6, <1>7, <1>8, AppendProperties, LenProperties
  <1>9. RowsOf(b) = RowsOf(old) \union {ThisRow}
    BY <1>b DEF RowsOf
  <1>10. /\ bins' \in [HVals -> Seq(Bin)]
         /\ DOMAIN bins'[h] = DOMAIN bins[h] /\ bins'[h][n] = b
         /\ \A m \in DOMAIN bins[h] \ {n} : bins'[h][m] = bins[h][m]
         /\ \A g \in HVals \ {h} : bins'[g] = bins[g]
    <2> DEFINE s == [bins[h] EXCEPT ![n] = b]
    <2>1. bins' = [bins EXCEPT ![h] = s]
      <3>1. [bins[h][n] EXCEPT !.rows = Append(@, ThisRow), !.cap = Grown(bins[h][n])] = b
        BY <1>3, <1>5
      <3>2. bins' = [bins EXCEPT ![h][n] = b]
        BY <1>1, <3>1
      <3>3. QED
        BY <3>2
    <2>2. s \in Seq(Bin) /\ DOMAIN s = DOMAIN bins[h]
      BY <1>2, <1>8, ExceptSeq, LenProperties
    <2>3. s[n] = b /\ \A m \in DOMAIN bins[h] \ {n} : s[m] = bins[h][m]
      BY <1>2
    <2> HIDE DEF s, h
    <2>4. bins'[h] = s /\ \A g \in HVals \ {h} : bins'[g] = bins[g]
      BY <1>2, <2>1
    <2>5. bins' \in [HVals -> Seq(Bin)]
      BY <1>2, <2>1, <2>2
    <2>6. QED
      BY <2>2, <2>3, <2>4, <2>5
  <1>11. Put(k, tbl, b, n)
    <2> HIDE DEF h
    <2>1. NoRepeat(b)
      <3>1. \A i \in DOMAIN old.rows : old.rows[i] # ThisRow
        <4>1. ThisRow \notin DOMAIN received
          BY Arrival
        <4>2. Backed(old, received)
          BY <1>2, <1>3 DEF Inv, BinsBacked
        <4>3. QED
          BY <4>1, <4>2 DEF Backed, RowsOf
      <3>2. NoRepeat(old)
        BY <1>2, <1>3 DEF Inv, BinsDistinct
      <3>3. QED
        BY <1>b, <3>1, <3>2 DEF NoRepeat
    <2>2. QED
      BY <1>2, <1>3, <1>8, <1>9, <1>10, <2>1 DEF Put, h
  <1>12. Used' = Used
    <2>1. \A g \in HVals : bins'[g] = <<>> <=> bins[g] = <<>>
      <3>1. bins'[h] # <<>> /\ bins[h] # <<>>
        BY <1>2, <1>10
      <3>2. QED
        BY <3>1, <1>10
    <2>2. QED
      BY <2>1 DEF Used
  <1>13. QED
    BY <1>11, <1>12, PutKeeps DEF AddRow, Inv, AbortsAtLimits, Used

-----------------------------------------------------------------------------
\* A secondary row is paired with the rows of its key's bin.
LEMMA EmitKeeps ==
  ASSUME Inv, ~aborted, NEW k \in Keys, NEW tbl \in Tables,
         Len(received) < MaxRows,
         received' = Append(received, [key |-> k, tbl |-> tbl]),
         Emit(k, tbl)
  PROVE  Inv'
  <1>1. PICK n, rows, fit :
          /\ n \in Places(k)
          /\ rows = bins[HVal[k]][n].rows
          /\ fit = IF Len(rows) <= Size - Len(entries) THEN Len(rows)
                   ELSE Size - Len(entries)
          /\ entries' = entries \o [i \in 1 .. fit |-> <<rows[i], ThisRow>>]
          /\ aborted' = (fit < Len(rows))
          /\ tbl = "secondary" /\ bins' = bins
    BY DEF Emit
  <1>2. PICK bin : bin = bins[HVal[k]][n]
    OBVIOUS
  <1>3. /\ HVal[k] \in HVals /\ n \in DOMAIN bins[HVal[k]]
        /\ bin \in Bin /\ bin.key = k /\ Backed(bin, received) /\ rows = bin.rows
    BY <1>1, <1>2, HashAssumption, ElementOfSeq, LenProperties
       DEF Inv, TypeOK, Places, BinsBacked
  <1>4. /\ rows \in Seq(Row) /\ Len(rows) \in Nat /\ DOMAIN rows = 1 .. Len(rows)
        /\ entries \in Seq(Row \X Row) /\ Len(entries) \in Nat
        /\ DOMAIN entries = 1 .. Len(entries)
        /\ Len(entries) <= Size /\ Size \in Nat
    BY <1>3, LenProperties, LimitAssumption DEF Bin, Inv, TypeOK, AbortsAtLimits
  <1>5. fit \in Nat /\ fit <= Len(rows) /\ fit <= Size - Len(entries)
    <2>1. fit = IF Len(rows) <= Size - Len(entries) THEN Len(rows)
                ELSE Size - Len(entries)
      BY <1>1
    <2>2. QED
      BY <1>4, <2>1
  <1> DEFINE full == fit < Len(rows)
  <1>a. aborted' = full /\ full \in BOOLEAN
    <2>1. aborted' = (fit < Len(rows))
      BY <1>1, Zenon
    <2>2. (fit < Len(rows)) \in BOOLEAN
      OBVIOUS
    <2>3. QED
      BY <2>1, <2>2, Zenon
  <1> HIDE DEF full
  <1>6. \A i \in 1 .. fit : /\ rows[i] \in RowsOf(bin)
                            /\ rows[i] \in DOMAIN received /\ received[rows[i]].key = k
                            /\ rows[i] \in Row
    <2>1. \A i \in 1 .. fit : i \in DOMAIN rows /\ rows[i] \in Row
      BY <1>4, <1>5, ElementOfSeq
    <2>2. QED
      BY <1>3, <2>1 DEF RowsOf, Backed
  <1>7. PICK new : new = [i \in 1 .. fit |-> <<rows[i], ThisRow>>]
    OBVIOUS
  <1>8. /\ new \in Seq(Row \X Row) /\ Len(new) = fit
        /\ \A i \in 1 .. fit : new[i] = <<rows[i], ThisRow>>
    <2>1. ThisRow \in Row
      BY Arrival
    <2>2. new \in [1 .. fit -> Row \X Row]
      BY <1>6, <1>7, <2>1
    <2>3. QED
      BY <1>5, <1>7, <2>2
  <1>9. /\ entries' \in Seq(Row \X Row)
        /\ Len(entries') = Len(entries) + fit
        /\ DOMAIN entries' = 1 .. Len(entries) + fit
        /\ \A m \in DOMAIN entries : entries'[m] = entries[m]
        /\ \A m \in DOMAIN entries' \ DOMAIN entries :
             \E i \in 1 .. fit : /\ m = Len(entries) + i
                                 /\ entries'[m] = <<rows[i], ThisRow>>
        /\ \A i \in 1 .. fit : /\ Len(entries) + i \in DOMAIN entries'
                               /\ entries'[Len(entries) + i] = <<rows[i], ThisRow>>
    <2>1. entries' = entries \o new
      BY <1>1, <1>7
    <2>2. /\ entries' \in Seq(Row \X Row)
          /\ Len(entries') = Len(entries) + fit
          /\ \A i \in 1 .. Len(entries) + fit :
               entries'[i] = IF i <= Len(entries) THEN entries[i] ELSE new[i - Len(entries)]
      BY <1>4, <1>8, <2>1, ConcatProperties
    <2>3. DOMAIN entries' = 1 .. Len(entries) + fit
      BY <2>2, LenProperties
    <2>4. ASSUME NEW m \in DOMAIN entries' \ DOMAIN entries
          PROVE  \E i \in 1 .. fit : /\ m = Len(entries) + i
                                     /\ entries'[m] = <<rows[i], ThisRow>>
      <3>1. PICK i : i = m - Len(entries)
        OBVIOUS
      <3>2. i \in 1 .. fit /\ entries'[m] = new[i] /\ m = Len(entries) + i
        BY <1>4, <1>5, <2>2, <2>3, <3>1
      <3>3. QED
        BY <1>8, <3>2
    <2>5. \A m \in DOMAIN entries : entries'[m] = entries[m]
      BY <1>4, <1>5, <2>2
    <2>6. ASSUME NEW i \in 1 .. fit
          PROVE  /\ Len(entries) + i \in DOMAIN entries'
                 /\ entries'[Len(entries) + i] = <<rows[i], ThisRow>>
      <3>1. PICK m : m = Len(entries) + i
        OBVIOUS
      <3>2. m \in 1 .. Len(entries) + fit /\ ~(m <= Len(entries)) /\ m - Len(entries) = i
        BY <1>4, <1>5, <3>1
      <3>3. m \in DOMAIN entries' /\ entries'[m] = new[i]
        <4>1. entries'[m] = new[m - Len(entries)]
          BY <2>2, <3>2
        <4>2. QED
          BY <2>3, <3>2, <4>1
      <3>4. QED
        BY <1>8, <3>1, <3>3
    <2>7. QED
      BY <2>2, <2>3, <2>4, <2>5, <2>6
  <1>10. TypeOK'
    <2>1. bins' = bins
      BY <1>1
    <2>2. QED
      BY <1>a, <1>9, <2>1, Arrival DEF Inv, TypeOK
  <1>11. BinsBacked'
    BY <1>1, ArrivalKeeps, Arrival DEF Inv, BinsBacked
  <1>12. EntriesPair'
    <2>1. ASSUME NEW m \in DOMAIN entries' PROVE Pairs(entries'[m], received')
      <3>1. CASE m \in DOMAIN entries
        BY <1>9, <3>1, ArrivalKeeps, Arrival DEF Inv, EntriesPair
      <3>2. CASE m \notin DOMAIN entries
        <4>1. PICK i \in 1 .. fit : entries'[m] = <<rows[i], ThisRow>>
          BY <1>9, <2>1, <3>2
        <4>2. /\ entries'[m][1] = rows[i] /\ entries'[m][2] = ThisRow
              /\ rows[i] \in DOMAIN received /\ received[rows[i]].key = k
          BY <1>6, <4>1
        <4>3. tbl = "secondary"
          BY <1>1
        <4>4. /\ rows[i] \in DOMAIN received' /\ received'[rows[i]].key = k
              /\ rows[i] < ThisRow /\ ThisRow \in DOMAIN received'
              /\ received'[ThisRow].key = k /\ received'[ThisRow].tbl = "secondary"
          BY <4>2, <4>3, Arrival
        <4>5. QED
          BY <4>2, <4>4 DEF Pairs
      <3>3. QED
        BY <3>1, <3>2
    <2>2. QED
      BY <2>1 DEF EntriesPair
  <1>13. RowsKept'
    <2>1. SUFFICES ASSUME NEW i \in DOMAIN received', received'[i].tbl = "primary"
                   PROVE  Kept(i)'
      BY DEF RowsKept
    <2>2. i \in DOMAIN received
      BY <1>1, <2>1, Arrival
    <2>3. Kept(i)
      BY <2>1, <2>2, Arrival DEF Inv, RowsKept
    <2>4. QED
      BY <1>1, <2>2, <2>3, Arrival DEF Kept, Places
  <1>14. PrimaryOnly'
    <2>1. SUFFICES ASSUME NoOrphan'
                   PROVE  /\ \A g \in HVals : \A m \in DOMAIN bins[g] :
                               \A i \in RowsOf(bins[g][m]) : received'[i].tbl = "primary"
                          /\ \A m \in DOMAIN entries' :
                               received'[entries'[m][1]].tbl = "primary"
      BY <1>1 DEF PrimaryOnly
    <2>2. /\ \A g \in HVals : \A m \in DOMAIN bins[g] :
               \A i \in RowsOf(bins[g][m]) : received[i].tbl = "primary"
          /\ \A m \in DOMAIN entries : received[entries[m][1]].tbl = "primary"
      BY <2>1, NoOrphanBefore DEF Inv, PrimaryOnly
    <2>3. /\ \A g \in HVals : \A m \in DOMAIN bins[g] :
               \A i \in RowsOf(bins[g][m]) : i \in DOMAIN received
          /\ \A m \in DOMAIN entries : entries[m][1] \in DOMAIN received
      BY DEF Inv, BinsBacked, Backed, EntriesPair, Pairs
    <2>4. ASSUME NEW m \in DOMAIN entries'
          PROVE  received'[entries'[m][1]].tbl = "primary"
      <3>1. CASE m \in DOMAIN entries
        BY <1>9, <2>2, <2>3, <3>1, Arrival
      <3>2. CASE m \notin DOMAIN entries
        <4>1. PICK i \in 1 .. fit : entries'[m] = <<rows[i], ThisRow>>
          BY <1>9, <2>4, <3>2
        <4>2. entries'[m][1] = rows[i]
          BY <4>1
        <4>3. received[rows[i]].tbl = "primary" /\ rows[i] \in DOMAIN received
          BY <1>2, <1>3, <1>6, <2>2
        <4>4. QED
          BY <4>2, <4>3, Arrival
      <3>3. QED
        BY <3>1, <3>2
    <2>5. ASSUME NEW g \in HVals, NEW m \in DOMAIN bins[g], NEW i \in RowsOf(bins[g][m])
          PROVE  received'[i].tbl = "primary"
      BY <2>2, <2>3, Arrival
    <2>6. QED
      BY <2>4, <2>5
  <1>15. AbortsAtLimits'
    <2>1. Len(entries') <= Size /\ (full => Len(entries') = Size)
      <3>1. fit = IF Len(rows) <= Size - Len(entries) THEN Len(rows)
                  ELSE Size - Len(entries)
        BY <1>1
      <3>2. full => fit = Size - Len(entries)
        BY <1>4, <3>1 DEF full
      <3>3. Len(entries') = Len(entries) + fit
        BY <1>9
      <3>4. QED
        BY <1>4, <1>5, <3>2, <3>3
    <2>2. bins' = bins
      BY <1>1
    <2>3. QED
      BY <1>a, <2>1, <2>2 DEF Inv, AbortsAtLimits, TableFull
  <1>16. IsFiniteSet(Used')
    BY <1>1 DEF Inv, Used
  <1>17. BinsDistinct'
    BY <1>1 DEF Inv, BinsDistinct
  <1>18. EntriesDistinct'
    <2>1. \A m \in DOMAIN entries : entries'[m][2] # ThisRow
      BY <1>9, Arrival DEF Inv, EntriesPair, Pairs
    <2>2. ASSUME NEW m \in DOMAIN entries' \ DOMAIN entries,
                 NEW l \in DOMAIN entries' \ DOMAIN entries, entries'[m] = entries'[l]
          PROVE  m = l
      <3>1. PICK i \in 1 .. fit : m = Len(entries) + i /\ entries'[m] = <<rows[i], ThisRow>>
        BY <1>9
      <3>2. PICK j \in 1 .. fit : l = Len(entries) + j /\ entries'[l] = <<rows[j], ThisRow>>
        BY <1>9
      <3>3. rows[i] = rows[j]
        BY <2>2, <3>1, <3>2
      <3>4. i \in DOMAIN rows /\ j \in DOMAIN rows
        BY <1>4, <1>5
      <3>5. i = j
        BY <1>2, <1>3, <3>3, <3>4 DEF Inv, BinsDistinct, NoRepeat
      <3>6. QED
        BY <3>1, <3>2, <3>5
    <2>3. \A m \in DOMAIN entries' \ DOMAIN entries : entries'[m][2] = ThisRow
      BY <1>9
    <2>4. \A m, l \in DOMAIN entries : entries'[m] = entries'[l] => m = l
      BY <1>9 DEF Inv, EntriesDistinct
    <2>5. QED
      BY <2>1, <2>2, <2>3, <2>4 DEF EntriesDistinct
  <1>19. AllPaired'
    <2> SUFFICES ASSUME ~aborted', NEW i \in DOMAIN received', NEW j \in DOMAIN received',
                        Joins(i, j)'
                 PROVE  Paired(i, j)'
      BY DEF AllPaired
    <2>1. i \in DOMAIN received
      <3>1. i < j /\ i # ThisRow
        BY Arrival DEF Joins
      <3>2. QED
        BY <3>1, Arrival
    <2>2. CASE j \in DOMAIN received
      <3>1. Joins(i, j)
        BY <2>1, <2>2, Arrival DEF Joins
      <3>2. PICK m \in DOMAIN entries : entries[m] = <<i, j>>
        BY <2>1, <2>2, <3>1 DEF Inv, AllPaired, Paired
      <3>3. m \in DOMAIN entries' /\ entries'[m] = <<i, j>>
        BY <1>4, <1>5, <1>9, <3>2
      <3>4. QED
        BY <3>3 DEF Paired
    <2>3. CASE j = ThisRow
      <3>1. received[i].tbl = "primary" /\ received[i].key = k
        BY <2>1, <2>3, Arrival DEF Joins
      <3>2. PICK m \in Places(k) : i \in RowsOf(bins[HVal[k]][m])
        BY <2>1, <3>1 DEF Inv, RowsKept, Kept
      <3>3. m = n
        BY <1>1, <1>3, <3>2 DEF Inv, BinsDistinct, Places
      <3>4. PICK q \in DOMAIN rows : rows[q] = i
        BY <1>2, <1>3, <3>2, <3>3 DEF RowsOf
      <3>5. ~full
        BY <1>a
      <3>6. q \in 1 .. fit
        BY <1>4, <1>5, <3>5 DEF full
      <3>7. Len(entries) + q \in DOMAIN entries' /\ entries'[Len(entries) + q] = <<i, ThisRow>>
        BY <1>9, <3>4, <3>6
      <3>8. QED
        BY <2>3, <3>7 DEF Paired
    <2>4. QED
      BY <2>2, <2>3, Arrival
  <1>20. QED
    BY <1>10, <1>11, <1>12, <1>13, <1>14, <1>15, <1>16, <1>17, <1>18, <1>19 DEF Inv

-----------------------------------------------------------------------------
LEMMA InitInv == Init => Inv
  <1> SUFFICES ASSUME Init PROVE Inv
    OBVIOUS
  <1>1. TypeOK
    <2>1. \A S : <<>> \in Seq(S)
      BY EmptySeq
    <2>2. QED
      BY <2>1 DEF Init, TypeOK
  <1>2. Used = {}
    BY DEF Init, Used
  <1>3. IsFiniteSet(Used) /\ Cardinality(Used) = 0
    BY <1>2, FS_EmptySet
  <1>4. AbortsAtLimits
    BY <1>3, LimitAssumption DEF Init, AbortsAtLimits, Used
  <1>5. BinsBacked /\ EntriesPair /\ RowsKept /\ PrimaryOnly
    BY DEF Init, BinsBacked, EntriesPair, RowsKept, PrimaryOnly
  <1>6. BinsDistinct /\ EntriesDistinct /\ AllPaired
    BY DEF Init, BinsDistinct, EntriesDistinct, AllPaired
  <1>7. QED
    BY <1>1, <1>3, <1>4, <1>5, <1>6 DEF Inv

LEMMA NextInv == Inv /\ [Next]_vars => Inv'
  <1> SUFFICES ASSUME Inv, [Next]_vars PROVE Inv'
    OBVIOUS
  <1>1. CASE UNCHANGED vars
    BY <1>1 DEF vars, Inv, TypeOK, Used, BinsBacked, EntriesPair, RowsKept, Kept, Places,
                PrimaryOnly, NoOrphan, Joins, AbortsAtLimits, TableFull,
                BinsDistinct, EntriesDistinct, AllPaired, Paired
  <1>2. CASE Next
    <2>1. PICK k \in Keys, flow \in Flows : Update(k, TableOf(flow))
      BY <1>2 DEF Next
    <2>2. PICK tbl \in Tables : tbl = TableOf(flow)
      BY DEF TableOf, Tables
    <2>3. /\ ~aborted /\ Len(received) < MaxRows
          /\ received' = Append(received, [key |-> k, tbl |-> tbl])
      BY <2>1, <2>2 DEF Update
    <2>4. CASE OpenChain(k, tbl)
      BY <2>3, <2>4, OpenChainKeeps
    <2>5. CASE ExtendChain(k, tbl)
      BY <2>3, <2>5, ExtendChainKeeps
    <2>6. CASE SkipUnmatched(k, tbl)
      <3>1. /\ tbl = "secondary" /\ Places(k) = {}
            /\ UNCHANGED <<bins, entries>> /\ aborted' = aborted
        BY <2>6 DEF SkipUnmatched
      <3>2. aborted' \in BOOLEAN /\ ~aborted'
        BY <2>3, <3>1 DEF Inv, TypeOK
      <3>3. QED
        BY <2>3, <3>1, <3>2, SkipKeeps
    <2>7. CASE AddRow(k, tbl)
      BY <2>3, <2>7, AddRowKeeps
    <2>8. CASE Emit(k, tbl)
      BY <2>3, <2>8, EmitKeeps
    <2>9. QED
      BY <2>1, <2>2, <2>4, <2>5, <2>6, <2>7, <2>8 DEF Update
  <1>3. QED
    BY <1>1, <1>2

LEMMA Invariance == Spec => []Inv
  BY InitInv, NextInv, PTL DEF Spec

\* Typing: rows, bins and entries stay what cheetah_join.c declares them to be.
THEOREM Typing == Spec => []TypeOK
  <1>1. Inv => TypeOK
    BY DEF Inv
  <1>2. QED
    BY <1>1, Invariance, PTL

\* KeysAreNeverMixed: the two rows of an entry have one key, however keys
\* collide (the chains of cheetah_join.c:47-121).
THEOREM KeysAreNeverMixed == Spec => []SameKeyOnly
  <1>1. Inv => SameKeyOnly
    BY DEF Inv, EntriesPair, Pairs, SameKeyOnly
  <1>2. QED
    BY <1>1, Invariance, PTL

\* EveryPairOnce: until an assert ends the master, every pair of rows that joins
\* is in the result exactly once, whatever keys collide and whatever arrays are
\* doubled (cheetah_join.c:49-139).
THEOREM EveryPairOnce == Spec => []JoinComplete
  <1>1. Inv => JoinComplete
    <2> SUFFICES ASSUME Inv, ~aborted, NEW i \in DOMAIN received, NEW j \in DOMAIN received,
                        Joins(i, j)
                 PROVE  Times(i, j) = 1
      BY DEF JoinComplete
    <2> DEFINE N == {n \in DOMAIN entries : entries[n] = <<i, j>>}
    <2>1. PICK n \in DOMAIN entries : entries[n] = <<i, j>>
      BY DEF Inv, AllPaired, Paired
    <2>2. \A m \in N : m = n
      BY <2>1 DEF Inv, EntriesDistinct
    <2>3. N = {n}
      BY <2>1, <2>2
    <2> HIDE DEF N
    <2>4. Cardinality(N) = 1
      BY <2>3, FS_Singleton, Zenon
    <2>5. QED
      BY <2>4 DEF Times, N
  <1>2. QED
    BY <1>1, Invariance, PTL

\* OnlyJoiningRowsArePaired: while no secondary row precedes its key's primary
\* rows, every entry is a pair that joins.
THEOREM OnlyJoiningRowsArePaired == Spec => []JoinExact
  <1>1. Inv => JoinExact
    BY DEF Inv, EntriesPair, Pairs, PrimaryOnly, JoinExact, Joins
  <1>2. QED
    BY <1>1, Invariance, PTL

\* LimitsHold: the result and the hash table are never overrun, and an assert
\* ends the master only when one of them is full.
THEOREM LimitsHold == Spec => []AbortsAtLimits
  <1>1. Inv => AbortsAtLimits
    BY DEF Inv
  <1>2. QED
    BY <1>1, Invariance, PTL

\* ArraysAreLargeEnough: a bin's array always has room for its rows, through any
\* number of doublings (cheetah_join.c:97-107).
THEOREM ArraysAreLargeEnough == Spec => []RowsFit
  <1>1. Inv => RowsFit
    BY DEF Inv, BinsBacked, Backed, RowsFit
  <1>2. QED
    BY <1>1, Invariance, PTL
=============================================================================
