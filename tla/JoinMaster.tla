----------------------------- MODULE JoinMaster -----------------------------
(***************************************************************************)
(* The master's JOIN, host/cheetah_join.c as host/cheetah_control_flow.c   *)
(* drives it: the query that is compiled in.                               *)
(*                                                                         *)
(* Rows of the primary table (flow 1) are collected in bins, one per key;  *)
(* a row of the secondary table is joined with the rows its key's bin      *)
(* holds at that moment.  Bins whose keys hash alike form a chain.         *)
(*                                                                         *)
(* A row is known by its place in the order of arrival.  hsearch_r finds   *)
(* an entry by the hash of its key alone: the key that was stored points   *)
(* into the stack frame of cheetah_join_update and always compares equal.  *)
(***************************************************************************)
EXTENDS Integers, Sequences, FiniteSets

CONSTANTS Keys,      \* the join keys
          Flows,     \* the flow ids of the packets
          HVals,     \* the hashes hsearch_r computes
          HVal,      \* HVal[k]: the hash of k's bytes
          Size,      \* entries allocated for the result: 100000
          HashSize,  \* entries the hash table takes: the first prime from 40000
          InitCap,   \* row ids allocated for a new bin: 1024
          MaxRows    \* rows the workers send (bound)

PrimaryFlow == 1
Tables == {"primary", "secondary"}

ASSUME LimitAssumption ==
  /\ Size \in Nat \ {0}
  /\ HashSize \in Nat
  /\ InitCap \in Nat \ {0}
  /\ MaxRows \in Nat
ASSUME HashAssumption == HVal \in [Keys -> HVals]

VARIABLES received,  \* the rows passed to cheetah_join_update (history)
          bins,      \* the chain of bins behind each hash
          entries,   \* the result: pairs tbl_1_row, tbl_2_row
          aborted    \* an assert ended the master

vars == <<received, bins, entries, aborted>>

Row == 1 .. MaxRows
Bin == [key : Keys, rows : Seq(Row), cap : Nat]

TypeOK ==
  /\ received \in Seq([key : Keys, tbl : Tables])
  /\ bins \in [HVals -> Seq(Bin)]
  /\ entries \in Seq(Row \X Row)
  /\ aborted \in BOOLEAN

Init ==
  /\ received = <<>>
  /\ bins = [h \in HVals |-> <<>>]
  /\ entries = <<>>
  /\ aborted = FALSE

-----------------------------------------------------------------------------
\* Mutant: rows counted from 0.
ThisRowFromZero == Len(received)

\* The row being added, and the bin it would open.
ThisRow == Len(received) + 1
NewBin(k) == [key |-> k, rows |-> <<ThisRow>>, cap |-> InitCap]

\* hsearch_r finds an entry by its hash.
Found(k) == bins[HVal[k]] # <<>>

\* Mutant: the walk stops at any bin of the chain.
PlacesInChain(k) == DOMAIN bins[HVal[k]]

\* The walk along the chain finds the key's bin.
Places(k) == {n \in DOMAIN bins[HVal[k]] : bins[HVal[k]][n].key = k}

\* hsearch_r's ENTER fails on a full table, and the assert ends the program.
TableFull == Cardinality({h \in HVals : bins[h] # <<>>}) >= HashSize

\* No entry under the key's hash: a bin is opened, whatever table the row is of.
OpenChain(k, tbl) ==
  /\ ~Found(k)
  /\ IF TableFull
     THEN aborted' = TRUE /\ UNCHANGED bins
     ELSE bins' = [bins EXCEPT ![HVal[k]] = <<NewBin(k)>>] /\ UNCHANGED aborted
  /\ UNCHANGED entries

\* Mutant: a colliding key's first row is not kept.
ExtendChainForgetting(k, tbl) ==
  /\ Found(k) /\ Places(k) = {} /\ tbl = "primary"
  /\ UNCHANGED <<bins, entries, aborted>>

\* The chain lacks the key: a primary row opens a bin at its end.
ExtendChain(k, tbl) ==
  /\ Found(k) /\ Places(k) = {} /\ tbl = "primary"
  /\ bins' = [bins EXCEPT ![HVal[k]] = Append(@, NewBin(k))]
  /\ UNCHANGED <<entries, aborted>>

SkipUnmatched(k, tbl) ==
  /\ Found(k) /\ Places(k) = {} /\ tbl = "secondary"
  /\ UNCHANGED <<bins, entries, aborted>>

\* Mutant: the array is doubled when a row has been written past its end.
GrownLate(bin) == IF bin.cap < Len(bin.rows) THEN 2 * bin.cap ELSE bin.cap

\* A full array is doubled before a row is added.
Grown(bin) == IF bin.cap = Len(bin.rows) THEN 2 * bin.cap ELSE bin.cap

\* A further primary row of a key.
AddRow(k, tbl) ==
  /\ tbl = "primary"
  /\ \E n \in Places(k) :
       LET bin == bins[HVal[k]][n]
       IN  bins' = [bins EXCEPT ![HVal[k]][n] =
                      [bin EXCEPT !.rows = Append(@, ThisRow), !.cap = Grown(bin)]]
  /\ UNCHANGED <<entries, aborted>>

\* Mutant: the assert allows current_entries = size + 1.
EmitOneMore(k, tbl) ==
  /\ tbl = "secondary"
  /\ \E n \in Places(k) :
       LET rows == bins[HVal[k]][n].rows
           fit == IF Len(rows) <= Size + 1 - Len(entries) THEN Len(rows)
                  ELSE Size + 1 - Len(entries)
       IN  /\ entries' = entries \o [i \in 1 .. fit |-> <<rows[i], ThisRow>>]
           /\ aborted' = (fit < Len(rows))
  /\ UNCHANGED bins

\* A secondary row is paired with every row of its key's bin, in order; the
\* assert stops the program when the result is full.
Emit(k, tbl) ==
  /\ tbl = "secondary"
  /\ \E n \in Places(k) :
       LET rows == bins[HVal[k]][n].rows
           fit == IF Len(rows) <= Size - Len(entries) THEN Len(rows)
                  ELSE Size - Len(entries)
       IN  /\ entries' = entries \o [i \in 1 .. fit |-> <<rows[i], ThisRow>>]
           /\ aborted' = (fit < Len(rows))
  /\ UNCHANGED bins

\* The master calls cheetah_join_update for each packet of a burst: flow 1 is
\* the primary table and every other flow the secondary one.
TableOf(flow) == IF flow = PrimaryFlow THEN "primary" ELSE "secondary"

Update(k, tbl) ==
  /\ ~aborted
  /\ Len(received) < MaxRows
  /\ \/ OpenChain(k, tbl)
     \/ ExtendChain(k, tbl)
     \/ SkipUnmatched(k, tbl)
     \/ AddRow(k, tbl)
     \/ Emit(k, tbl)
  /\ received' = Append(received, [key |-> k, tbl |-> tbl])

Next == \E k \in Keys, flow \in Flows : Update(k, TableOf(flow))

Spec == Init /\ [][Next]_vars

-----------------------------------------------------------------------------
\* Rows i and j join: i is primary, j is secondary, they share their key, and
\* i came first.
Joins(i, j) ==
  /\ i < j
  /\ received[i].tbl = "primary" /\ received[j].tbl = "secondary"
  /\ received[i].key = received[j].key

\* Every secondary row came after some primary row of its key.
NoOrphan ==
  \A j \in DOMAIN received :
    received[j].tbl = "secondary" => \E i \in 1 .. j - 1 : Joins(i, j)

Times(i, j) == Cardinality({n \in DOMAIN entries : entries[n] = <<i, j>>})

\* JoinComplete: until an assert stops the master, every pair that joins is in
\* the result exactly once, whatever chains, doublings and bins that secondary
\* rows opened lie between.
JoinComplete ==
  ~aborted => \A i, j \in DOMAIN received : Joins(i, j) => Times(i, j) = 1

\* JoinExact: when no secondary row comes before its key's first primary row,
\* the result holds nothing but pairs that join.
JoinExact ==
  NoOrphan => \A n \in DOMAIN entries : Joins(entries[n][1], entries[n][2])

\* SameKeyOnly: even with orphans, and with an assert in between, the two rows
\* of an entry have one key and the second is secondary: chained bins of
\* colliding keys are never mixed up.
SameKeyOnly ==
  \A n \in DOMAIN entries :
    LET i == entries[n][1]  j == entries[n][2]
    IN  /\ i < j
        /\ received[j].tbl = "secondary"
        /\ received[i].key = received[j].key

\* RowsFit: a bin never holds more row ids than its array has room for, through
\* any number of doublings (cheetah_join.c:97-107).
RowsFit ==
  \A h \in HVals : \A n \in DOMAIN bins[h] :
    Len(bins[h][n].rows) <= bins[h][n].cap

\* AbortsAtLimits: an assert ends the master only with the result or the hash
\* table full, and neither is ever overrun.
AbortsAtLimits ==
  /\ Len(entries) <= Size
  /\ Cardinality({h \in HVals : bins[h] # <<>>}) <= HashSize
  /\ aborted => Len(entries) = Size \/ TableFull

-----------------------------------------------------------------------------
\* DisjointJoinIsEmpty: tables without a common key join to nothing, as
\* cheetah_join.c:151-157 ("Disjoint join test.") asserts.
DisjointJoinIsEmpty ==
  (\A i, j \in DOMAIN received :
     received[i].tbl = "primary" /\ received[j].tbl = "secondary" =>
       received[i].key # received[j].key)
  => entries = <<>>
=============================================================================
