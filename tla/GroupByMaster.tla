---------------------------- MODULE GroupByMaster ----------------------------
(***************************************************************************)
(* The master's GROUP BY, host/cheetah_aggregate_processing.c:195-319.     *)
(*                                                                         *)
(* Each group is an entry, listed in ptr_array in the order in which the   *)
(* groups appeared, and also linked into the chain behind its key's hash.  *)
(* The list and the chains are kept by hand, side by side.  As in          *)
(* JoinMaster, hsearch_r finds an entry by the hash of its key alone.      *)
(***************************************************************************)
EXTENDS Naturals, Sequences, FiniteSets

CONSTANTS Keys,    \* the keys of the rows
          Values,  \* the values of the rows
          HVals,   \* the hashes hsearch_r computes
          HVal,    \* HVal[k]: the hash of k's bytes
          Size,    \* pointers allocated for ptr_array
          None     \* stands for the answer of a key without an entry

ASSUME MasterAssumption ==
  /\ Values \subseteq Nat
  /\ None \notin Values
  /\ Size \in Nat
  /\ HVal \in [Keys -> HVals]

VARIABLES ptrArray,  \* ptr_array: the entries, in order of appearance
          chain,     \* behind each hash, the entries by their index in ptrArray
          overrun,   \* a pointer was written past the end of ptr_array
          received   \* the rows passed to the update (history)

vars == <<ptrArray, chain, overrun, received>>

Row == [key : Keys, value : Values]

TypeOK ==
  /\ ptrArray \in Seq(Row)
  /\ chain \in [HVals -> Seq(Nat)]
  /\ overrun \in BOOLEAN
  /\ received \subseteq Row

Init ==
  /\ ptrArray = <<>>
  /\ chain = [h \in HVals |-> <<>>]
  /\ overrun = FALSE
  /\ received = {}

-----------------------------------------------------------------------------
\* hsearch_r finds a chain by its hash.
Found(k) == chain[HVal[k]] # <<>>

\* Mutant: only the head of the chain is compared.
EntryAtHead(k) ==
  {n \in {1} \intersect DOMAIN chain[HVal[k]] : ptrArray[chain[HVal[k]][n]].key = k}

\* The walk along the chain finds the key's entry.
Entry(k) == {n \in DOMAIN chain[HVal[k]] : ptrArray[chain[HVal[k]][n]].key = k}

\* Mutant: the last pointer of the array counts as being past its end.
RecordOneShort(k, v) ==
  IF Len(ptrArray) + 1 < Size
  THEN ptrArray' = Append(ptrArray, [key |-> k, value |-> v]) /\ UNCHANGED overrun
  ELSE overrun' = TRUE /\ UNCHANGED ptrArray

\* The new entry's pointer goes to ptr_array[current_entries], which nothing
\* compares with size.  What an overrun does is undefined: the model stops.
Record(k, v) ==
  IF Len(ptrArray) < Size
  THEN ptrArray' = Append(ptrArray, [key |-> k, value |-> v]) /\ UNCHANGED overrun
  ELSE overrun' = TRUE /\ UNCHANGED ptrArray

\* No entry under the key's hash: the group becomes the head of a chain.
StartChain(k, v) ==
  /\ ~Found(k)
  /\ chain' = [chain EXCEPT ![HVal[k]] = <<Len(ptrArray) + 1>>]
  /\ Record(k, v)

\* Mutant: the new entry is listed and not linked.
ExtendChainUnlinked(k, v) ==
  /\ Found(k) /\ Entry(k) = {}
  /\ UNCHANGED chain
  /\ Record(k, v)

\* The chain lacks the key: the group is linked at its end.
ExtendChain(k, v) ==
  /\ Found(k) /\ Entry(k) = {}
  /\ chain' = [chain EXCEPT ![HVal[k]] = Append(@, Len(ptrArray) + 1)]
  /\ Record(k, v)

\* Mutants: the group takes the last value; it adds the values up.
RaiseToLast(k, v) ==
  /\ \E n \in Entry(k) : ptrArray' = [ptrArray EXCEPT ![chain[HVal[k]][n]].value = v]
  /\ UNCHANGED <<chain, overrun>>
RaiseBySum(k, v) ==
  /\ \E n \in Entry(k) : ptrArray' = [ptrArray EXCEPT ![chain[HVal[k]][n]].value = @ + v]
  /\ UNCHANGED <<chain, overrun>>

\* The group exists and keeps the greater value.
Raise(k, v) ==
  /\ \E n \in Entry(k) :
       ptrArray' = [ptrArray EXCEPT ![chain[HVal[k]][n]].value = IF @ < v THEN v ELSE @]
  /\ UNCHANGED <<chain, overrun>>

Update(k, v) ==
  /\ ~overrun
  /\ StartChain(k, v) \/ ExtendChain(k, v) \/ Raise(k, v)
  /\ received' = received \union {[key |-> k, value |-> v]}

Next == \E k \in Keys, v \in Values : Update(k, v)

Spec == Init /\ [][Next]_vars

-----------------------------------------------------------------------------
\* The answer as the master prints it: cheetah_control_flow.c:158-161.
EntryOf(k) == {n \in DOMAIN ptrArray : ptrArray[n].key = k}
Answer ==
  [k \in Keys |-> IF EntryOf(k) = {} THEN None
                  ELSE ptrArray[CHOOSE n \in EntryOf(k) : TRUE].value]

\* OneGroupPerKey: no key is printed twice, whichever keys share a chain.
OneGroupPerKey == \A k \in Keys : Cardinality(EntryOf(k)) <= 1

\* ListAndChainsAgree: every entry of ptr_array is linked once, in the chain of
\* its key's hash, and no chain links anything else.
ListAndChainsAgree ==
  ~overrun =>
    /\ \A n \in DOMAIN ptrArray :
         \E m \in DOMAIN chain[HVal[ptrArray[n].key]] :
           chain[HVal[ptrArray[n].key]][m] = n
    /\ \A h \in HVals : \A m \in DOMAIN chain[h] :
         /\ chain[h][m] \in DOMAIN ptrArray
         /\ HVal[ptrArray[chain[h][m]].key] = h
         /\ \A l \in DOMAIN chain[h] : chain[h][l] = chain[h][m] => l = m

\* OverrunOnlyBeyondSize: ptr_array is overrun only by more keys than it was
\* sized for, never by colliding or repeated ones.
OverrunOnlyBeyondSize ==
  overrun => Cardinality({r.key : r \in received}) > Size

\* Until then the answer is that of GroupByAnswer, row by row.
Query == INSTANCE GroupByAnswer WITH answer <- Answer
AnswerExact == Query!Spec
=============================================================================
