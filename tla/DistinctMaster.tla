--------------------------- MODULE DistinctMaster ---------------------------
(***************************************************************************)
(* The master's DISTINCT, host/cheetah_aggregate_processing.c:73-193.      *)
(*                                                                         *)
(* Each value met is written to result_array and has an entry in the chain *)
(* behind its hash; ptr_array holds the heads of the chains only.  As in   *)
(* JoinMaster, hsearch_r finds a chain by its hash alone.                  *)
(***************************************************************************)
EXTENDS Naturals, Sequences, FiniteSets

CONSTANTS Values,  \* the values of the rows
          HVals,   \* the hashes hsearch_r computes
          HVal,    \* HVal[v]: the hash of v's bytes
          Size     \* values allocated for result_array

\* What the constants have to satisfy.
DistinctMasterAssumption ==
  /\ Size \in Nat
  /\ HVal \in [Values -> HVals]

VARIABLES results,  \* result_array, in order of appearance
          chain,    \* behind each hash, the values of its entries
          heads,    \* ptr_array[0 .. current_hash_bins - 1], as hashes
          overrun   \* a value was written past the end of result_array

vars == <<results, chain, heads, overrun>>

TypeOK ==
  /\ results \in Seq(Values)
  /\ chain \in [HVals -> Seq(Values)]
  /\ heads \in Seq(HVals)
  /\ overrun \in BOOLEAN

Init ==
  /\ results = <<>>
  /\ chain = [h \in HVals |-> <<>>]
  /\ heads = <<>>
  /\ overrun = FALSE

-----------------------------------------------------------------------------
Found(v) == chain[HVal[v]] # <<>>

\* Mutant: the walk looks at the head of the chain only.
InChainHead(v) == Found(v) /\ Head(chain[HVal[v]]) = v

\* The walk along the chain meets the value.
InChain(v) == \E n \in DOMAIN chain[HVal[v]] : chain[HVal[v]][n] = v

\* result_array[current_entries], which nothing compares with size.  What an
\* overrun does is undefined: the model stops.
Record(v) ==
  \/ Len(results) < Size /\ results' = Append(results, v) /\ UNCHANGED overrun
  \/ Len(results) >= Size /\ overrun' = TRUE /\ UNCHANGED results

\* No entry under the value's hash: it becomes the head of a chain.  The hash
\* table takes at least Size entries, so result_array is overrun before hsearch_r
\* can refuse one.
StartChain(v) ==
  /\ ~Found(v)
  /\ Record(v)
  /\ chain' = [chain EXCEPT ![HVal[v]] = <<v>>]
  /\ heads' = Append(heads, HVal[v])

\* Mutant: an entry linked behind another is put in ptr_array as well.
ExtendChainListing(v) ==
  /\ Found(v) /\ ~InChain(v)
  /\ Record(v)
  /\ chain' = [chain EXCEPT ![HVal[v]] = Append(@, v)]
  /\ heads' = Append(heads, HVal[v])

\* The chain lacks the value: it is linked at its end, and not in ptr_array.
ExtendChain(v) ==
  /\ Found(v) /\ ~InChain(v)
  /\ Record(v)
  /\ chain' = [chain EXCEPT ![HVal[v]] = Append(@, v)]
  /\ UNCHANGED heads

SkipKnown(v) ==
  /\ InChain(v)
  /\ UNCHANGED vars

Update(v) ==
  /\ ~overrun
  /\ StartChain(v) \/ ExtendChain(v) \/ SkipKnown(v)

Next == \E v \in Values : Update(v)

Spec == Init /\ [][Next]_vars

-----------------------------------------------------------------------------
\* What cheetah_aggregate_processing_distinct_free does in a state: it walks
\* current_entries slots of ptr_array, of which current_hash_bins are written,
\* and frees the head it finds there and the entry after it.
WildSlots == Len(results) - Len(heads)
Freed(h) == [n \in {1, 2} \cap DOMAIN chain[h] |-> chain[h][n]]

\* FreeIsClean: without collisions the free touches written slots only and
\* frees every entry.  Each collision makes it read one slot that was never
\* written.
FreeIsClean ==
  ~overrun =>
    /\ WildSlots = Cardinality({v \in {results[n] : n \in DOMAIN results} :
                                  Head(chain[HVal[v]]) # v})
    /\ WildSlots = 0 => \A h \in HVals : Freed(h) = chain[h]
=============================================================================
