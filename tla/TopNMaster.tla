----------------------------- MODULE TopNMaster -----------------------------
(***************************************************************************)
(* The master's TOP-N, host/cheetah_aggregate_processing.c:15-71: an array *)
(* of at most N values, kept in descending order by insertion.             *)
(***************************************************************************)
EXTENDS Naturals, Sequences, FiniteSets, SequencesExt

CONSTANTS Values,  \* the values of the rows
          N        \* the rows asked for

\* What the constants have to satisfy.
TopNAssumption ==
  /\ Values \subseteq Nat
  /\ N \in Nat

VARIABLES results,  \* result_array[0 .. current_entries - 1]
          received  \* the values passed to the update, in order (history)

vars == <<results, received>>

TypeOK ==
  /\ results \in Seq(Values)
  /\ received \in Seq(Values)

Init ==
  /\ results = <<>>
  /\ received = <<>>

-----------------------------------------------------------------------------
\* Mutant: the scan stops at the first entry from the front.
PlaceInFront(v) == 0

\* The scan starts at the last entry and passes those less than v: how many
\* entries stay in front of v.
Place(v) ==
  LET stay == {i \in DOMAIN results : results[i] >= v}
  IN  IF stay = {} THEN 0 ELSE CHOOSE i \in stay : \A j \in stay : j <= i

Inserted(v) == InsertAt(results, Place(v) + 1, v)

\* There is room: the entries after v's place move up by one.
Grow(v) ==
  /\ Len(results) < N
  /\ results' = Inserted(v)

\* Mutant: the shift starts one entry too late and writes past the array.
ReplaceOverrunning(v) ==
  /\ Len(results) >= N /\ Place(v) < N
  /\ results' = Inserted(v)

\* The array is full and v beats its last entry, which falls out.
Replace(v) ==
  /\ Len(results) >= N /\ Place(v) < N
  /\ results' = SubSeq(Inserted(v), 1, N)

Keep(v) ==
  /\ Len(results) >= N /\ Place(v) >= N
  /\ UNCHANGED results

Update(v) ==
  /\ Grow(v) \/ Replace(v) \/ Keep(v)
  /\ received' = Append(received, v)

Next == \E v \in Values : Update(v)

Spec == Init /\ [][Next]_vars

-----------------------------------------------------------------------------
Times(v, s) == Cardinality({i \in DOMAIN s : s[i] = v})
Above(v, s) == Cardinality({i \in DOMAIN s : s[i] > v})

\* Sorted: the array is in descending order.
Sorted == \A i, j \in DOMAIN results : i < j => results[i] >= results[j]

\* The N greatest of a sequence of rows, as often as they occur: a value has
\* the places that greater values leave.
IsTopNOf(top, s) ==
  \A v \in Values :
    Times(v, top) = IF Above(v, s) >= N THEN 0
                    ELSE IF Times(v, s) <= N - Above(v, s) THEN Times(v, s)
                    ELSE N - Above(v, s)

\* TopNExact: in every order of arrival, with repeated values, with fewer rows
\* than N and with N = 0, the array holds the N greatest values received, in
\* descending order.
TopNExact == Sorted /\ IsTopNOf(results, received)
=============================================================================
