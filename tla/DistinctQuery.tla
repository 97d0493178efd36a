---------------------------- MODULE DistinctQuery ----------------------------
(***************************************************************************)
(* A DISTINCT query end to end: rows cross the switch's program            *)
(* (DistinctSwitch), and the master collects the values of the rows that   *)
(* reach it (DistinctMaster).  A forwarded row may be lost at the master's *)
(* full receive ring; it is not sent again, and the switch goes on         *)
(* dropping its value for as long as a cache remembers it.                 *)
(***************************************************************************)
EXTENDS DistinctSwitch, Sequences

CONSTANTS HVals, HVal, Size  \* of DistinctMaster

VARIABLES lost,                           \* values of rows lost (history)
          results, chain, heads, overrun  \* of DistinctMaster

masterVars == <<results, chain, heads, overrun>>
queryVars == <<vars, lost, masterVars>>

Master == INSTANCE DistinctMaster

ASSUME MasterAssumption == Master!DistinctMasterAssumption

QueryTypeOK == TypeOK /\ Master!TypeOK /\ lost \subseteq Values

QueryInit == Init /\ Master!Init /\ lost = {}

\* The row reaches the master, whose loop passes its value to the update.
Receive(v) == Master!Update(v) /\ UNCHANGED lost

Lose(v) == lost' = lost \union {v} /\ UNCHANGED masterVars

\* A worker's next packet crosses the switch.
Send(v) ==
  /\ ~overrun
  /\ Ingress(v)
  /\ \/ Hits(v) /\ UNCHANGED <<lost, masterVars>>
     \/ ~Hits(v) /\ (Receive(v) \/ Lose(v))

\* The program is loaded, and the master started, for another query.
Restart ==
  /\ Load
  /\ lost' = {}
  /\ results' = <<>>
  /\ chain' = [h \in HVals |-> <<>>]
  /\ heads' = <<>>
  /\ overrun' = FALSE

QueryNext == (\E v \in Values : Send(v)) \/ Restart

QuerySpec == QueryInit /\ [][QueryNext]_queryVars

-----------------------------------------------------------------------------
Answered == {results[n] : n \in DOMAIN results}

\* AnswerIsDistinct: the result lists every value that was sent, once, except
\* values of which a row was lost and those that the switch cannot tell from
\* others: whatever the caches forget, send again or drop, and however values
\* collide in the switch and in the master's table (cheetah_distinct.p4:77-114,
\* cheetah_aggregate_processing.c:116-193).
AnswerIsDistinct ==
  ~overrun =>
    /\ Answered \subseteq forwarded
    /\ (forwarded \union {v \in pruned : ~Spoiled(v)}) \ lost \subseteq Answered
    /\ Len(results) = Cardinality(Answered)

\* EveryValueIsAnswered: "any given list of values", for which the code "does not
\* make any assumptions" (README.md:22), is answered with every value of which no
\* row was lost.  The value 0 can be dropped unseen.
EveryValueIsAnswered ==
  ~overrun => (forwarded \union pruned) \ lost \subseteq Answered

\* FreeIsClean: the master's free is sound exactly as long as no two values of
\* the answer share a hash (cheetah_aggregate_processing.c:101-114).
FreeIsClean == Master!FreeIsClean
=============================================================================
