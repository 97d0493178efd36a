------------------------------ MODULE TopNQuery ------------------------------
(***************************************************************************)
(* A TOP-N query: rows cross the switch's program (TopNSwitch), and those  *)
(* of the rows it forwards that reach the master are aggregated            *)
(* (TopNMaster).  The master's program has no branch for TOP-N             *)
(* (host/cheetah_control_flow.c:93-119), so the two are joined the way its *)
(* loop joins the others.  A forwarded row may be lost at the master's     *)
(* full receive ring, which is left to chance here; it is not sent again,  *)
(* and the switch has counted it.                                          *)
(***************************************************************************)
EXTENDS Integers, Sequences, FiniteSets

CONSTANTS Values, N, FirstMin, HalfWord,
          MaxRows  \* rows the workers send (bound)

VARIABLES sent,  \* the rows that have reached the switch (history)
          counter, minimum, counterTwo, forwarded, pruned,  \* of TopNSwitch
          rx,    \* forwarded rows in the master's ring and burst, in order
          lost,  \* forwarded rows that found the ring full (history)
          results, received                                 \* of TopNMaster

switchVars == <<counter, minimum, counterTwo, forwarded, pruned>>
ringVars == <<rx, lost>>
masterVars == <<results, received>>
vars == <<sent, switchVars, ringVars, masterVars>>

Switch == INSTANCE TopNSwitch
Master == INSTANCE TopNMaster

ASSUME MasterAssumption == Master!TopNAssumption
ASSUME SwitchAssumption == Switch!TopNSwitchAssumption
ASSUME RowsAssumption == MaxRows \in Nat

TypeOK ==
  /\ sent \in Seq(Values)
  /\ Switch!TypeOK
  /\ rx \in Seq(Values) /\ lost \in Seq(Values)
  /\ Master!TypeOK

Init ==
  /\ sent = <<>>
  /\ Switch!Init
  /\ rx = <<>> /\ lost = <<>>
  /\ Master!Init

\* A forwarded row arrives at the master's port, where the ring may be full.
Arrive(v) ==
  \/ rx' = Append(rx, v) /\ UNCHANGED lost
  \/ lost' = Append(lost, v) /\ UNCHANGED rx

\* A worker's next packet crosses the switch, which drops or forwards it.
Send(v) ==
  /\ Len(sent) < MaxRows
  /\ sent' = Append(sent, v)
  /\ Switch!Ingress(v)
  /\ \/ Switch!Prunes(v) /\ UNCHANGED ringVars
     \/ ~Switch!Prunes(v) /\ Arrive(v)
  /\ UNCHANGED masterVars

\* The master's loop takes the next row of its burst.
Aggregate ==
  /\ rx # <<>>
  /\ Master!Update(Head(rx))
  /\ rx' = Tail(rx)
  /\ UNCHANGED <<sent, switchVars, lost>>

Next == (\E v \in Values : Send(v)) \/ Aggregate

Spec == Init /\ [][Next]_vars

-----------------------------------------------------------------------------
\* MasterExact: at every moment the array holds the N greatest of the rows that
\* have reached it, each as often as it did, in descending order
\* (cheetah_aggregate_processing.c:34-71).
MasterExact == Master!TopNExact

\* AnswerAboveCutoff: dropping never runs ahead of the rows it counts on.  When
\* a row has been dropped, the master's array is full of rows above the cutoff,
\* twice the least of the first N, or every place that is not is made up for,
\* with one to spare, by rows above it that are still on their way or were lost
\* at the ring (cheetah_topn.p4:110-127 against cheetah_control_flow.c:93-119).
AnswerAboveCutoff ==
  pruned # {} =>
    LET cut == 2 * minimum
        listed == Master!Above(cut, results)
        missing == Master!Above(cut, rx) + Master!Above(cut, lost)
    IN  listed = N \/ listed + missing > N

\* AnswerIsTopN: once all rows have arrived and none of them was lost, the
\* master has the N greatest of all rows sent, as the repository's Top-N test
\* (cheetah_aggregate_processing.c:358-399) expects.
AnswerIsTopN == rx = <<>> /\ lost = <<>> => Master!IsTopNOf(results, sent)
=============================================================================
