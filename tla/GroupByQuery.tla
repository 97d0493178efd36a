---------------------------- MODULE GroupByQuery ----------------------------
(***************************************************************************)
(* A GROUP BY query end to end: workers send their tables through the      *)
(* switch's program (GroupBySwitch), and the rows it forwards cross the    *)
(* master's bounded receive ring to the aggregation (GroupByMaster).       *)
(*                                                                         *)
(* Packets of different workers meet at the switch in any order.  Nothing  *)
(* is ever sent again: a row that finds the receive ring full is lost,     *)
(* and the switch has already counted on it to drop smaller rows.          *)
(***************************************************************************)
EXTENDS GroupBySwitch, Sequences, FiniteSets

CONSTANTS Workers,      \* the hosts that hold a part of the table
          TableLength,  \* rows each of them sends
          RxSize,       \* descriptors of the master's receive ring
          BurstSize,    \* RECEIVER_BATCH_SIZE
          HVals, HVal, Size, None  \* of GroupByMaster

VARIABLES table,   \* the rows each worker sends
          sent,    \* how many of them it has sent
          rx,      \* rows in the master's receive ring
          batch,   \* rows of the last burst still to be aggregated
          lost,    \* rows that found the ring full (history)
          ptrArray, chain, overrun, received  \* of GroupByMaster

masterVars == <<ptrArray, chain, overrun, received>>
queryVars == <<table, sent, rx, batch, lost, vars, masterVars>>

Master == INSTANCE GroupByMaster

ASSUME QueryAssumption ==
  /\ QueryFlow \in Flows
  /\ TableLength \in Nat
  /\ RxSize \in Nat \ {0}
  /\ BurstSize \in Nat \ {0}
  /\ Master!MasterAssumption

\* The rows of the query: every packet of a worker has the query's flow.
QueryRows == {r \in Rows : r.flow = QueryFlow}

QueryTypeOK ==
  /\ table \in [Workers -> [1 .. TableLength -> QueryRows]]
  /\ sent \in [Workers -> 0 .. TableLength]
  /\ rx \in Seq(QueryRows) /\ Len(rx) <= RxSize
  /\ batch \in Seq(QueryRows) /\ Len(batch) <= BurstSize
  /\ lost \subseteq QueryRows
  /\ TypeOK
  /\ Master!TypeOK

QueryInit ==
  /\ table \in [Workers -> [1 .. TableLength -> QueryRows]]
  /\ sent = [w \in Workers |-> 0]
  /\ rx = <<>>
  /\ batch = <<>>
  /\ lost = {}
  /\ Init
  /\ Master!Init

-----------------------------------------------------------------------------
\* Mutant: the port takes a packet that the ring has no room for.
ArriveUnchecked(r) == rx' = Append(rx, r) /\ UNCHANGED lost

\* A packet arrives at the master's port, where a full ring refuses it.
Arrive(r) ==
  \/ Len(rx) < RxSize /\ rx' = Append(rx, r) /\ UNCHANGED lost
  \/ Len(rx) = RxSize /\ lost' = lost \union {r} /\ UNCHANGED rx

\* A worker's next packet crosses the switch, which drops or forwards it.
Send(w) ==
  /\ sent[w] < TableLength
  /\ sent' = [sent EXCEPT ![w] = @ + 1]
  /\ LET r == table[w][sent[w] + 1]
     IN  /\ Ingress(r)
         /\ \/ Prunes(r) /\ UNCHANGED <<rx, lost>>
            \/ ~Prunes(r) /\ Arrive(r)
  /\ UNCHANGED <<table, batch, masterVars>>

\* Mutants: the ring is emptied whatever was handed over; only a full burst is.
ReceiveEmptying(n) ==
  /\ batch = <<>>
  /\ n <= Len(rx)
  /\ batch' = SubSeq(rx, 1, n)
  /\ rx' = <<>>
  /\ UNCHANGED <<table, sent, lost, vars, masterVars>>
ReceiveFullBurst(n) ==
  /\ batch = <<>>
  /\ n <= Len(rx) /\ n = BurstSize
  /\ batch' = SubSeq(rx, 1, n)
  /\ rx' = SubSeq(rx, n + 1, Len(rx))
  /\ UNCHANGED <<table, sent, lost, vars, masterVars>>

\* rte_eth_rx_burst hands over what has arrived, up to a batch, and the
\* receiver unpacks it into the payload arrays.
Receive(n) ==
  /\ batch = <<>>
  /\ n <= Len(rx)
  /\ batch' = SubSeq(rx, 1, n)
  /\ rx' = SubSeq(rx, n + 1, Len(rx))
  /\ UNCHANGED <<table, sent, lost, vars, masterVars>>

\* The master's loop aggregates the burst, row by row.
Aggregate ==
  /\ batch # <<>>
  /\ Master!Update(Head(batch).key, Head(batch).value)
  /\ batch' = Tail(batch)
  /\ UNCHANGED <<table, sent, rx, lost, vars>>

Poll == \E n \in 1 .. BurstSize : Receive(n)

QueryNext ==
  \/ \E w \in Workers : Send(w)
  \/ Poll
  \/ Aggregate

QuerySpec == QueryInit /\ [][QueryNext]_queryVars

\* Workers send, and the master's loop runs, without rest.
FairSpec ==
  /\ QuerySpec
  /\ \A w \in Workers : WF_queryVars(Send(w))
  /\ WF_queryVars(Poll)
  /\ WF_queryVars(Aggregate)

-----------------------------------------------------------------------------
TableRows == {table[w][n] : w \in Workers, n \in 1 .. TableLength}
KeyValues(k) == {r.value : r \in {q \in TableRows : q.key = k}}

IsMaximum(x, k) ==
  IF KeyValues(k) = {} THEN x = None
  ELSE x \in KeyValues(k) /\ \A v \in KeyValues(k) : v <= x

\* Everything that was sent has been aggregated, dropped or lost.
Quiet ==
  /\ \A w \in Workers : sent[w] = TableLength
  /\ rx = <<>> /\ batch = <<>>

\* OnlyLostKeysSuffer: at the end every key has its exact maximum over all the
\* workers' rows, whatever their interleaving and whatever the switch dropped,
\* except a key of which the receive ring lost a row: nothing else is damaged
\* (unless the master ran out of groups, and wrote past its list).
OnlyLostKeysSuffer ==
  Quiet /\ ~overrun =>
    \A k \in Keys : (\A r \in lost : r.key # k) => IsMaximum(Master!Answer[k], k)

\* LateRowsCovered: a row that was dropped is covered by a row the master
\* holds, is about to aggregate, or lost: dropping never runs ahead of rows
\* still on their way (groupby.p4:620-657 against control_flow.c:92-103).
LateRowsCovered ==
  \A p \in pruned :
    \/ \E r \in received : r.key = p.key /\ r.value > p.value
    \/ \E n \in DOMAIN rx : Beats(rx[n], p)
    \/ \E n \in DOMAIN batch : Beats(batch[n], p)
    \/ Dominated(lost, p)

\* Drains: every query comes to an end, or overruns the master's list.
Drains == <>(Quiet \/ overrun)
=============================================================================
