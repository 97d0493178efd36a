-------------------------- MODULE ControlFlowProofs --------------------------
(***************************************************************************)
(* The printed delay covers the workers whose ACKs are awaited, and a run  *)
(* that hangs has a reason, for any number of workers, awaited ACKs, rows  *)
(* and bursts.                                                             *)
(*                                                                         *)
(* The argument: a worker is done exactly when its ACK has been sent, and  *)
(* an ACK is on its way, gone or heard (WorkersInv); the listener counts   *)
(* the workers it has heard (ListenerInv); and every row sent was          *)
(* received, is on its way or was dropped (RowsInv).                       *)
(***************************************************************************)
EXTENDS ControlFlow, FiniteSetTheorems, TLAPS

Acked(w) == AckOf(w) \in mail \union Gone \/ w \in heard

WorkersInv ==
  \A w \in Workers :
    /\ worker[w] = "done" <=> Acked(w)
    /\ worker[w] = "done" => rows[w] = TableLength
    /\ offloaded /\ Query(w) \notin mail \union Gone =>
         worker[w] \in {"sending", "done"}

ListenerInv ==
  /\ listener # "none" <=> started
  /\ started => offloaded /\ received > 0
  /\ listener = "printed" <=> Enough(heard)

RowsInv == received + wire + dropped = sent

Inv == TypeOK /\ WorkersInv /\ ListenerInv /\ RowsInv

-----------------------------------------------------------------------------
\* A query is no ACK, and each names its worker.
LEMMA DatagramsDiffer ==
  /\ \A v, w : Query(v) # AckOf(w)
  /\ \A v, w : Query(v) = Query(w) => v = w
  /\ \A v, w : AckOf(v) = AckOf(w) => v = w
  <1>1. \A w : /\ Query(w).kind = "query" /\ Query(w).node = w
               /\ AckOf(w).kind = "ack" /\ AckOf(w).node = w
    BY DEF Query, AckOf
  <1>2. QED
    BY <1>1

LEMMA Mailable ==
  ASSUME NEW w \in Workers
  PROVE  Query(w) \in Datagrams /\ AckOf(w) \in Datagrams
  BY DEF Datagrams

LEMMA InitInv == Init => Inv
  <1> SUFFICES ASSUME Init PROVE Inv
    OBVIOUS
  <1>1. TypeOK
    <2>1. 0 \in 0 .. TableLength
      BY NodesAssumption
    <2>2. /\ worker \in [Workers -> {"off", "waiting", "sending", "done"}]
          /\ rows \in [Workers -> 0 .. TableLength]
      BY <2>1 DEF Init
    <2>3. QED
      BY <2>2 DEF Init, TypeOK
  <1>2. WorkersInv
    BY DEF Init, WorkersInv, Acked, Gone
  <1>3. ListenerInv
    BY FS_EmptySet, NodesAssumption DEF Init, ListenerInv, Enough
  <1>4. RowsInv
    BY DEF Init, RowsInv
  <1>5. QED
    BY <1>1, <1>2, <1>3, <1>4 DEF Inv

\* What a process or a datagram may be stays in its set.
LEMMA StepTypes ==
  ASSUME TypeOK, Next
  PROVE  TypeOK'
  <1> USE NodesAssumption DEF TypeOK
  <1>1. ASSUME NEW n \in 0 .. BurstSize, Poll(n) PROVE TypeOK'
    BY <1>1 DEF Poll, listenerVars, workerVars
  <1>2. CASE StartListener \/ Again \/ Leave \/ Signal
    BY <1>2 DEF StartListener, Again, Leave, Signal, masterVars, listenerVars, workerVars, netVars
  <1>3. CASE Offload
    <2>1. {Query(w) : w \in Workers} \subseteq Datagrams
      BY DEF Datagrams
    <2>2. QED
      BY <1>3, <2>1 DEF Offload, Send, listenerVars, workerVars, netVars
  <1>4. ASSUME NEW w \in Workers, Await(w) \/ TakeQuery(w) PROVE TypeOK'
    BY <1>4 DEF Await, TakeQuery, masterVars, listenerVars, netVars
  <1>5. ASSUME NEW w \in Workers, SendRow(w) PROVE TypeOK'
    <2>1. rows[w] + 1 \in 0 .. TableLength
      BY <1>5 DEF SendRow
    <2>2. rows' \in [Workers -> 0 .. TableLength]
      BY <1>5, <2>1 DEF SendRow
    <2>3. QED
      BY <1>5, <2>2 DEF SendRow, masterVars, listenerVars
  <1>6. ASSUME NEW w \in Workers, SendAck(w) PROVE TypeOK'
    <2>1. {AckOf(w)} \subseteq Datagrams
      BY Mailable
    <2>2. QED
      BY <1>6, <2>1 DEF SendAck, Send, masterVars, listenerVars, netVars
  <1>7. CASE BindListener
    BY <1>7 DEF BindListener, masterVars, workerVars, netVars
  <1>8. ASSUME NEW w \in Workers, TakeAck(w) PROVE TypeOK'
    BY <1>8 DEF TakeAck, masterVars, workerVars
  <1>9. ASSUME NEW d \in Datagrams, Refuse(d) \/ Lose(d) PROVE TypeOK'
    BY <1>9 DEF Refuse, Lose, masterVars, listenerVars, workerVars
  <1>10. CASE LoseRow
    BY <1>10 DEF LoseRow, masterVars, listenerVars, workerVars
  <1>11. QED
    BY <1>1, <1>2, <1>3, <1>4, <1>5, <1>6, <1>7, <1>8, <1>9, <1>10
       DEF Next, MasterStep, WorkerStep, ListenerStep

-----------------------------------------------------------------------------
\* Every row that was sent is accounted for.
LEMMA StepRows ==
  ASSUME TypeOK, RowsInv, Next
  PROVE  RowsInv'
  <1> USE DEF TypeOK, RowsInv
  <1>1. ASSUME NEW n \in 0 .. BurstSize, Poll(n) PROVE RowsInv'
    BY <1>1, NodesAssumption DEF Poll
  <1>2. CASE StartListener \/ Again \/ Leave \/ Signal \/ BindListener
    BY <1>2 DEF StartListener, Again, Leave, Signal, BindListener, masterVars, netVars
  <1>3. CASE Offload
    BY <1>3 DEF Offload, Send, netVars
  <1>4. ASSUME NEW w \in Workers, WorkerStep(w) PROVE RowsInv'
    BY <1>4 DEF WorkerStep, Await, TakeQuery, SendRow, SendAck, Send, masterVars, netVars
  <1>5. ASSUME NEW w \in Workers, TakeAck(w) PROVE RowsInv'
    BY <1>5 DEF TakeAck, masterVars
  <1>6. ASSUME NEW d \in Datagrams, Refuse(d) \/ Lose(d) PROVE RowsInv'
    BY <1>6 DEF Refuse, Lose, masterVars
  <1>7. CASE LoseRow
    BY <1>7 DEF LoseRow, masterVars
  <1>8. QED
    BY <1>1, <1>2, <1>3, <1>4, <1>5, <1>6, <1>7 DEF Next, MasterStep, ListenerStep

\* The listener comes after the offload and the first rows, and prints when it
\* has heard enough.
LEMMA StepListener ==
  ASSUME TypeOK, ListenerInv, Next
  PROVE  ListenerInv'
  <1> USE DEF ListenerInv
  <1>1. ASSUME NEW n \in 0 .. BurstSize, Poll(n) PROVE ListenerInv'
    BY <1>1, NodesAssumption DEF Poll, listenerVars, TypeOK
  <1>2. CASE Again \/ Leave \/ Signal
    BY <1>2 DEF Again, Leave, Signal, masterVars, listenerVars
  <1>3. CASE StartListener
    BY <1>3 DEF StartListener
  <1>4. CASE Offload
    BY <1>4 DEF Offload, listenerVars
  <1>5. ASSUME NEW w \in Workers, WorkerStep(w) PROVE ListenerInv'
    BY <1>5 DEF WorkerStep, Await, TakeQuery, SendRow, SendAck, masterVars, listenerVars
  <1>6. CASE BindListener
    BY <1>6 DEF BindListener, masterVars
  <1>7. ASSUME NEW w \in Workers, TakeAck(w) PROVE ListenerInv'
    BY <1>7 DEF TakeAck, masterVars
  <1>8. ASSUME NEW d \in Datagrams, Refuse(d) \/ Lose(d) PROVE ListenerInv'
    BY <1>8 DEF Refuse, Lose, masterVars, listenerVars
  <1>9. CASE LoseRow
    BY <1>9 DEF LoseRow, masterVars, listenerVars
  <1>10. QED
    BY <1>1, <1>2, <1>3, <1>4, <1>5, <1>6, <1>7, <1>8, <1>9 DEF Next, MasterStep, ListenerStep

-----------------------------------------------------------------------------
\* A worker and its datagrams agree.
LEMMA StepWorkers ==
  ASSUME TypeOK, WorkersInv, Next
  PROVE  WorkersInv'
  <1> DEFINE Out == mail \union Gone
  <1>1. ASSUME UNCHANGED <<offloaded, heard, worker, rows>>, Out' = Out
        PROVE  WorkersInv'
    BY <1>1 DEF WorkersInv, Acked
  <1>2. ASSUME NEW n \in 0 .. BurstSize, Poll(n) PROVE WorkersInv'
    BY <1>1, <1>2 DEF Poll, listenerVars, workerVars, Gone
  <1>3. CASE StartListener \/ Again \/ Leave \/ Signal \/ BindListener
    BY <1>1, <1>3 DEF StartListener, Again, Leave, Signal, BindListener,
                      masterVars, listenerVars, workerVars, netVars, Gone
  <1>4. CASE Offload
    <2>1. /\ Out' = Out \union {Query(w) : w \in Workers}
          /\ UNCHANGED <<heard, worker, rows>>
      BY <1>4 DEF Offload, Send, listenerVars, workerVars, Gone
    <2> HIDE DEF Out
    <2>2. \A w \in Workers : /\ Query(w) \in Out'
                             /\ AckOf(w) \in Out' <=> AckOf(w) \in Out
      BY <2>1, DatagramsDiffer
    <2>3. QED
      BY <2>1, <2>2 DEF WorkersInv, Acked, Out
  <1>a. worker \in [Workers -> {"off", "waiting", "sending", "done"}]
        /\ rows \in [Workers -> 0 .. TableLength]
    BY DEF TypeOK
  <1>5. ASSUME NEW v \in Workers, Await(v) PROVE WorkersInv'
    <2>1. /\ UNCHANGED <<offloaded, heard, rows>> /\ Out' = Out
          /\ worker[v] = "off" /\ worker' = [worker EXCEPT ![v] = "waiting"]
      BY <1>5 DEF Await, masterVars, listenerVars, netVars, Gone
    <2> HIDE DEF Out
    <2>2. QED
      BY <1>a, <2>1 DEF WorkersInv, Acked, Out
  <1>6. ASSUME NEW v \in Workers, TakeQuery(v) PROVE WorkersInv'
    <2>1. /\ UNCHANGED <<offloaded, heard, rows>> /\ Out' \union {Query(v)} = Out
          /\ worker[v] = "waiting" /\ worker' = [worker EXCEPT ![v] = "sending"]
      BY <1>6 DEF TakeQuery, masterVars, listenerVars, Gone
    <2> HIDE DEF Out
    <2>2. \A w \in Workers : /\ AckOf(w) \in Out' <=> AckOf(w) \in Out
                             /\ w # v => (Query(w) \in Out' <=> Query(w) \in Out)
      BY <2>1, DatagramsDiffer
    <2>3. QED
      BY <1>a, <2>1, <2>2 DEF WorkersInv, Acked, Out
  <1>7. ASSUME NEW v \in Workers, SendRow(v) PROVE WorkersInv'
    <2>1. /\ UNCHANGED <<offloaded, heard, worker>> /\ Out' = Out
          /\ worker[v] = "sending" /\ \A w \in Workers \ {v} : rows'[w] = rows[w]
      BY <1>7, <1>a DEF SendRow, masterVars, listenerVars, Gone
    <2> HIDE DEF Out
    <2>2. QED
      BY <2>1 DEF WorkersInv, Acked, Out
  <1>8. ASSUME NEW v \in Workers, SendAck(v) PROVE WorkersInv'
    <2>1. /\ UNCHANGED <<offloaded, heard, rows>>
          /\ worker[v] = "sending" /\ rows[v] = TableLength
      BY <1>8 DEF SendAck, masterVars, listenerVars
    <2>2. worker' = [worker EXCEPT ![v] = "done"] /\ Out' = Out \union {AckOf(v)}
      BY <1>8 DEF SendAck, Send, Gone
    <2> HIDE DEF Out
    <2>3. \A w \in Workers : /\ Query(w) \in Out' <=> Query(w) \in Out
                             /\ w # v => (AckOf(w) \in Out' <=> AckOf(w) \in Out)
      BY <2>2, DatagramsDiffer
    <2>4. QED
      BY <1>a, <2>1, <2>2, <2>3 DEF WorkersInv, Acked, Out
  <1>9. ASSUME NEW v \in Workers, TakeAck(v) PROVE WorkersInv'
    <2>1. /\ UNCHANGED <<offloaded, worker, rows>>
          /\ Out' \union {AckOf(v)} = Out /\ heard' = heard \union {v}
      BY <1>9 DEF TakeAck, masterVars, workerVars, Gone
    <2> HIDE DEF Out
    <2>2. \A w \in Workers : /\ Query(w) \in Out' <=> Query(w) \in Out
                             /\ w # v => (AckOf(w) \in Out' <=> AckOf(w) \in Out)
      BY <2>1, DatagramsDiffer
    <2>3. QED
      BY <2>1, <2>2 DEF WorkersInv, Acked, Out
  <1>10. ASSUME NEW d \in Datagrams, Refuse(d) \/ Lose(d) PROVE WorkersInv'
    BY <1>1, <1>10 DEF Refuse, Lose, masterVars, listenerVars, workerVars, Gone
  <1>11. CASE LoseRow
    BY <1>1, <1>11 DEF LoseRow, masterVars, listenerVars, workerVars, Gone
  <1>12. QED
    BY <1>2, <1>3, <1>4, <1>5, <1>6, <1>7, <1>8, <1>9, <1>10, <1>11
       DEF Next, MasterStep, WorkerStep, ListenerStep

LEMMA Invariance == Spec => []Inv
  <1>1. Inv /\ [Next]_vars => Inv'
    <2> SUFFICES ASSUME Inv, [Next]_vars PROVE Inv'
      OBVIOUS
    <2>1. CASE Next
      BY <2>1, StepTypes, StepRows, StepListener, StepWorkers DEF Inv
    <2>2. CASE UNCHANGED vars
      BY <2>2 DEF vars, masterVars, listenerVars, workerVars, netVars, Inv, TypeOK,
                  WorkersInv, Acked, Gone, ListenerInv, Enough, RowsInv
    <2>3. QED
      BY <2>1, <2>2
  <1>2. QED
    BY <1>1, InitInv, PTL DEF Spec

-----------------------------------------------------------------------------
\* Processes and datagrams stay what the code declares them to be.
THEOREM Typing == Spec => []TypeOK
  <1>1. Inv => TypeOK
    BY DEF Inv
  <1>2. QED
    BY <1>1, Invariance, PTL

\* TheDelayCoversTheAcked: when the listener prints the delay, as many
\* workers as it awaits have sent their whole tables, after the offload and
\* after rows had come (receive_ack_end.py:17-21 against the order of sending
\* and ACK in the worker).
THEOREM TheDelayCoversTheAcked == Spec => []DelayCoversAcked
  <1>1. Inv => DelayCoversAcked
    <2> SUFFICES ASSUME Inv, listener = "printed" PROVE DelayCoversAcked
      BY DEF DelayCoversAcked
    <2> DEFINE Whole == {w \in Workers : worker[w] = "done" /\ rows[w] = TableLength}
    <2>1. heard \subseteq Whole
      BY DEF Inv, TypeOK, WorkersInv, Acked
    <2>2. IsFiniteSet(Whole)
      BY NodesAssumption, FS_Subset
    <2> HIDE DEF Whole
    <2>3. /\ Cardinality(heard) <= Cardinality(Whole)
          /\ Cardinality(heard) \in Nat /\ Cardinality(Whole) \in Nat
      BY <2>1, <2>2, FS_Subset, FS_CardinalityType
    <2>4. Cardinality(heard) >= AcksAwaited
      BY DEF Inv, ListenerInv, Enough
    <2>5. AcksAwaited \in Nat
      BY NodesAssumption, FS_CardinalityType
    <2>6. Cardinality(Whole) >= AcksAwaited
      BY <2>3, <2>4, <2>5
    <2>7. offloaded /\ received > 0
      BY DEF Inv, ListenerInv
    <2>8. QED
      BY <2>6, <2>7 DEF DelayCoversAcked, Whole
  <1>2. QED
    BY <1>1, Invariance, PTL

\* AHangHasAReason: a worker waits for ever only if its query was lost, refused
\* or never sent; the listener only if it misses more ACKs than it can spare;
\* and it is never started only if the master is gone or no row got through
\* (cheetah_control_flow.c:126-146, receive_ack_end.py:17).
THEOREM AHangHasAReason == Spec => []HangsExplained
  <1>1. ASSUME Inv, AtRest, NEW w \in Workers, worker[w] = "waiting"
        PROVE  Query(w) \in Gone \/ (master = "crashed" /\ ~offloaded)
    BY <1>1 DEF Inv, AtRest, WorkersInv
  <1>2. ASSUME Inv, AtRest, listener = "waiting"
        PROVE  Cardinality({w \in Workers : Silent(w)}) > Cardinality(Workers) - AcksAwaited
    <2> DEFINE S == {w \in Workers : Silent(w)}
    <2>1. offloaded /\ ~Enough(heard)
      BY <1>2 DEF Inv, ListenerInv
    <2>2. ASSUME NEW w \in Workers, ~Silent(w) PROVE w \in heard
      <3>1. Query(w) \notin Gone /\ AckOf(w) \notin Gone
        BY <2>2 DEF Silent
      <3>2. mail = {} /\ worker[w] # "sending"
        BY <1>2 DEF AtRest
      <3>3. worker[w] = "done"
        BY <1>2, <2>1, <3>1, <3>2 DEF Inv, WorkersInv
      <3>4. QED
        BY <1>2, <3>1, <3>2, <3>3 DEF Inv, WorkersInv, Acked
    <2>3. Workers \ heard \subseteq S /\ IsFiniteSet(Workers) /\ heard \subseteq Workers
      BY <1>2, <2>2, NodesAssumption DEF Inv, TypeOK
    <2>4. IsFiniteSet(S)
      BY <2>3, FS_Subset
    <2> HIDE DEF S
    <2>5. Cardinality(Workers \ heard) = Cardinality(Workers) - Cardinality(heard)
      <3>1. Workers \intersect heard = heard
        BY <2>3
      <3>2. QED
        BY <2>3, <3>1, FS_Difference
    <2>6. Cardinality(Workers \ heard) <= Cardinality(S)
      BY <2>3, <2>4, FS_Subset
    <2>7. Cardinality(heard) < AcksAwaited
      <3>1. IsFiniteSet(heard)
        BY <2>3, FS_Subset
      <3>2. Cardinality(heard) \in Nat /\ AcksAwaited \in Nat
        BY <2>3, <3>1, NodesAssumption, FS_CardinalityType
      <3>3. QED
        BY <2>1, <3>2 DEF Enough
    <2>8. /\ Cardinality(heard) \in Nat /\ AcksAwaited \in Nat
          /\ Cardinality(Workers) \in Nat /\ Cardinality(S) \in Nat
      BY <2>3, <2>4, FS_Subset, FS_CardinalityType, NodesAssumption
    <2>9. Cardinality(S) > Cardinality(Workers) - AcksAwaited
      BY <2>5, <2>6, <2>7, <2>8
    <2>10. QED
      BY <2>9 DEF S
  <1>3. ASSUME Inv, AtRest, listener = "none"
        PROVE  master = "crashed" \/ dropped = sent
    BY <1>3 DEF Inv, TypeOK, AtRest, ListenerInv, RowsInv
  <1>4. Inv => HangsExplained
    BY <1>1, <1>2, <1>3 DEF HangsExplained
  <1>5. QED
    BY <1>4, Invariance, PTL
=============================================================================
