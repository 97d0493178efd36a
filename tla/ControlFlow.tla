---------------------------- MODULE ControlFlow ----------------------------
(***************************************************************************)
(* A query from its offload to the printed end-to-end delay:               *)
(* host/cheetah_control_flow.c, host/cheetah_control_message.c and         *)
(* host/receive_ack_end.py.                                                *)
(*                                                                         *)
(* The master sends the query to each worker in one UDP datagram; a worker *)
(* that has it sends its rows and then an ACK, again one datagram; and a   *)
(* process that the master starts after the first rows have come counts    *)
(* the ACKs.  No datagram is repeated.  One that finds no socket bound to  *)
(* its port is refused, and the network may lose any of them.  Rows are    *)
(* told apart by nothing here, so they are counted.                        *)
(***************************************************************************)
EXTENDS Naturals, FiniteSets

CONSTANTS Workers,      \* the nodes that the query is offloaded to
          AcksAwaited,  \* CHEETAH_WORKER_NODES: the ACKs the listener counts
          TableLength,  \* rows each worker sends
          BurstSize     \* RECEIVER_BATCH_SIZE

ASSUME NodesAssumption ==
  /\ IsFiniteSet(Workers)
  /\ AcksAwaited \in 1 .. Cardinality(Workers)
  /\ TableLength \in Nat
  /\ BurstSize \in Nat \ {0}

VARIABLES
  master,      \* where the master's process is
  offloaded, started,
  received,    \* packets_received
  quit,        \* cheetah_global_force_quit
  listener,    \* the process of receive_ack_end.py
  heard,       \* the workers whose ACKs it took
  worker,      \* where each worker's process is
  rows,        \* rows each worker has sent
  wire,        \* rows on their way to the master
  mail,        \* control datagrams on their way
  sent,        \* rows handed to the network by all workers (history)
  dropped,     \* rows lost on their way (history)
  lost,        \* datagrams lost by the network (history)
  refused      \* datagrams that found no socket (history)

masterVars == <<master, offloaded, started, received, quit>>
listenerVars == <<listener, heard>>
workerVars == <<worker, rows>>
netVars == <<wire, mail, sent, dropped, lost, refused>>
vars == <<masterVars, listenerVars, workerVars, netVars>>

Query(w) == [kind |-> "query", node |-> w]
AckOf(w) == [kind |-> "ack", node |-> w]
Datagrams == {Query(w) : w \in Workers} \union {AckOf(w) : w \in Workers}

TypeOK ==
  /\ offloaded \in BOOLEAN /\ started \in BOOLEAN /\ quit \in BOOLEAN
  /\ master \in {"top", "polled", "crashed"}
  /\ listener \in {"none", "starting", "waiting", "printed"}
  /\ worker \in [Workers -> {"off", "waiting", "sending", "done"}]
  /\ heard \subseteq Workers
  /\ rows \in [Workers -> 0 .. TableLength]
  /\ received \in Nat /\ wire \in Nat /\ sent \in Nat /\ dropped \in Nat
  /\ mail \subseteq Datagrams /\ lost \subseteq Datagrams /\ refused \subseteq Datagrams

Init ==
  /\ master = "top" /\ offloaded = FALSE /\ started = FALSE
  /\ received = 0 /\ quit = FALSE
  /\ listener = "none" /\ heard = {}
  /\ worker = [w \in Workers |-> "off"] /\ rows = [w \in Workers |-> 0]
  /\ wire = 0 /\ mail = {} /\ sent = 0 /\ dropped = 0 /\ lost = {} /\ refused = {}

-----------------------------------------------------------------------------
\* cheetah_control_message_send, once per datagram.
Send(ds) == mail' = mail \union ds /\ UNCHANGED <<wire, sent, dropped, lost, refused>>

\* The master's loop, first half: a burst is received and aggregated.
Poll(n) ==
  /\ master = "top" /\ ~quit
  /\ n <= wire
  /\ wire' = wire - n
  /\ received' = received + n
  /\ master' = "polled"
  /\ UNCHANGED <<offloaded, started, quit, listenerVars, workerVars,
                 mail, sent, dropped, lost, refused>>

\* Mutant: started is not set, and the next iteration starts another listener.
StartListenerAgain ==
  /\ master = "polled" /\ offloaded /\ ~started /\ received > 0
  /\ listener' = "starting"
  /\ master' = "top"
  /\ UNCHANGED <<offloaded, started, received, quit, heard, workerVars, netVars>>

\* Second half, the first time rows have come after the offload: the clock and
\* the listener are started.
StartListener ==
  /\ master = "polled" /\ offloaded /\ ~started /\ received > 0
  /\ started' = TRUE
  /\ listener' = "starting"
  /\ master' = "top"
  /\ UNCHANGED <<offloaded, received, quit, heard, workerVars, netVars>>

\* Mutant: the query goes to one node only.
OffloadOne ==
  /\ master = "polled" /\ ~offloaded
  /\ master' = "top"
  /\ offloaded' = TRUE
  /\ Send({Query(CHOOSE w \in Workers : TRUE)})
  /\ UNCHANGED <<started, received, quit, listenerVars, workerVars>>

\* Second half, in the first iteration: after three seconds of sleep the query
\* goes to every worker.  The sleep orders nothing.
Offload ==
  /\ master = "polled" /\ ~offloaded
  /\ master' = "top"
  /\ offloaded' = TRUE
  /\ Send({Query(w) : w \in Workers})
  /\ UNCHANGED <<started, received, quit, listenerVars, workerVars>>

Again ==
  /\ master = "polled" /\ offloaded /\ (started \/ received = 0)
  /\ master' = "top"
  /\ UNCHANGED <<offloaded, started, received, quit, listenerVars,
                 workerVars, netVars>>

\* SIGINT or SIGTERM at the master: its handler only sets the flag.
Signal ==
  /\ master \in {"top", "polled"} /\ ~quit
  /\ quit' = TRUE
  /\ UNCHANGED <<master, offloaded, started, received, listenerVars,
                 workerVars, netVars>>

\* The loop's test sees the flag.  What follows walks groupby_state, which is
\* NULL in every build of this source: the master ends there, and the calls
\* that free the receiver and close the device are never made.
Leave ==
  /\ master = "top" /\ quit
  /\ master' = "crashed"
  /\ UNCHANGED <<offloaded, started, received, quit, listenerVars,
                 workerVars, netVars>>

-----------------------------------------------------------------------------
\* A worker has loaded its table and binds the socket for the query.
Await(w) ==
  /\ worker[w] = "off"
  /\ worker' = [worker EXCEPT ![w] = "waiting"]
  /\ UNCHANGED <<masterVars, listenerVars, rows, netVars>>

\* Any datagram at the port starts the sending: the message is compared with
\* the known queries, but nobody looks at the outcome.
TakeQuery(w) ==
  /\ worker[w] = "waiting" /\ Query(w) \in mail
  /\ mail' = mail \ {Query(w)}
  /\ worker' = [worker EXCEPT ![w] = "sending"]
  /\ UNCHANGED <<masterVars, listenerVars, rows,
                 wire, sent, dropped, lost, refused>>

SendRow(w) ==
  /\ worker[w] = "sending" /\ rows[w] < TableLength
  /\ rows' = [rows EXCEPT ![w] = @ + 1]
  /\ wire' = wire + 1
  /\ sent' = sent + 1
  /\ UNCHANGED <<masterVars, listenerVars, worker, mail, dropped, lost, refused>>

SendAck(w) ==
  /\ worker[w] = "sending" /\ rows[w] = TableLength
  /\ worker' = [worker EXCEPT ![w] = "done"]
  /\ Send({AckOf(w)})
  /\ UNCHANGED <<masterVars, listenerVars, rows>>

-----------------------------------------------------------------------------
\* The listener's interpreter has come up and binds the socket.
BindListener ==
  /\ listener = "starting"
  /\ listener' = "waiting"
  /\ UNCHANGED <<masterVars, heard, workerVars, netVars>>

\* Mutant: the loop of the listener runs once more.
EnoughPlusOne(acks) == Cardinality(acks) > AcksAwaited
Enough(acks) == Cardinality(acks) >= AcksAwaited

\* The listener takes an ACK, and prints the delay after the last one.
TakeAck(w) ==
  /\ listener = "waiting" /\ AckOf(w) \in mail
  /\ mail' = mail \ {AckOf(w)}
  /\ heard' = heard \union {w}
  /\ listener' = IF Enough(heard') THEN "printed" ELSE "waiting"
  /\ UNCHANGED <<masterVars, workerVars, wire, sent, dropped, lost, refused>>

-----------------------------------------------------------------------------
\* A socket is bound to the datagram's port.
Bound(d) ==
  IF d.kind = "query" THEN worker[d.node] = "waiting" ELSE listener = "waiting"

Refuse(d) ==
  /\ d \in mail /\ ~Bound(d)
  /\ mail' = mail \ {d}
  /\ refused' = refused \union {d}
  /\ UNCHANGED <<masterVars, listenerVars, workerVars,
                 wire, sent, dropped, lost>>

Lose(d) ==
  /\ d \in mail
  /\ mail' = mail \ {d}
  /\ lost' = lost \union {d}
  /\ UNCHANGED <<masterVars, listenerVars, workerVars,
                 wire, sent, dropped, refused>>

LoseRow ==
  /\ wire > 0
  /\ wire' = wire - 1
  /\ dropped' = dropped + 1
  /\ UNCHANGED <<masterVars, listenerVars, workerVars,
                 mail, sent, lost, refused>>

MasterStep == StartListener \/ Offload \/ Again \/ Leave \/ \E n \in 0 .. BurstSize : Poll(n)
WorkerStep(w) == Await(w) \/ TakeQuery(w) \/ SendRow(w) \/ SendAck(w)
ListenerStep == BindListener \/ \E w \in Workers : TakeAck(w)

Next ==
  \/ MasterStep
  \/ Signal
  \/ \E w \in Workers : WorkerStep(w)
  \/ ListenerStep
  \/ \E d \in Datagrams : Refuse(d) \/ Lose(d)
  \/ LoseRow

Spec == Init /\ [][Next]_vars

\* Every process runs on; what has arrived is handed over by the next polls
\* (SF, since a poll is possible only at the top of the loop); a datagram does
\* not stay on its way for ever.  Nothing makes anybody send a signal.
FairSpec ==
  /\ Spec
  /\ WF_vars(MasterStep)
  /\ SF_vars(\E n \in 1 .. BurstSize : Poll(n))
  /\ \A w \in Workers : WF_vars(WorkerStep(w))
  /\ WF_vars(ListenerStep)
  /\ \A d \in Datagrams : WF_vars(Refuse(d))

-----------------------------------------------------------------------------
Gone == lost \union refused

\* Nobody has anything left to do but to wait.
AtRest ==
  /\ mail = {}
  /\ \A w \in Workers : worker[w] \notin {"off", "sending"}
  /\ listener # "starting"
  /\ \/ master = "crashed"
     \/ wire = 0 /\ ~quit /\ offloaded /\ (started \/ received = 0)

\* The worker's ACK can no longer come.
Silent(w) == {Query(w), AckOf(w)} \intersect Gone # {}

\* HangsExplained: whoever waits for ever has a reason.  A worker's query was
\* lost, refused or never sent; the listener misses more ACKs than it can
\* spare; and it was never started only if the master is gone or not one row
\* got through (cheetah_control_flow.c:126-146, receive_ack_end.py:17).
HangsExplained ==
  AtRest =>
    /\ \A w \in Workers :
         worker[w] = "waiting" => Query(w) \in Gone \/ (master = "crashed" /\ ~offloaded)
    /\ listener = "waiting" =>
         Cardinality({w \in Workers : Silent(w)}) > Cardinality(Workers) - AcksAwaited
    /\ listener = "none" => master = "crashed" \/ dropped = sent

\* DelayCoversAcked: when the delay is printed, as many workers as are awaited
\* have handed their whole tables to the network, and some row had come
\* (receive_ack_end.py:17-21 against the order of sending and ACK in the
\* worker, cheetah_control_flow.c:223-267).
DelayCoversAcked ==
  listener = "printed" =>
    /\ Cardinality({w \in Workers : worker[w] = "done" /\ rows[w] = TableLength}) >= AcksAwaited
    /\ offloaded /\ received > 0

\* DelayIsEndToEnd: what is printed is the "End to end delay" of the query
\* (receive_ack_end.py:21), at least when the network lost nothing: by then
\* each node it was offloaded to has sent all its rows, and the master has
\* received them.
DelayIsEndToEnd ==
  listener = "printed" /\ lost = {} /\ refused = {} /\ dropped = 0 =>
    /\ \A w \in Workers : rows[w] = TableLength
    /\ wire = 0

\* Settles: whatever is lost and whoever is stopped, a run comes to rest.
Settles == <>[]AtRest

\* A run in which the network lost nothing, no ACK came before the listener
\* had bound its socket and no worker was late for its query.
NothingAmiss ==
  /\ TableLength > 0
  /\ lost = {} /\ dropped = 0
  /\ listener # "printed" => refused = {}
  /\ ~quit

\* Measured: without such an accident the delay is printed.
Measured == []NothingAmiss => <>(listener = "printed")
=============================================================================
