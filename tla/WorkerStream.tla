---------------------------- MODULE WorkerStream ----------------------------
(***************************************************************************)
(* A worker streams its table to the switch: the send loop of              *)
(* host/cheetah_control_flow.c over host/fast_packet_stream.c, against the *)
(* NIC that transmits behind its back.                                     *)
(*                                                                         *)
(* A stream owns Batch template packets.  For each batch of rows the       *)
(* worker overwrites the templates' payload fields, clones every template  *)
(* and pushes the clones into the NIC's TX ring.  A clone shares the data  *)
(* of its template, and the NIC reads that data when it transmits the      *)
(* clone, which may be after the worker has begun the next batch.          *)
(*                                                                         *)
(* Rows are numbered from 1 in the order of the table.  The ring is first  *)
(* in first out, so it is given by three counts: the rows queued in it,    *)
(* the rows transmitted (the length of wire) and the rows whose clones     *)
(* the driver has taken back.                                              *)
(***************************************************************************)
EXTENDS Integers, Sequences, FiniteSets

CONSTANTS EntryCount,  \* rows in the table: sim->entry_count
          Batch,       \* BATCH_SIZE
          RingSize,    \* TX descriptors of the queue
          PoolSize,    \* buffers in tx_packet_pool
          Fields       \* the payload fields of a packet

ASSUME SizeAssumption ==
  /\ EntryCount \in Nat
  /\ Batch \in Nat \ {0}
  /\ RingSize \in Nat \ {0}
  /\ PoolSize \in Nat
\* 8192 buffers, 1024 descriptors and batches of 32 in cheetah_constants.h.
ASSUME PoolAssumption == PoolSize >= 2 * Batch + RingSize
ASSUME FieldAssumption == Fields # {} /\ IsFiniteSet(Fields)

VARIABLES pc,         \* where the worker's thread is
          base,       \* i * BATCH_SIZE: rows of the batches before this one
          slot,       \* j: the template being filled
          pending,    \* payload fields of that template still to be stored
          template,   \* the row each field of each template was stored from
          queued,     \* rows pushed into the TX ring
          reclaimed,  \* rows whose clone the driver has freed
          wire,       \* the packets transmitted, as their fields' rows
          pool,       \* free buffers of tx_packet_pool
          held        \* the template buffers not yet back in the pool

vars == <<pc, base, slot, pending, template, queued, reclaimed, wire, pool, held>>

Slots == 0 .. Batch - 1
Rows == 1 .. EntryCount

\* Mutant: rows counted from 0 in the templates and from 1 in the ring.
SlotOfFromZero(row) == row % Batch

\* The template of a row, and how many packets the NIC has read.
SlotOf(row) == (row - 1) % Batch
Fetched == Len(wire)

TypeOK ==
  /\ pc \in {"fill", "store", "clone", "burst", "ack", "free", "close",
             "done", "crashed"}
  /\ base \in 0 .. EntryCount
  /\ slot \in 0 .. Batch
  /\ pending \subseteq Fields
  /\ template \in [Slots -> [Fields -> 0 .. EntryCount]]
  /\ queued \in 0 .. EntryCount
  /\ reclaimed \in 0 .. EntryCount
  /\ wire \in Seq([Fields -> 0 .. EntryCount])
  /\ pool \in 0 .. PoolSize
  /\ held \subseteq Slots

\* Mutant: the loop stops one batch early.
NextBatchOrStop(after, b) == IF b + 2 * Batch <= EntryCount THEN "fill" ELSE after

\* The loop runs for i < entry_count / BATCH_SIZE.
NextBatchOr(after, b) == IF b + Batch <= EntryCount THEN "fill" ELSE after

\* The stream has been created: Batch buffers became templates.
Init ==
  /\ pc = NextBatchOr("ack", 0)
  /\ base = 0
  /\ slot = 0
  /\ pending = {}
  /\ template = [s \in Slots |-> [f \in Fields |-> 0]]
  /\ queued = 0
  /\ reclaimed = 0
  /\ wire = <<>>
  /\ pool = PoolSize - Batch
  /\ held = Slots

-----------------------------------------------------------------------------
\* cheetah_fast_packet_stream_modify is called for the next template.
Modify ==
  /\ pc = "fill"
  /\ slot < Batch
  /\ pc' = "store"
  /\ pending' = Fields
  /\ UNCHANGED <<base, slot, template, queued, reclaimed, wire, pool, held>>

\* One plain store to the template's payload; nothing orders the stores of
\* different fields towards the NIC.
Store(f) ==
  /\ pc = "store"
  /\ f \in pending
  /\ template' = [template EXCEPT ![slot][f] = base + slot + 1]
  /\ pending' = pending \ {f}
  /\ IF pending = {f}
     THEN pc' = "fill" /\ slot' = slot + 1
     ELSE UNCHANGED <<pc, slot>>
  /\ UNCHANGED <<base, queued, reclaimed, wire, pool, held>>

\* Mutant: every batch gets templates of its own, and the last one's are kept.
FillDoneAllocating ==
  /\ pc = "fill"
  /\ slot = Batch
  /\ pc' = "clone"
  /\ pool' = pool - Batch
  /\ UNCHANGED <<base, slot, pending, template, queued, reclaimed, wire, held>>

FillDone ==
  /\ pc = "fill"
  /\ slot = Batch
  /\ pc' = "clone"
  /\ UNCHANGED <<base, slot, pending, template, queued, reclaimed, wire, pool, held>>

\* Every template is cloned.  A clone takes a buffer of the pool; on an empty
\* pool it is NULL, which RTE_ASSERT lets through to the driver.
Clone ==
  /\ pc = "clone"
  /\ IF pool >= Batch
     THEN pc' = "burst" /\ pool' = pool - Batch
     ELSE pc' = "crashed" /\ UNCHANGED pool
  /\ UNCHANGED <<base, slot, pending, template, queued, reclaimed, wire, held>>

\* Rows of this batch not yet in the ring: packets_left.
PacketsLeft == base + Batch - queued

\* The driver frees the clones of that many more rows.
Reclaim(freed) == reclaimed' = reclaimed + freed /\ pool' = pool + freed

\* The loop repeats rte_eth_tx_burst until the whole batch is queued.  The
\* driver first frees clones it knows to be transmitted (some of them, or all
\* when room is short), then queues as many as fit.
Burst(freed) ==
  LET room == RingSize - (queued - reclaimed) + freed
      sent == IF room < PacketsLeft THEN room ELSE PacketsLeft
  IN  /\ pc = "burst"
      /\ freed \in 0 .. Fetched - reclaimed
      /\ room < PacketsLeft => freed = Fetched - reclaimed
      /\ Reclaim(freed)
      /\ queued' = queued + sent
      /\ IF sent = PacketsLeft
         THEN pc' = NextBatchOr("ack", base + Batch) /\ base' = base + Batch /\ slot' = 0
         ELSE UNCHANGED <<pc, base, slot>>
      /\ UNCHANGED <<pending, template, wire, held>>

\* The NIC reads the next queued clone, that is its template's data, and
\* transmits it.  It does so at any time until the device is stopped.
Transmit ==
  /\ pc \notin {"done", "crashed"}
  /\ Fetched < queued
  /\ wire' = Append(wire, template[SlotOf(Fetched + 1)])
  /\ UNCHANGED <<pc, base, slot, pending, template, queued, reclaimed, pool, held>>

\* cheetah_control_message_send_ack, straight after the last burst.
SendAck ==
  /\ pc = "ack"
  /\ pc' = "free"
  /\ UNCHANGED <<base, slot, pending, template, queued, reclaimed, wire, pool, held>>

\* Mutant: every template is freed, also under its clones.
FreeStreamUnderClones ==
  LET cloned == {SlotOf(r) : r \in reclaimed + 1 .. queued}
  IN  /\ pc = "free"
      /\ pc' = "close"
      /\ held' = cloned
      /\ pool' = pool + Batch
      /\ UNCHANGED <<base, slot, pending, template, queued, reclaimed, wire>>

\* cheetah_fast_packet_stream_free: a template with a clone in the ring stays.
FreeStream ==
  LET cloned == {SlotOf(r) : r \in reclaimed + 1 .. queued}
  IN  /\ pc = "free"
      /\ pc' = "close"
      /\ held' = cloned
      /\ pool' = pool + Cardinality(Slots \ cloned)
      /\ UNCHANGED <<base, slot, pending, template, queued, reclaimed, wire>>

\* cheetah_network_close stops and closes the device, which frees what is left
\* in the ring, transmitted or not.
Close ==
  /\ pc = "close"
  /\ pc' = "done"
  /\ reclaimed' = queued
  /\ held' = {}
  /\ pool' = pool + (queued - reclaimed) + Cardinality(held)
  /\ UNCHANGED <<base, slot, pending, template, queued, wire>>

Worker ==
  \/ Modify
  \/ \E f \in Fields : Store(f)
  \/ FillDone
  \/ Clone
  \/ \E freed \in 0 .. RingSize : Burst(freed)
  \/ SendAck
  \/ FreeStream
  \/ Close

Next == Worker \/ Transmit

Spec == Init /\ [][Next]_vars

\* The worker's thread runs, and a started NIC transmits what is queued.
FairSpec == Spec /\ WF_vars(Worker) /\ WF_vars(Transmit)

-----------------------------------------------------------------------------
\* NeverStarved: a clone never meets an empty pool (fast_packet_stream.c:16-21
\* does not handle one in a release build), whatever the NIC and the driver
\* leave in the ring: templates, a full ring and one batch of clones fit.
NeverStarved == pc # "crashed"

\* BuffersAccounted: every buffer is in the pool, under a template, in the ring
\* or among the clones not yet queued.
BuffersAccounted ==
  pool + Cardinality(held) + (queued - reclaimed)
       + (IF pc = "burst" THEN PacketsLeft ELSE 0) = PoolSize

\* NoLeak: once the worker has closed the device every buffer is back in the
\* pool, although templates were freed under clones still in the ring.
NoLeak == pc = "done" => pool = PoolSize

\* RowsDriftForward: the k-th packet carries row k, or parts of later rows of
\* the same template (the stores of the next batches race with the NIC's
\* reads): never an earlier row, never another template's, and never one
\* further ahead than the ring and the batch being filled allow.
RowsDriftForward ==
  \A k \in 1 .. Fetched : \A f \in Fields :
    /\ wire[k][f] >= k
    /\ wire[k][f] < k + RingSize + Batch
    /\ SlotOf(wire[k][f]) = SlotOf(k)

\* LossBounded: when the worker is gone, the rows that never left it are the
\* tail that fills no batch and at most one ring that the close discarded.
LossBounded ==
  pc = "done" => EntryCount - Fetched < RingSize + Batch

\* Rows whose template the worker has begun to overwrite, or has.
Begun == base + slot + (IF pc = "store" THEN 1 ELSE 0)

\* KeptPaceIsIntact: a packet that the NIC reads before the worker begins to
\* overwrite its template, one batch later, is the row it should be: the NIC
\* has to stay within one batch of the worker, and nothing makes it.
KeptPaceIsIntact ==
  [][Transmit /\ Begun <= Fetched + Batch =>
       wire'[Fetched'] = [f \in Fields |-> Fetched']]_vars

\* Finishes: the worker sends its ack, frees the stream and closes the device,
\* however often a full ring made it retry.
Finishes == <>(pc = "done")

-----------------------------------------------------------------------------
\* PayloadIntact: "code used to serialize / deserialize any given list of
\* values into a cheetah packet" (README.md:22): packet k carries row k.
PayloadIntact ==
  \A k \in 1 .. Fetched : wire[k] = [f \in Fields |-> k]
=============================================================================
