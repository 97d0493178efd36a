# Cheetah in TLA+

TLA+ models of Cheetah's query pruning: the switch programs of `data_plane/`
with their entries in `control_plane/rules.md`, the worker that streams a table
through them, and the master that aggregates what is left. Paths below are
relative to the repository.

Cheetah answers a database query with the help of a switch. Each *worker* sends
its part of a table as packets, one row per packet; the *switch* drops rows that
cannot change the answer; the *master* computes the answer from the rest. The
claim under all of it is one sentence: **what the switch drops, the master never
needed**. Everything else here is about what has to be true around the switch
for that sentence to matter.

## 1. The system

| Component | State | Operations | Hard behaviour | Correct when |
|---|---|---|---|---|
| GROUP BY program, `cheetah_groupby.p4` | five pairs of register arrays (key, value) | a packet's walk through five sketches | a stage keeps a row that a later stage drops; colliding keys evict each other; stale registers | each dropped row is beaten by a forwarded one |
| DISTINCT program, `cheetah_distinct.p4`, `cheetah_lru_import*.p4` | four pairs of register arrays (high word, low word) | a packet's walk through four stages | the words of a value are kept and matched apart; the top bit doubles as the hit flag | a value is dropped only after it was forwarded |
| JOIN program, `cheetah_join.p4` | Bloom filter blocks for two tables | set in the first pass, read in the second | which pass a flow id belongs to; stages without rules | a row with a partner is never dropped |
| TOP-N program, `cheetah_topn.p4` | two packet counters, the minimum of the first N rows | learn the minimum, test against its double | cutoff arithmetic on a metadata copy | no row of the top N is dropped |
| SKYLINE program, `cheetah_skyline.p4` | one remembered point and the greatest sum | replace the point, compare | the sum wraps; three ALUs in three tables | a dropped point is dominated |
| FILTERING program, `cheetah_filtering.p4` | none | one comparison | – | drops what the predicate excludes |
| Worker send loop, `cheetah_control_flow.c:171-278` with `fast_packet_stream.c` | template packets, clones, DPDK pool, TX ring | create, modify, send, free; ACK; close | the NIC reads a clone's data while the worker writes the next batch into it; buffers; loss at close | every row leaves once and intact |
| Master control flow, `cheetah_control_flow.c:1-169` | receiver, query state, child processes | offload, receive loop, print, quit | datagrams sent once; start-up races; quit | the answer is printed after everything arrived |
| Receiver, `packet_stream_receiver.c` | payload arrays, RX ring | receive one burst | the ring overflows; nothing is retransmitted | each row in the ring is handed over once |
| Master GROUP BY, `cheetah_aggregate_processing.c:195-319` | hash table, chains, `ptr_array` | update | two structures kept in step; collisions; array limit | maximum per key |
| Master DISTINCT and TOP-N, rest of that file | hash table, arrays | update, free | limits, free lists | the query's answer |
| Master JOIN, `cheetah_join.c` | hash table of bins with growing arrays, result | update | either table's rows in any order; growth; limits | every joining pair once |
| Control messages, `cheetah_control_message.c`, `receive_ack_end.py` | sockets | offload, wait, ACK | one datagram, no retry, two processes | whoever waits for ever has a reason; the printed delay covers who was awaited |
| Table loader, `cheetah_memory_sim.c` | the table | load | – | rows in file order |
| Connection, `connection_state.c` | ports, pools | open, close | device stopped with a non-empty ring | – |
| Packet crafter, list stream, benchmark, set-up | – | – | – | no protocol state, or not used by a program |

How they interact: the master sends each worker the query by a datagram and
polls its RX ring; a worker that got the query runs its send loop; the loop
writes rows into shared template buffers, clones them and hands the clones to
the NIC, whose reads are not synchronised with the loop; packets of all workers
meet at the switch in any order; what the switch forwards goes to the master's
RX ring, where a full ring drops it. The last datagram, the ACK, takes another
path than the rows.

## 2. Modules

| Module | Models | Extends or instantiates |
|---|---|---|
| `PruningSpec` | *abstract*: a row is dropped only if the forwarded rows make it redundant | |
| `GroupBySwitch` | the GROUP BY program | `PruningSpec` as `Promise` |
| `SkylineSwitch` | the SKYLINE program | `PruningSpec` as `Promise` |
| `LRUCache` | *abstract*: LRU caches, one per hash cell, whose unused places are found like any value | |
| `DistinctSwitch` | the DISTINCT program | `LRUCache` as `Caches` |
| `TopNSwitch` | the TOP-N program | |
| `WorkerStream` | the worker's send loop against NIC and driver | |
| `ControlFlow` | a query from offload to the printed delay: master, workers, listener, datagrams | |
| `GroupByAnswer` | *abstract*: each key with its maximum so far | |
| `GroupByMaster` | the master's GROUP BY | `GroupByAnswer` as `Query` |
| `DistinctMaster` | the master's DISTINCT | |
| `TopNMaster` | the master's TOP-N | |
| `JoinMaster` | the master's JOIN | |
| `GroupByQuery` | a GROUP BY query end to end | `GroupBySwitch` (extended), `GroupByMaster` |
| `DistinctQuery` | a DISTINCT query end to end | `DistinctSwitch` (extended), `DistinctMaster` |
| `TopNQuery` | a TOP-N query end to end | `TopNSwitch`, `TopNMaster` |
| `*Proofs` | theorems (section 4) | the module each is named after; `GroupByQueryProofs` also has those of `GroupBySwitch`, `DistinctQueryProofs` those of `DistinctSwitch`, `TopNQueryProofs` those of its two parts, `SkylineSwitchProofs` that of `PruningSpec` |
| `MC*` | constants for TLC | the module each is named after |

An operator whose comment begins with `Mutant:` is a plausible slip in the code
next to it (a dropped condition, an off-by-one, a wrong register). It is not
part of any specification. For each property that a run checks, `PROJECT.json`
names the mutant that, put in place of the real definition, makes TLC refute the
property; so no property holds merely because of how the model is built.

### GroupBySwitch

| Model | Code (`data_plane/cheetah_groupby.p4`) |
|---|---|
| `keyReg[s][c]`, `valReg[s][c]` | `reg_sketch_*_key`, `reg_sketch_*_value` |
| `SameKey` | output of `alu_sketch_*_key` |
| `StagePrunes` | output of `alu_sketch_*_value`: same key and greater value |
| `StoreKey`, `StoreValue` | what the two ALUs write |
| `Ingress` | `control ingress` for the query's flow: the chain, then `table_prune` |
| `PassThrough` | any other flow, for which no table has an entry |
| `Load` | the program is loaded again; nothing else clears a register |

*A packet's walk is one action.* On the chip packets are pipelined: a second
packet is in stage 1 while the first is in stage 2. A stage reads and writes its
registers in one step of its ALU, packets keep their order from stage to stage,
and no stage looks at the registers of another. A stage therefore sees the same
sequence of packets and of metadata in the pipelined execution and in the one
where each packet finishes before the next begins, so both have the same
register contents and the same verdicts.

*The ALU's output.* Both `update_hi` predicates of the value ALU can hold. Their
results (1 and 0) are ORed, as Tofino does; `StagePrunes` says so.

*Comparison.* The ALU tests `register_lo - cheetah.value > 0` on 32 bits, signed.
`Exceeds` computes that difference modulo `2*HalfWord`. `HalfRange` assumes values
below 2^31. Outside it the test is not an order, while the host compares
unsigned (`cheetah_aggregate_processing.c:296`).

### DistinctSwitch and DistinctQuery

`reg[s][c]` is the pair `lru_reg_hi`, `lru_reg_lo` of a stage. `PassWord` is one
ALU: it outputs the old register, with its top bit set when it equals the
packet's word. `StageHits` is the ingress test on both words. `Feeder` says where
a stage's new content comes from: the stages alternate between `cheetah_md` and
`cheetah_md_2`, and the fourth reads the one that stage 2 wrote, not stage 3
(`cheetah_lru_import_efficient_4.p4:19`). Only packets of flow 1 are modelled,
the flow the rules have entries for.

*Which values.* A value is any two words. The program may drop two kinds of value
that were never forwarded, and nothing in the host keeps either out: 0, which a
register that was never written equals (`EveryValueIsAnswered`, section 3), and any value whose cell has
met one that is not `Small`, that is, whose upper word is not zero or whose lower
word has the top bit set, since such a word is taken for one that was found
(`cheetah_lru_import_efficient.p4:9-30`). `Spoiled` names just these. A wide value does
no harm outside its own cell, so every other value keeps the promise of
`FirstIsForwarded` whatever else is in the table.

*How many caches.* As long as all values are `Small` the stages are an LRU cache
per cell (`IsLRU`), three deep (`Depth`): the fourth stage repeats one of the
first three. That is what the shipped program is; that it is not what the
README of the repository says of the number of caches is shown by
`EveryCacheCounts`. A place of the
cache has no mark for "never used" and starts as 0, in `LRUCache` as in the
program.

`DistinctQuery` sends each row through `Ingress`; a forwarded one reaches
`DistinctMaster` or is lost at the receive ring. `DistinctMaster` has the chains
behind each hash, the result and `ptr_array`, which lists heads of chains only
while the free walks as many slots as there are values (`WildSlots`).

### SkylineSwitch and TopNSwitch

`SkylineSwitch` has the program's three registers; `Replaces` is the heuristic's
signed test on a 32-bit sum that may wrap, and `Prunes` the conjunction of the
two dominance flags, which stay zero for a row that is being stored.
`control_plane/rules.md` has no section for this program: its tables are taken
to have an entry for the query's flow.

`TopNSwitch` has both counters and the minimum. `Difference` is what the tables
before the test make of the metadata copy: doubled, less the value, modulo 2^32.
Of the entries of the dropping table only those with `topn_less_than_min` zero
can match, since the table that copies the minimum for a packet past the first N
leaves that field alone. The comparison with `CHEETAH_TOPN_INT_MAX` is taken as
unsigned; if the ALU reads it as signed nothing exceeds it and nothing is
dropped. The master's loop has no branch for TOP-N, so `TopNQuery` joins switch
and array as the loop does for the other queries: a forwarded row arrives at the
master's ring (`rx`) or, if that is full, is lost (`lost`), although the switch has
counted it; `Aggregate` hands over the rows in the ring one by one.

### ControlFlow

| Model | Code |
|---|---|
| `Poll`, `Offload`, `StartListener`, `Again` | the two halves of an iteration of the master's loop (`cheetah_control_flow.c:87-146`) |
| `Signal`, `Leave` | the handler sets a flag; what follows the loop walks `groupby_state`, which is NULL with JOIN compiled in |
| `Await`, `TakeQuery`, `SendRow`, `SendAck` | the worker: await the query, send, acknowledge |
| `BindListener`, `TakeAck` | `receive_ack_end.py` |
| `Refuse`, `Lose`, `LoseRow` | *external*: a datagram without a bound socket is refused; the network and full rings lose datagrams and rows |

Asserts are left out: a build with `RTE_ENABLE_ASSERT` does not compile
(`packet_crafter.c:31`, `:88`). The master's three seconds of sleep are no guard: sleeping
orders nothing. Rows are counted, not named. The worker's TX ring is in
`WorkerStream`; a listener left over from an earlier query is not modelled.

### WorkerStream

| Model | Code |
|---|---|
| `pc`, `base`, `slot` | the loops of `cheetah_control_flow_worker` (`cheetah_control_flow.c:225-263`) |
| `Modify`, `Store(f)` | `cheetah_fast_packet_stream_modify`, one plain store at a time, in any order |
| `Clone` | `rte_pktmbuf_clone` of each template (`fast_packet_stream.c:16-20`) |
| `Burst` | one turn of the loop around `rte_eth_tx_burst`, with the driver's lazy reclaim |
| `Transmit` | *external*: the NIC reads the data of the next clone |
| `SendAck`, `FreeStream`, `Close` | the ACK, `cheetah_fast_packet_stream_free`, `cheetah_network_close` |

The ring is first in, first out, so three counts describe it: rows queued, rows
transmitted (`Len(wire)`) and rows reclaimed. The stores of `modify` are
separate, unordered steps because nothing in the code orders them towards a
device that reads the same memory. The driver frees clones by reference count:
the promise `DEV_TX_OFFLOAD_MBUF_FAST_FREE` (`connection_state.c:117`), which
clones would break, is taken not to be acted on. Before `Init` the worker waits
for the query; `Init` is the state in which the stream has been created.

### GroupByMaster and JoinMaster

Each is one update function with its branches as disjuncts: no entry under the
key's hash, a chain without the key, a chain with it. In both, `hsearch_r` finds
an entry *by the hash of the key alone*: the key that was stored points into the
stack frame of an earlier call, so that the comparison is of the searched key
with itself. Hash collisions are therefore not a corner case of the library but
the very thing the hand-written chains deal with, and `HVal` is an arbitrary
function of the key. (The hashed bytes are not terminated, so a hash may depend on
what is behind them on the stack, `cheetah_join.c:62`; that is a hazard no property
here covers.) `GroupByMaster` stops at a write past
`ptr_array`, `JoinMaster` at a failed `assert`. `AnswerExact` reads the answer off
`ptr_array`, the way the master prints it.

### GroupByQuery

Any number of workers send arbitrary tables; `Send` is a packet's way through
`GroupBySwitch!Ingress` to the port, `Arrive` puts it in a receive ring of
`RxSize` or loses it, `Receive` is one `rte_eth_rx_burst`, `Aggregate` one
iteration of the master's loop over the burst. The switch and the master are the
very modules above, one extended and one instantiated. Of the switch's flows the
query is one, `QueryFlow`. The worker's own hazards are left to
`WorkerStream`: here a worker sends what it has.

## 3. What the runs show

| Run | Instance | Shows |
|---|---|---|
| `groupby_switch` | 3 keys, 2 values, 2 flows, 2 stages of 2 cells | every dropped row is beaten by a forwarded one (`AnswerPreserved`, `PromiseKept`); a cell is always backed by a forwarded row (`SketchBacked`) and holds the exact maximum where no key collides (`PrivateCellExact`) |
| `skyline_switch` | coordinates 0, 1, 3 of a 3-bit word | the three registers are one forwarded row's (`OneRow`); a dropped row is exceeded in both coordinates, also where sums wrap (`PromiseKept`) |
| `distinct_query` | values 0 to 3 in one cell, 4 stages, rows lost at the ring; three hashes collide at the master, room for 3 | no value but 0 is dropped unseen (`FirstIsForwarded`); the stages are an LRU cache (`IsLRU`); the answer lists each value once, but for lost rows and 0 (`AnswerIsDistinct`); the free is sound exactly without collisions (`FreeIsClean`) |
| `topn_query` | up to 7 rows of the values 0, 1, 2, 7, N = 2, rows lost at the ring | the array is exact for what reached it (`MasterExact`); once a row is dropped, N rows above the cutoff are in the array, or those that are not are made up for by rows on their way or lost (`AnswerAboveCutoff`) |
| `topn_answer` | the same, up to 6 rows | **violated**, without any loss: see finding 3 |
| `worker_stream` | 7 rows, batches of 2, ring of 3, pool of 7, 2 fields | no buffer is missing or counted twice (`NeverStarved`, `BuffersAccounted`); what a packet may carry (`RowsDriftForward`, `KeptPaceIsIntact`); what may be missing (`LossBounded`); the worker ends (`Finishes`) |
| `worker_payload` | 4 rows, batches of 2, ring of 2 | **violated**: see finding 1 |
| `control_flow` | 2 workers, both awaited, 2 rows each, bursts of 2 | who waits for ever has a reason (`HangsExplained`); every run comes to rest (`Settles`); without an accident the delay is printed (`Measured`) |
| `join_master` | 5 rows, 4 keys of which 2 collide, result of 4, table of 2, arrays of 1 | pairs are complete and exact (`JoinComplete`, `JoinExact`), keys are never mixed (`SameKeyOnly`), limits hold (`AbortsAtLimits`), a bin's array grows before it is full (`RowsFit`) |
| `join_disjoint` | the same | **violated**: see finding 2 |
| `groupby_master` | 4 keys of which 3 collide, 3 values, room for 3 groups | list and chains agree (`ListAndChainsAgree`, `OneGroupPerKey`), overrun only by too many keys (`OverrunOnlyBeyondSize`), the answer is right row by row (`AnswerExact`) |
| `groupby_query` | 2 workers with 2 rows each, 2 keys, 2 values, 2 stages, ring and burst of 2 | only keys of which the ring lost a row can have a wrong maximum, unless the master overran `ptr_array` (`OnlyLostKeysSuffer`); dropping never runs ahead of rows still on their way (`LateRowsCovered`); every query drains (`Drains`) |

Besides these each passing run but `control_flow` and `skyline_switch` checks its
module's type invariant (`TypeOK` or `QueryTypeOK`).

Findings, each a run that TLC refutes:

1. `fast_packet_stream.c:17`: clones share the template's data; one that is still
   in the ring may carry the next batch's row, or a mixture of two rows.
2. `cheetah_join.c:123`: a secondary row can open a bin and is then joined with
   the next secondary row of its key, although no primary row has the key.
3. `cheetah_topn.p4:112`: past the first N rows the switch drops the rows that
   exceed twice the minimum, which are the greatest.

Four more configurations are kept beside the runs and are started like them:

- `MCDistinctSwitch` checks `FirstIsForwarded` and `IsLRU` with values 0 to 3 in
  one cell and, in another, 5, a value with an upper word and one with its top bit
  set: only the cell with the wide values suffers. It passes.
- `MCDistinctQueryZero` refutes `EveryValueIsAnswered`.
  `cheetah_lru_import_efficient.p4:19`: the value 0 equals a register that was
  never written; it is dropped at its first row, and the answer lacks it.
- `MCDistinctSwitchDepth` refutes `EveryCacheCounts`.
  `cheetah_lru_import_efficient_4.p4:19` against `README.md:45`, which says that
  the number of LRU caches can be increased: the fourth cache is fed with what
  the third stores already, and four caches hold three values.
- `MCControlFlowDelay`, the instance as shipped, refutes `DelayIsEndToEnd`.
  `receive_ack_end.py:17`, `control_flow_constants.py:3`: the "End to end delay"
  is printed after one ACK although the query goes to two nodes, and an ACK is
  sent when a worker's rows are with its NIC: when it is printed a worker may
  still be sending, and rows may be on their way.

Facts the models show that are no disagreement with a text of the repository:
only whole batches of a table are sent (`cheetah_control_flow.c:225`), which
together with what the close discards is the bound of `LossBounded`; a wide value
makes DISTINCT take any value of its cell for a repetition; two values that share
a hash make DISTINCT's free read a slot that was never written.

### Bounds, and why they are enough

*GROUP BY switch.* A wrong drop needs a row that is kept in one stage and
dropped in the next, and an eviction by a colliding key. Two stages and three
keys do it: the hash makes keys 0 and 1 collide in stage 1, 1 and 2 in stage 2,
so every key has a stage in which it is alone and every stage a collision. Key 0
is also the content of an empty cell. The theorems cover every other size.

*DISTINCT.* Four values in one cell, 0 among them, overflow the cache, three deep,
by one, with the four stages of the program; the other cell stays empty. Wide values
in a cell of their own are left to `MCDistinctSwitch`, which has no master, and to
the theorems, which hold for any values. Four values, none of them 0, are as many
as the program has caches (`MCDistinctSwitchDepth`). At the master three
values share a hash, the shortest chain with a middle, and the fourth value
overruns the result.

*SKYLINE.* With words below 8 and coordinates up to 3 the sums 4 to 6 are
negative to the comparison: rows with a greater sum are passed over, and rows
with a smaller one stored. The theorems cover every word size.

*TOP-N.* Seven rows are the two of the learning phase, the three that have to
pass before anything is dropped, and two more. The values lie below and above
the first minimum and its double. Any forwarded row can be lost; the ring's size
is left open, which allows more losses than any size does.

*Control flow.* As shipped the query goes to two nodes and the listener awaits
one ACK, which is the instance of `MCControlFlowDelay`; `control_flow` awaits both, so
that what hangs and what ends is asked of the query as a whole. Two rows per worker
let
the listener be started between a worker's rows, after one worker's ACK, or
after all of them.

*Worker.* Seven rows are three batches and a tail. The ring (3) is not a multiple
of the batch (2), so batches enter it in parts and a clone can lag by more than
a batch; the pool is the least that `PoolAssumption` allows. The real sizes
(8192, 1024, 32) satisfy it with room to spare.

*JOIN.* Five rows double a bin's array twice, fill the result and the hash
table, and let each table's rows come first in a chain of two bins.

*GROUP BY master.* Chains of three are the shortest with a middle; one key more
than `Size` reaches the overrun.

*End to end.* Every pair of tables of two rows is an initial state. Four rows
overflow a ring of two and make the switch drop on behalf of rows that are still
in the ring, in the burst, or lost.

`MaxRows` in `JoinMaster` and `TopNQuery` and the tables' lengths are the only bounds on
behaviour; the other state spaces are finite by themselves.

### Fairness and deadlock

`WorkerStream!FairSpec` has weak fairness of the worker's thread, which never
blocks (the burst loop spins), and of `Transmit`: a started NIC transmits what
is queued. `GroupByQuery!FairSpec` has weak fairness of each worker's sending,
of the master's poll and of its aggregation; the master's loop is a busy loop
without a blocking call. `ControlFlow!FairSpec` has weak fairness of each
process, strong fairness of polls that take rows (a poll is possible only at the
top of the loop, but the loop comes there again and again and takes what is in
the ring), and weak fairness of `Refuse`: a datagram reaches a socket or is
refused, and does not stay on its way for ever. Nothing is fair about what is
lost, and nobody has to send a signal. `Measured` assumes a run without
accident in its statement (`NothingAmiss`), not in the fairness.

`CHECK_DEADLOCK FALSE` stands where the system really stops: the worker exits,
the master of `JoinMaster` or the array of `TopNQuery` has received all `MaxRows`
rows, an assert of the JOIN has ended the master, `GroupByMaster` has overrun its array, the
query of `GroupByQuery` or `ControlFlow` is over.

## 4. What is proved

Proofs are checked by TLAPS, for every value of the constants that satisfies the
named assumptions.

| Theorem | Says | From |
|---|---|---|
| `SkylineSwitchProofs!Lossless` | an implementation of `PruningSpec`, of any rows with any monotone notion of redundancy, loses nothing | `RedundantMonotone` |
| `GroupByQueryProofs!Typing`, `CellsAreBacked`, `MaximumSurvives`, `PrivateCellsAreExact` | of the switch: `TypeOK`, `SketchBacked`, `AnswerPreserved`, `PrivateCellExact` are invariants | `StageAssumption`, `WordAssumption`, `HashAssumption`, `HalfRange` |
| `GroupByQueryProofs!KeepsPromise` | the program implements `PruningSpec` | the same |
| `GroupByQueryProofs!ASwitchRun`, `AMasterRun` | every run of the query is one of the switch's program, and one of the master's aggregation | `QueryAssumption` |
| `GroupByQueryProofs!QueryTyping`, `DroppingNeverRunsAhead`, `TheAnswerIsTheMaximum` | `QueryTypeOK`, `LateRowsCovered`, `OnlyLostKeysSuffer` | all of these |
| `SkylineSwitchProofs!Typing`, `RegistersAreOneRow`, `KeepsPromise` | `TypeOK`, `OneRow`; the program implements `PruningSpec` | `SkylineAssumption` |
| `SkylineSwitchProofs!NoSkylinePointIsDropped` | so the skyline of all rows is forwarded | the same |
| `DistinctQueryProofs!Typing`, `EveryValueArrives`, `StagesAreOneCache` | of the switch, for any values: `TypeOK`, `FirstIsForwarded`; while all values are small it implements `LRUCache` (`IsLRU`) | `DistinctAssumption` |
| `DistinctQueryProofs!ASwitchRun` | every run of the query is one of the switch's program | – |
| `DistinctQueryProofs!QueryTyping`, `TheAnswerIsDistinct`, `FreeReadsWildPerCollision` | for any values `QueryTypeOK`, `AnswerIsDistinct`, `FreeIsClean` | `DistinctAssumption`, `MasterAssumption` |
| `TopNQueryProofs!Typing`, `MasterIsExact`, `NothingDroppedTooEarly` | `TypeOK`, `MasterExact`, `AnswerAboveCutoff` | `MasterAssumption`, `SwitchAssumption` |
| `WorkerStreamProofs!Typing`, `PoolSuffices`, `Accounting`, `NothingLeaks`, `LossIsBounded` | `TypeOK`, `NeverStarved`, `BuffersAccounted`, `NoLeak`, `LossBounded` | `SizeAssumption`, `PoolAssumption`, `FieldAssumption` |
| `WorkerStreamProofs!PacketsDriftForward`, `PaceKeepsRowsIntact` | `RowsDriftForward`; the action property `KeptPaceIsIntact` | the same |
| `ControlFlowProofs!Typing`, `TheDelayCoversTheAcked`, `AHangHasAReason` | `TypeOK`; `DelayCoversAcked`: when the delay is printed as many workers as are awaited have handed over their tables; `HangsExplained` | `NodesAssumption` |
| `GroupByMasterProofs!Typing`, `ChainsMatchList`, `EveryKeyOnce`, `OverrunIsByKeys` | `TypeOK`, `ListAndChainsAgree`, `OneGroupPerKey`, `OverrunOnlyBeyondSize` | `MasterAssumption` |
| `GroupByMasterProofs!AnswersExactly`, `MaximumPerKey` | the master implements `GroupByAnswer`; its answer is each key's maximum | the same |
| `JoinMasterProofs!Typing`, `KeysAreNeverMixed`, `OnlyJoiningRowsArePaired`, `EveryPairOnce`, `LimitsHold`, `ArraysAreLargeEnough` | `TypeOK`, `SameKeyOnly`, `JoinExact`, `JoinComplete`, `AbortsAtLimits`, `RowsFit` | `LimitAssumption`, `HashAssumption` |

*GROUP BY.* `AnswerPreserved` is not inductive: it says nothing of the registers,
by which the next row is judged. `TypeOK /\ SmallValues /\ SketchBacked` is: a row
written into a cell is either forwarded, and then backs the cell itself, or is
dropped by a later stage, and then the row that backs *that* cell has the same
key and a greater value, and so backs this one. From it a dropped row is beaten
by a forwarded one, which is a `Prune` step of `PruningSpec`; `AnswerPreserved`
follows because rows once forwarded stay so. `SmallValues` is there because the
sign of a 32-bit difference is an order only below 2^31 (`ExceedsIsGreater`).

*DISTINCT.* The invariant goes cell by cell (`CellsHold`), since a wide word spoils
only its own cell. In a cell that has met small values only, the registers' high
words are zero or tagged and their low words are never tagged (`CleanCell`), so a
hit means equality of the low words; and every low word but 0 in a register is that
of a forwarded value (`RememberedIn`). A value dropped there is 0 or was forwarded.
`Feeder` enters only by being earlier in the chain, so the wrong feeder of the
fourth stage does no harm to the answer. That the stages are an LRU cache needs
more (`LikeACache`): while all values are small, a stage behind the first three
repeats one of them. A walk then moves each value one stage on, up to the stage
that hits or the last, which is a use of `LRUCache` under the mapping `Held`.

*Worker.* `Typed /\ CountsOrdered /\ Positioned /\ BuffersAccounted /\ NeverStarved`:
the order of the three counts, what the position in the loop says of them, and
where each buffer is. At `Clone` at most `RingSize` clones are in the ring and
`Batch` buffers are templates, so `PoolAssumption` leaves a batch. What packets
carry follows from `Drift`: batches are whole, and each field of a template holds
this batch's row or, until its store is done, the last one's. A clone is then
transmitted with the template's current row, which is its own or that of the same
slot in a later batch (`RowsDriftForward`); in a run that keeps pace it is its own
(`KeptPaceIsIntact`).

*SKYLINE.* `OneRow` is what makes a drop safe: the registers that dominate a row
are coordinates of one row, and that row was forwarded, because a row that is
stored is not dropped. Which row is stored does not matter, so the sum may wrap.

*DISTINCT query.* The switch's part is inherited: `ASwitchRun` maps the query's
steps to steps or stutters of the switch's program. The master's part is
`MasterInv`: the result has no duplicates (its length is the cardinality of its
set) and a chain holds just the values of its hash, so a walk along one chain
decides for the whole result. `Recorded` joins them: what was forwarded and not
lost is in the result. For the free, `HeadsListed` says that `ptr_array` has as
many entries as there are values that head their chains; each further value of the
result, one that shares its hash with a head, makes the free read one slot that was
never written.

*GROUP BY master.* The chains and the list are in step (`ListAndChainsAgree`), no
two list entries have one key, and every entry's key was received. An overrun
then means more keys than slots, by the pigeonhole principle. `MaximumPerKey`
is proved through the refinement: a row seen moves `Answer` as `GroupByAnswer!See`
does, and that keeps every key's maximum (`AnswerIsMaximum`).

*GROUP BY query.* The two parts bring their theorems: a run of the query is one of
the switch's program (`ASwitchRun`) and one of the master's (`AMasterRun`), so
`AnswerPreserved` and `MaximumPerKey` hold of it. `NothingVanishes` and
`NothingAppears` follow a row from one to the other: what was forwarded is in the
ring, in the burst, lost or received, and nothing else is. So a dropped row is
beaten by a row that is still on its way, lost or received (`LateRowsCovered`), and
once nothing is on its way only a lost row can be missing from a maximum
(`OnlyLostKeysSuffer`).

*TOP-N.* Sorting is not followed. `Ranked` says of the array that, for every
threshold, its i-th entry is at least the threshold exactly if i of the rows
received are; insertion at the first smaller entry keeps that. At the switch a
row is dropped only when the second counter is past N, and each row counted was
forwarded and is above the cutoff (`CountedLeft`). What was forwarded was
received, is on its way or is lost, value by value (`Balanced`), so rows above the
cutoff that the array lacks are in the ring or lost. The sign of the 32-bit
difference tells that, because `SwitchAssumption` keeps values and the doubled
minimum below 2^31 (`PastIsAbove`).

*Control flow.* `WorkersInv`: a worker is done exactly if its ACK is on its way,
gone or heard, and has then sent its table. `ListenerInv`: the listener's program
is started only by a master that received a row, and it prints exactly when it has
heard as many ACKs as are awaited. `RowsInv`: `received + wire + dropped = sent`. A worker that still
waits therefore misses a query that was lost or refused, and a listener more ACKs
than it can spare (`HangsExplained`).

*JOIN.* The rows in a bin are received rows of the bin's key (`BinsBacked`) and
fit its array, so an entry pairs rows of one key. A primary row is in its key's
bin from its arrival (`RowsKept`), so a secondary row that is no orphan finds the
bin and opens none: without orphans only primary rows are in bins
(`PrimaryOnly`). An assert comes with a full result or a full table. For
`JoinComplete` a key has one bin and a bin lists a row once (`BinsDistinct`), no
pair is in the result twice (`EntriesDistinct`), and every pair of received rows
that joins is there (`AllPaired`).

Only model-checked is liveness (`Finishes`, `Drains`, `Settles`, `Measured`), which
is out of the prover's reach. Every invariant, action property and refinement that
a passing run checks is proved.

## 5. Not modelled

- *JOIN program.* What `set_bitc` and `read_bit` output is the compiler's, not the
  repository's, and the rules for stages 3 and 6 (`control_plane/rules.md:80,86`)
  leave out reads: a model would have to guess which bit means drop.
- *FILTERING program*: one comparison, no state.
- *DISTINCT packets of other flows*, which meet only the copy and the last tables.
- *Functions no program calls*: `cheetah_aggregate_processing_groupby_free`,
  `cheetah_join_free`, `cheetah_control_message_receive_acks`,
  `control_message_manager.c`, `send_ack_end.py`, and the list-based packet stream
  `packet_manager.c`.
- *No protocol state*: header layout (`packet_crafter.c`), file parsing, opening
  of ports, timing, resource limits, DPDK initialisation, build files, the offline
  script.
- Heap memory of the worker (`mbuf_burst_arr_clone` is leaked once per batch), and
  a listener that is still bound when the master is started again.

## 6. Plan

What is left, in this order:

1. The pipelined GROUP BY program, one action per stage, as an implementation of
   the atomic one: the argument of section 2 as a refinement.
2. JOIN end to end, should the outputs of the filter's ALUs become known.

Where new runs answer a question that an old one does, the old one goes: each
run is kept for one question.

## 7. Running

In this directory, `tlc -config MCGroupBySwitch.cfg MCGroupBySwitch` checks one
configuration (each `.cfg` goes with the `MC` module its name begins with), and
`tlapm GroupByQueryProofs.tla` one module's proofs. Each run takes from a few
seconds to about a minute and a half, each proof module up to two minutes.
