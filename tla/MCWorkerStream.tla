--------------------------- MODULE MCWorkerStream ---------------------------
(***************************************************************************)
(* Instances of WorkerStream with the smallest pool that PoolAssumption    *)
(* allows.                                                                 *)
(***************************************************************************)
EXTENDS WorkerStream

MCPoolSize == 2 * Batch + RingSize
=============================================================================
