--------------------------- MODULE MCControlFlow ---------------------------
(***************************************************************************)
(* The two nodes of the shipped configuration (CHEETAH_MULTIPLE_NODES_     *)
(* SAME_IP).  It awaits one ACK (host/control_flow_constants.py:3), which  *)
(* is MCControlFlowDelay.cfg; MCControlFlow.cfg awaits both nodes' ACKs.   *)
(***************************************************************************)
EXTENDS ControlFlow
=============================================================================
