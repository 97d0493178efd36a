---------------------------- MODULE MCJoinMaster ----------------------------
(***************************************************************************)
(* Keys 1 and 2 share a hash, and the table has room for two of the three  *)
(* hashes.                                                                 *)
(***************************************************************************)
EXTENDS JoinMaster

MCHVal == [k \in {1, 2, 3, 4} |-> CASE k = 3 -> "b" [] k = 4 -> "c" [] OTHER -> "a"]
=============================================================================
