-------------------------- MODULE MCSkylineSwitch --------------------------
(***************************************************************************)
(* Coordinates whose sums go past the range of the signed comparison.      *)
(***************************************************************************)
EXTENDS SkylineSwitch
=============================================================================
