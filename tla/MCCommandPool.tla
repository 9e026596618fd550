--------------------------- MODULE MCCommandPool ---------------------------
(* Instances of CommandPool for TLC. *)
EXTENDS CommandPool, TLC

ClientSymmetry == Permutations(Clients)
=============================================================================
