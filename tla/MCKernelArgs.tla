---------------------------- MODULE MCKernelArgs ----------------------------
(* Instances of KernelArgs for TLC. *)
EXTENDS KernelArgs, TLC

SizesByIndex == [a \in ConstArgs |-> a]
Symmetry == Permutations(Mems) \cup Permutations(Values)
=============================================================================
