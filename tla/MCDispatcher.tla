----------------------------- MODULE MCDispatcher -----------------------------
(* Instances of Dispatcher for TLC. *)
EXTENDS Dispatcher, TLC

\* Nodes are alike, and so are applications; no run checks liveness.
NodeAppSymmetry == Permutations(Nodes) \cup Permutations(Apps)
=============================================================================
