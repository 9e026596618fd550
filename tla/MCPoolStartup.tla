---------------------------- MODULE MCPoolStartup ----------------------------
(* Instances of PoolStartup for TLC. *)
EXTENDS PoolStartup
=============================================================================
