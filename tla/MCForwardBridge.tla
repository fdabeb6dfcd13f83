-------------------------- MODULE MCForwardBridge --------------------------
(* ForwardBridge for TLC: its pools and context IDs are interchangeable. *)
EXTENDS ForwardBridge, TLC

Symmetry == Permutations(Rules) \cup Permutations(Conns) \cup Permutations(Contexts)
=============================================================================
