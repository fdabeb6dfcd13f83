---------------------------- MODULE MCFileBridge ----------------------------
(* The file bridge on small instances. *)
EXTENDS FileBridge, TLC

Symmetry == Permutations(Transfers)
=============================================================================
