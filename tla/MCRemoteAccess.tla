--------------------------- MODULE MCRemoteAccess ---------------------------
(* RemoteAccess with small sets of model values for TLC. *)
EXTENDS RemoteAccessInv, TLC

Symmetry == Permutations(Devices) \cup Permutations(Ports) \cup Permutations(LeaseIDs)
              \cup Permutations(Conns)
=============================================================================
