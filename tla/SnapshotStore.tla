---------------------------- MODULE SnapshotStore ----------------------------
(***************************************************************************)
(* What the manager relies on when it calls BindingStore.Save and Load: a  *)
(* save takes effect at once or not at all, an error means not at all, and *)
(* a restart loads exactly what is stored.                                 *)
(***************************************************************************)
CONSTANTS Snapshots, Empty, None

VARIABLES
  stored,   \* the snapshot a restart would find
  request,  \* the snapshot being saved, or None
  loaded    \* what the last start of the process has loaded

Init == stored = Empty /\ request = None /\ loaded = Empty

Begin(s) == request = None /\ request' = s /\ UNCHANGED <<stored, loaded>>

Commit == request # None /\ stored' = request /\ request' = None /\ UNCHANGED loaded

Abort == request # None /\ request' = None /\ UNCHANGED <<stored, loaded>>

Restart == loaded' = stored /\ request' = None /\ UNCHANGED stored

Next == (\E s \in Snapshots : Begin(s)) \/ Commit \/ Abort \/ Restart

Spec == Init /\ [][Next]_<<stored, request, loaded>>
=============================================================================
