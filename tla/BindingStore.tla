---------------------------- MODULE BindingStore ----------------------------
(***************************************************************************)
(* BindingStore (internal/store/bindings.go): the bindings are kept in     *)
(* bindings.json, with bindings.json.bak as the copy to fall back on.      *)
(* Save is a sequence of file operations under saveMu; each one is an      *)
(* action, so that the process can be killed between any two of them.      *)
(* A snapshot is a model value: validate accepts what the manager saves.   *)
(*                                                                         *)
(* A power failure loses a suffix of the directory operations since the    *)
(* last syncDirectory, which leaves the files as a kill at an earlier      *)
(* action does, so Restart stands for both.                                *)
(***************************************************************************)
EXTENDS Naturals

CONSTANTS
  Snapshots,  \* valid binding snapshots
  MaxFaults,  \* how many kills and failed last renames may come between two completed Saves
  Absent,     \* the file does not exist
  Torn,       \* the file exists and does not decode
  Empty,      \* Load: no snapshot, this is the first start
  Failed,     \* Load: an error, the process does not start
  None

ASSUME BindingStoreAssumption ==
  /\ MaxFaults \in Nat
  /\ Snapshots \cap {Absent, Torn, Empty, Failed, None} = {}

VARIABLES
  primary, backup, tmp,  \* contents of the three files
  pc,                    \* the step of Save that is next
  arg,                   \* the snapshot Save was called with
  loaded,                \* what NewManager got from Load
  kept,                  \* history: the last snapshot saved successfully or loaded
  faults                 \* history: kills and failed renames since a Save was completed

files     == <<primary, backup, tmp>>
storeVars == <<files, pc, arg, loaded, kept, faults>>

Load ==
  IF primary \in Snapshots THEN primary
  ELSE IF backup \in Snapshots THEN backup
  ELSE IF primary = Absent /\ backup = Absent THEN Empty
  ELSE Failed

Return == pc' = "idle" /\ arg' = None

StoreInit ==
  /\ primary = Absent /\ backup = Absent /\ tmp = Absent
  /\ pc = "idle" /\ arg = None
  /\ loaded = Load /\ kept = Load
  /\ faults = 0

\* Save is called: the temporary file is created or truncated.
SaveOpen(s) ==
  /\ pc = "idle"
  /\ tmp' = Torn
  /\ pc' = "write" /\ arg' = s
  /\ UNCHANGED <<primary, backup, loaded, kept, faults>>

\* Encode, Sync and Close succeed.
SaveWrite ==
  /\ pc = "write"
  /\ tmp' = arg
  /\ pc' = "dropBackup"
  /\ UNCHANGED <<primary, backup, arg, loaded, kept, faults>>

SaveWriteFails ==
  /\ pc = "write"
  /\ tmp' \in {Absent, tmp}
  /\ Return
  /\ UNCHANGED <<primary, backup, loaded, kept, faults>>

\* os.Remove(backupPath), whose error is ignored.
SaveDropBackup ==
  /\ pc = "dropBackup"
  /\ backup' \in {Absent, backup}
  /\ pc' = "rotate"
  /\ UNCHANGED <<primary, tmp, arg, loaded, kept, faults>>

\* Mutant: the primary makes room before its copy exists.
SaveRotate_Removes ==
  /\ pc = "rotate"
  /\ primary' = Absent
  /\ pc' = "replace"
  /\ UNCHANGED <<backup, tmp, arg, loaded, kept, faults>>

\* The primary becomes the backup; that there is no primary is not an error.
SaveRotate ==
  /\ pc = "rotate"
  /\ backup' = IF primary = Absent THEN backup ELSE primary
  /\ primary' = Absent
  /\ pc' = "replace"
  /\ UNCHANGED <<tmp, arg, loaded, kept, faults>>

SaveRotateFails ==
  /\ pc = "rotate" /\ primary # Absent
  /\ tmp' \in {Absent, tmp}
  /\ Return
  /\ UNCHANGED <<primary, backup, loaded, kept, faults>>

SaveReplace ==
  /\ pc = "replace"
  /\ primary' = tmp /\ tmp' = Absent
  /\ kept' = arg /\ faults' = 0
  /\ Return
  /\ UNCHANGED <<backup, loaded>>

\* The last rename fails, and the backup is renamed back; this may fail too.
SaveReplaceFails ==
  /\ pc = "replace" /\ faults < MaxFaults
  /\ faults' = faults + 1
  /\ \/ primary' = backup /\ backup' = Absent
     \/ UNCHANGED <<primary, backup>>
  /\ tmp' \in {Absent, tmp}
  /\ Return
  /\ UNCHANGED <<loaded, kept>>

\* The process is killed, with or without a Save under way, and starts again.
Restart ==
  /\ faults < MaxFaults
  /\ faults' = faults + 1
  /\ loaded' = Load /\ kept' = Load
  /\ Return
  /\ UNCHANGED files

StoreNext ==
  \/ \E s \in Snapshots : SaveOpen(s)
  \/ SaveWrite \/ SaveWriteFails \/ SaveDropBackup
  \/ SaveRotate \/ SaveRotateFails \/ SaveReplace \/ SaveReplaceFails
  \/ Restart

StoreSpec == StoreInit /\ [][StoreNext]_storeVars

-----------------------------------------------------------------------------
\* Only the temporary file is ever torn.
StoreTypeOK ==
  /\ primary \in Snapshots \cup {Absent} /\ backup \in Snapshots \cup {Absent}
  /\ tmp \in Snapshots \cup {Absent, Torn}
  /\ pc \in {"idle", "write", "dropBackup", "rotate", "replace"}
  /\ arg \in Snapshots \cup {None}
  /\ loaded \in Snapshots \cup {Empty, Failed}
  /\ kept \in Snapshots \cup {Empty, Failed}
  /\ faults \in 0..MaxFaults

Snapshot == INSTANCE SnapshotStore WITH stored <- kept, request <- arg

\* The file operations implement the atomic store the manager is written against.
ImplementsSnapshotStore == Snapshot!Spec
=============================================================================
