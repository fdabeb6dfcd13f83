--------------------------- MODULE ServiceProofs ---------------------------
(***************************************************************************)
(* The services that the connections share: the binding store, the port    *)
(* pool, the audit sink and the device registry.  Each is proved by itself *)
(* and none of them uses another.                                          *)
(***************************************************************************)
EXTENDS BindingStore, PortPool, AuditSink, DeviceRegistry, FiniteSetTheorems, TLAPS

-----------------------------------------------------------------------------
(* The binding store: its sequence of file operations is an atomic store, for *)
(* any set of snapshots, as long as a Save is completed between any two       *)
(* faults.  First the invariant.                                              *)

\* A Save under way has a snapshot to save, and there is none otherwise.
Called == IF pc = "idle" THEN arg = None ELSE arg \in Snapshots

\* What was encoded and synced is what the last rename puts in place.
Written == pc \in {"dropBackup", "rotate", "replace"} => tmp = arg

\* Without a fault since the last completed Save, what was kept is the primary until
\* the primary has made room, and the backup from then on.
KeptIsFound ==
  faults = 0 =>
    IF pc = "replace"
    THEN primary = Absent /\ backup = (IF kept = Empty THEN Absent ELSE kept)
    ELSE IF kept = Empty THEN primary = Absent /\ backup = Absent ELSE primary = kept

StoreInv ==
  /\ primary \in Snapshots \cup {Absent} /\ backup \in Snapshots \cup {Absent}
  /\ tmp \in Snapshots \cup {Absent, Torn}
  /\ pc \in {"idle", "write", "dropBackup", "rotate", "replace"}
  /\ kept \in Snapshots \cup {Empty} /\ loaded \in Snapshots \cup {Empty}
  /\ faults \in 0..MaxFaults
  /\ Called /\ Written /\ KeptIsFound

\* With at most one fault between two completed Saves, a restart loads what was kept.
LEMMA LoadFindsKept ==
  ASSUME StoreInv, MaxFaults <= 1, faults < MaxFaults
  PROVE  Load = kept
<1>1. faults = 0
  BY BindingStoreAssumption DEF StoreInv
<1> QED
  BY <1>1, BindingStoreAssumption DEF StoreInv, KeptIsFound, Load

\* The invariant holds at first: there are no files.
LEMMA InitStore == StoreInit => StoreInv
<1> SUFFICES ASSUME StoreInit PROVE StoreInv
  OBVIOUS
<1>1. Load = Empty
  BY BindingStoreAssumption DEF StoreInit, Load
<1> QED
  BY <1>1, BindingStoreAssumption DEF StoreInit, StoreInv, Called, Written, KeptIsFound

\* Every file operation, failure and restart keeps it.
LEMMA NextStore == MaxFaults <= 1 /\ StoreInv /\ [StoreNext]_storeVars => StoreInv'
<1> SUFFICES ASSUME MaxFaults <= 1, StoreInv, [StoreNext]_storeVars PROVE StoreInv'
  OBVIOUS
<1> USE BindingStoreAssumption
<1>1. ASSUME NEW s \in Snapshots, SaveOpen(s) PROVE StoreInv'
  BY <1>1 DEF SaveOpen, StoreInv, Called, Written, KeptIsFound
<1>2. CASE SaveWrite
  BY <1>2 DEF SaveWrite, StoreInv, Called, Written, KeptIsFound
<1>3. CASE SaveWriteFails
  BY <1>3 DEF SaveWriteFails, Return, StoreInv, Called, Written, KeptIsFound
<1>4. CASE SaveDropBackup
  BY <1>4 DEF SaveDropBackup, StoreInv, Called, Written, KeptIsFound
<1>5. CASE SaveRotate
  BY <1>5 DEF SaveRotate, StoreInv, Called, Written, KeptIsFound
<1>6. CASE SaveRotateFails
  BY <1>6 DEF SaveRotateFails, Return, StoreInv, Called, Written, KeptIsFound
<1>7. CASE SaveReplace
  BY <1>7 DEF SaveReplace, Return, StoreInv, Called, Written, KeptIsFound
<1>8. CASE SaveReplaceFails
  BY <1>8 DEF SaveReplaceFails, Return, StoreInv, Called, Written, KeptIsFound
<1>9. CASE Restart
  <2>1. Load = kept
    BY <1>9, LoadFindsKept DEF Restart
  <2> QED
    BY <1>9, <2>1 DEF Restart, Return, files, StoreInv, Called, Written, KeptIsFound
<1>10. CASE UNCHANGED storeVars
  BY <1>10 DEF storeVars, files, StoreInv, Called, Written, KeptIsFound
<1> QED
  BY <1>1, <1>2, <1>3, <1>4, <1>5, <1>6, <1>7, <1>8, <1>9, <1>10 DEF StoreNext

-----------------------------------------------------------------------------
(* The refinement of the store *)

\* A store without files is an empty abstract store.
LEMMA InitRefines == StoreInit => Snapshot!Init
<1> SUFFICES ASSUME StoreInit PROVE Snapshot!Init
  OBVIOUS
<1>1. Load = Empty
  BY BindingStoreAssumption DEF StoreInit, Load
<1> QED
  BY <1>1 DEF StoreInit, Snapshot!Init

\* Every file operation is a step of the abstract store, or none: the last rename
\* commits, a failure aborts, and all the others are invisible.
LEMMA NextRefines ==
  ASSUME MaxFaults <= 1, StoreInv, [StoreNext]_storeVars
  PROVE  [Snapshot!Next]_<<kept, arg, loaded>>
<1>1. ASSUME NEW s \in Snapshots, SaveOpen(s) PROVE Snapshot!Begin(s)
  BY <1>1 DEF SaveOpen, Snapshot!Begin, StoreInv, Called
<1>2. ASSUME SaveWriteFails \/ SaveRotateFails \/ SaveReplaceFails PROVE Snapshot!Abort
  BY <1>2, BindingStoreAssumption
  DEF SaveWriteFails, SaveRotateFails, SaveReplaceFails, Return, Snapshot!Abort, StoreInv, Called
<1>3. ASSUME SaveReplace PROVE Snapshot!Commit
  BY <1>3, BindingStoreAssumption DEF SaveReplace, Return, Snapshot!Commit, StoreInv, Called
<1>4. ASSUME Restart PROVE Snapshot!Restart
  <2>1. Load = kept
    BY <1>4, LoadFindsKept DEF Restart
  <2> QED
    BY <1>4, <2>1 DEF Restart, Return, Snapshot!Restart
<1>5. ASSUME SaveWrite \/ SaveDropBackup \/ SaveRotate \/ UNCHANGED storeVars
      PROVE  UNCHANGED <<kept, arg, loaded>>
  BY <1>5 DEF SaveWrite, SaveDropBackup, SaveRotate, storeVars
<1> QED
  BY <1>1, <1>2, <1>3, <1>4, <1>5 DEF StoreNext, Snapshot!Next

\* Save and Load implement the atomic store: with a Save completed between any two
\* faults, a kill between any two file operations and a failure of any of them leave
\* the old snapshot or the new one, and the next start loads it.
THEOREM BindingStoreImplementsSnapshotStore ==
  ASSUME MaxFaults <= 1
  PROVE  StoreSpec => ImplementsSnapshotStore
<1>1. StoreInv /\ [StoreNext]_storeVars => StoreInv'
  BY NextStore
<1>2. StoreInv /\ [StoreNext]_storeVars => [Snapshot!Next]_<<kept, arg, loaded>>
  BY NextRefines
<1> QED
  BY <1>1, <1>2, InitStore, InitRefines, PTL DEF StoreSpec, ImplementsSnapshotStore, Snapshot!Spec

\* What is in the files is what was saved: only the temporary file is ever torn, so
\* that Load always succeeds.
THEOREM BindingStoreTypes ==
  ASSUME MaxFaults <= 1
  PROVE  StoreSpec => []StoreTypeOK
<1>1. StoreInv /\ [StoreNext]_storeVars => StoreInv'
  BY NextStore
<1>2. StoreInv => StoreTypeOK
  BY DEF StoreInv, StoreTypeOK, Called
<1> QED
  BY <1>1, <1>2, InitStore, PTL DEF StoreSpec

-----------------------------------------------------------------------------
(* The port pool never loses a port, never hands one out twice and reports    *)
(* exhaustion only when every port is reserved or has failed its probe, for   *)
(* any range of ports and any number of concurrent callers.                   *)

\* During the second walk a port is blocked only by a probe made since recycling.
BlockedHasFailed == \A c \in Callers : walk[c] = "second" => blocked \subseteq refused[c]

PoolInv == PoolTypeOK /\ Partition /\ Exclusive /\ BlockedHasFailed

\* A new pool satisfies the invariant.
LEMMA InitPool == PoolInit => PoolInv
BY PoolAssumption DEF PoolInit, PoolInv, PoolTypeOK, Partition, Exclusive, BlockedHasFailed

\* Every step of a caller or of another program preserves it.
LEMMA NextPool == PoolInv /\ [PoolNext]_poolVars => PoolInv'
<1> SUFFICES ASSUME PoolInv, [PoolNext]_poolVars PROVE PoolInv'
  OBVIOUS
<1> USE PoolAssumption DEF PoolInv, PoolTypeOK, Partition, Exclusive,
            BlockedHasFailed, sets
<1>1. ASSUME NEW c \in Callers, Allocate(c) PROVE PoolInv'
  BY <1>1 DEF Allocate
<1>2. ASSUME NEW c \in Callers, ProbeSucceeds(c) PROVE PoolInv'
  <2> DEFINE n == probing[c]
  <2>1. n \in reserved /\ n # NoPort
    BY <1>2 DEF ProbeSucceeds
  <2>2. /\ \A d \in Callers : /\ n \notin held[d]
                              /\ held'[d] = IF d = c THEN held[c] \cup {n} ELSE held[d]
                              /\ probing'[d] = IF d = c THEN NoPort ELSE probing[d]
                              /\ d # c => probing[d] # n
        /\ n \notin restored
    BY <1>2, <2>1 DEF ProbeSucceeds
  <2>3. PoolTypeOK' /\ Partition' /\ BlockedHasFailed'
    BY <1>2, <2>1 DEF ProbeSucceeds
  <2>4. Exclusive'
    <3>1. \A d \in Callers : NoPort \notin held[d] /\ NoPort \notin restored
      OBVIOUS
    <3> QED
      BY <1>2, <2>1, <2>2, <3>1 DEF ProbeSucceeds
  <2> QED
    BY <2>3, <2>4
<1>3. ASSUME NEW c \in Callers, ProbeFails(c) PROVE PoolInv'
  <2> DEFINE n == probing[c]
  <2>0. n \in Ports
    BY <1>3 DEF ProbeFails
  <2>1. n \in reserved /\ n # NoPort
    BY <2>0
  <2>2. /\ \A d \in Callers : n \notin held[d] /\ (d # c => probing[d] # n)
        /\ n \notin restored
    BY <2>1
  <2>5. \A d \in Callers : probing'[d] = IF d = c THEN NoPort ELSE probing[d]
    BY <1>3 DEF ProbeFails
  <2>3. PoolTypeOK' /\ Partition' /\ BlockedHasFailed'
    <3>1. PoolTypeOK'
      BY <1>3, <2>0 DEF ProbeFails
    <3>2. Partition'
      <4>1. /\ available' = available /\ reserved' = reserved \ {n}
            /\ blocked' = blocked \cup {n}
        BY <1>3 DEF ProbeFails
      <4>2. Partition
        OBVIOUS
      <4> HIDE DEF PoolInv, PoolTypeOK, Exclusive, BlockedHasFailed, n
      <4> QED
        BY <4>1, <4>2, <2>0, <2>1
    <3>3. BlockedHasFailed'
      BY <1>3 DEF ProbeFails
    <3> QED
      BY <3>1, <3>2, <3>3
  <2>4. Exclusive'
    <3>1. \A d \in Callers : NoPort \notin held[d] /\ NoPort \notin restored
      OBVIOUS
    <3>2. held' = held /\ restored' = restored /\ reserved' = reserved \ {n}
      BY <1>3 DEF ProbeFails
    <3> QED
      BY <2>1, <2>2, <2>5, <3>1, <3>2
  <2> QED
    BY <2>3, <2>4
<1>4. ASSUME NEW c \in Callers, FirstWalkFails(c) PROVE PoolInv'
  BY <1>4 DEF FirstWalkFails
<1>5. ASSUME NEW c \in Callers, Recycle(c) PROVE PoolInv'
  BY <1>5 DEF Recycle
<1>6. ASSUME NEW c \in Callers, Exhausted(c) PROVE PoolInv'
  BY <1>6 DEF Exhausted
<1>7. ASSUME NEW c \in Callers, NEW n \in Ports, Take(c, n) PROVE PoolInv'
  BY <1>7 DEF Take
<1>8. ASSUME NEW c \in Callers, NEW n \in Ports, Release(c, n) PROVE PoolInv'
  BY <1>8 DEF Release
<1>9. ASSUME NEW n \in Ports, Reserve(n) PROVE PoolInv'
  BY <1>9 DEF Reserve
<1>10. ASSUME NEW n \in Ports, OthersChange(n) PROVE PoolInv'
  BY <1>10 DEF OthersChange
<1>11. CASE UNCHANGED poolVars
  BY <1>11 DEF poolVars
<1> QED
  BY <1>1, <1>2, <1>3, <1>4, <1>5, <1>6, <1>7, <1>8, <1>9, <1>10, <1>11 DEF PoolNext

\* The pool stays well-formed: only ports of the range are ever in its sets.
THEOREM PoolTypes == PoolSpec => []PoolTypeOK
<1>1. PoolInv => PoolTypeOK
  BY DEF PoolInv
<1> QED
  BY <1>1, InitPool, NextPool, PTL DEF PoolSpec

\* portPool's three sets partition the configured range: no port is ever lost.
THEOREM PoolPartition == PoolSpec => []Partition
<1>1. PoolInv => Partition
  BY DEF PoolInv
<1> QED
  BY <1>1, InitPool, NextPool, PTL DEF PoolSpec

\* A port has one owner at a time, and stays reserved while it has one.
THEOREM PoolExclusive == PoolSpec => []Exclusive
<1>1. PoolInv => Exclusive
  BY DEF PoolInv
<1> QED
  BY <1>1, InitPool, NextPool, PTL DEF PoolSpec

\* allocate reports exhaustion only when no port could have been handed out.
THEOREM PoolExhaustion == PoolSpec => ExhaustionIsReal
<1>1. PoolInv =>
        [\A c \in Callers : Exhausted(c) => Ports \subseteq reserved \cup refused[c]]_poolVars
  BY DEF PoolInv, PoolTypeOK, Partition, BlockedHasFailed, Exhausted
<1> QED
  BY <1>1, InitPool, NextPool, PTL DEF PoolSpec, ExhaustionIsReal

-----------------------------------------------------------------------------
(* The audit sink, for any number of producers, buffer and size of the log.   *)

\* The producers that have passed the check of closed and not sent yet.
Sending == {p \in Producers : prod[p] = "send"}

\* The goroutine leaves its select only for a Close.
DrainsForClose == loop \in {"drain", "persistLast", "ended"} => closer # "none"

\* Until the goroutine ends nothing is late; from then on the channel holds late
\* events only, and each of them has used up a producer that was on its way: after
\* Close nobody passes the check any more.
LateInv ==
  IF loop = "ended"
  THEN queue <= late /\ late + Cardinality(Sending) <= Cardinality(Producers)
  ELSE late = 0

SinkInv == SinkTypeOK /\ DrainsForClose /\ LateInv

\* The producers on their way are finitely many, and at most all of them.
LEMMA SendingFinite ==
  /\ IsFiniteSet(Sending)
         /\ Cardinality(Sending) \in Nat /\ Cardinality(Producers) \in Nat
         /\ Cardinality(Sending) <= Cardinality(Producers)
<1>1. Sending \in SUBSET Producers
  BY DEF Sending
<1> QED
  BY <1>1, FS_Subset, FS_CardinalityType, AuditAssumption

\* NewSink establishes the invariant.
LEMMA InitSink == SinkInit => SinkInv
<1> SUFFICES ASSUME SinkInit PROVE SinkInv
  OBVIOUS
<1>1. open \in BOOLEAN /\ cooling \in BOOLEAN /\ dropped \in BOOLEAN /\ failed \in BOOLEAN
  BY DEF SinkInit
<1>2. /\ queue \in 0..Buffer /\ late \in Nat
      /\ size \in 0..(MaxSize + Overrun) /\ old \in 0..(MaxSize + Overrun)
  BY AuditAssumption DEF SinkInit
<1>3. /\ prod \in [Producers -> {"idle", "send"}] /\ closer = "none" /\ loop = "select"
      /\ late = 0
  BY DEF SinkInit
<1> QED
  BY <1>1, <1>2, <1>3 DEF SinkInv, SinkTypeOK, DrainsForClose, LateInv

\* Record, the writing goroutine and Close keep it.
LEMMA NextSink == SinkInv /\ [SinkNext]_sinkVars => SinkInv'
<1> SUFFICES ASSUME SinkInv, [SinkNext]_sinkVars PROVE SinkInv'
  OBVIOUS
<1> USE AuditAssumption DEF SinkInv, SinkTypeOK, DrainsForClose, log
\* Steps that leave the channel, the producers and the history alone, and do not end the goroutine.
<1>1. ASSUME prod' = prod, late' = late, loop' = "ended" <=> loop = "ended",
             queue' \in Nat, loop = "ended" => queue' <= queue
      PROVE  LateInv'
  <2>1. Sending' = Sending
    BY <1>1 DEF Sending
  <2>2. LateInv /\ queue \in Nat /\ late \in Nat
    OBVIOUS
  <2> HIDE DEF SinkInv, SinkTypeOK
  <2> QED
    BY <1>1, <2>1, <2>2, SendingFinite DEF LateInv
<1>2. ASSUME NEW p \in Producers, RecordCheck(p) PROVE SinkInv'
  <2>1. SinkTypeOK' /\ DrainsForClose'
    BY <1>2 DEF RecordCheck
  <2>2. LateInv'
    BY <1>2 DEF RecordCheck, LateInv, Sending
  <2> QED
    BY <2>1, <2>2
<1>3. ASSUME NEW p \in Producers, RecordSend(p) PROVE SinkInv'
  <2>1. SinkTypeOK' /\ DrainsForClose'
    <3>1. CASE queue < Buffer
      BY <1>3, <3>1 DEF RecordSend
    <3>2. CASE ~(queue < Buffer)
      BY <1>3, <3>2 DEF RecordSend
    <3> QED
      BY <3>1, <3>2
  <2>2. Sending' = Sending \ {p} /\ p \in Sending
    BY <1>3 DEF RecordSend, Sending
  <2>3. Cardinality(Sending') = Cardinality(Sending) - 1
    BY <2>2, SendingFinite, FS_RemoveElement
  <2>4. LateInv'
    BY <1>3, <2>3, SendingFinite DEF RecordSend, LateInv
  <2> QED
    BY <2>1, <2>4
<1>4. CASE Receive
  BY <1>1, <1>4 DEF Receive
<1>5. CASE SeeDone
  BY <1>1, <1>5 DEF SeeDone
<1>6. CASE Drained
  <2>1. SinkTypeOK' /\ DrainsForClose'
    BY <1>6 DEF Drained
  <2>2. Sending' = Sending
    BY <1>6 DEF Drained, Sending
  <2>3. LateInv'
    BY <1>6, <2>2, SendingFinite DEF Drained, LateInv
  <2> QED
    BY <2>1, <2>3
<1>7. CASE Rotate
  BY <1>1, <1>7 DEF Rotate
<1>8. CASE RotateRenameFails
  BY <1>1, <1>8 DEF RotateRenameFails
<1>9. CASE RotateReopenFails
  <2>1. SinkTypeOK' /\ DrainsForClose'
    <3>1. open' \in BOOLEAN /\ cooling' \in BOOLEAN
      BY <1>9 DEF RotateReopenFails
    <3>2. size' \in 0..(MaxSize + Overrun) /\ old' \in 0..(MaxSize + Overrun)
      BY <1>9 DEF RotateReopenFails
    <3> QED
      BY <1>9, <3>1, <3>2 DEF RotateReopenFails
  <2>2. LateInv'
    BY <1>1, <1>9 DEF RotateReopenFails
  <2> QED
    BY <2>1, <2>2
<1>10. CASE Write
  BY <1>1, <1>10 DEF Write, Persisted
<1>11. CASE WriteFails
  BY <1>1, <1>11 DEF WriteFails, Persisted
<1>12. CASE CoolDown
  <2>1. cooling' \in BOOLEAN
    BY <1>12 DEF CoolDown
  <2>2. LateInv'
    BY <1>1, <1>12 DEF CoolDown
  <2> QED
    BY <1>12, <2>1, <2>2 DEF CoolDown
<1>13. CASE CloseBegin
  BY <1>1, <1>13 DEF CloseBegin
<1>14. CASE CloseReturn
  BY <1>1, <1>14 DEF CloseReturn
<1>15. CASE UNCHANGED sinkVars
  BY <1>1, <1>15 DEF sinkVars
<1> QED
  BY <1>2, <1>3, <1>4, <1>5, <1>6, <1>7, <1>8, <1>9, <1>10, <1>11, <1>12, <1>13, <1>14, <1>15
  DEF SinkNext, Writer

\* The sink stays well-formed: its channel never holds more than its buffer.
THEOREM SinkTypes == SinkSpec => []SinkTypeOK
<1>1. SinkInv => SinkTypeOK
  BY DEF SinkInv
<1> QED
  BY <1>1, InitSink, NextSink, PTL DEF SinkSpec

\* Close drains: what it leaves in the channel was sent after the goroutine had ended,
\* by producers that had passed the check before Close, one event each.
THEOREM SinkDrained == SinkSpec => []DrainedBeforeReturn
<1>1. SinkInv => DrainedBeforeReturn
  <2>1. ASSUME SinkInv, loop = "ended"
        PROVE  queue <= late /\ late <= Cardinality(Producers)
    <3>1. late \in Nat /\ LateInv
      BY <2>1 DEF SinkInv, SinkTypeOK
    <3> QED
      BY <2>1, <3>1, SendingFinite DEF LateInv
  <2> QED
    BY <2>1 DEF DrainedBeforeReturn
<1> QED
  BY <1>1, InitSink, NextSink, PTL DEF SinkSpec

\* No rotation, whichever of its steps fails, loses an entry or a generation, and the
\* log outgrows its limit only while a failed rotation cools down.
THEOREM SinkRotation == SinkSpec => RotationKeepsLog
<1> DEFINE Keeps == /\ old' # old \/ size' < size => old' = size /\ size' = 0
                    /\ size' > MaxSize /\ size' > size => cooling
<1>1. SinkInv /\ [SinkNext]_sinkVars => [Keeps]_sinkVars
  <2> SUFFICES ASSUME SinkInv, SinkNext PROVE Keeps
    OBVIOUS
  <2> USE AuditAssumption DEF SinkInv, SinkTypeOK, log
  <2>1. CASE old' = old /\ size' = size
    BY <2>1
  <2>2. CASE Rotate
    BY <2>2 DEF Rotate
  <2>3. CASE RotateReopenFails
    BY <2>3 DEF RotateReopenFails
  <2>4. CASE Write
    BY <2>4 DEF Write, MustRotate
  <2>5. ASSUME NEW p \in Producers, RecordCheck(p) \/ RecordSend(p)
        PROVE  old' = old /\ size' = size
    BY <2>5 DEF RecordCheck, RecordSend
  <2>6. ASSUME \/ Receive \/ SeeDone \/ Drained \/ RotateRenameFails
               \/ WriteFails \/ CoolDown \/ CloseBegin \/ CloseReturn
        PROVE  old' = old /\ size' = size
    BY <2>6 DEF Receive, SeeDone, Drained, RotateRenameFails,
                WriteFails, CoolDown, CloseBegin, CloseReturn
  <2> QED
    BY <2>1, <2>2, <2>3, <2>4, <2>5, <2>6 DEF SinkNext, Writer
<1> QED
  BY <1>1, InitSink, NextSink, PTL DEF SinkSpec, RotationKeepsLog

-----------------------------------------------------------------------------
(* The device registry, for any set of devices and any intervals.             *)

RegistryInv == RegistryTypeOK /\ RetentionRuns

\* A registry that has not scanned yet has no device and times none.
LEMMA InitRegistry == RegistryInit => RegistryInv
<1> SUFFICES ASSUME RegistryInit PROVE RegistryInv
  OBVIOUS
<1>1. age \in 0..StaleAfter /\ offline \in [Devices -> 0..(Retain + 1) \cup {NotTimed}]
  BY RegistryAssumption DEF RegistryInit
<1>2. ready \in BOOLEAN
  BY DEF RegistryInit
<1>3. /\ attached \in [Devices -> Listed \cup {"ABSENT"}]
      /\ devices \in [Devices -> Listed \cup {"UNKNOWN", "ABSENT"}]
      /\ seen \in [Devices -> Listed \cup {"ABSENT"}]
  BY DEF RegistryInit
<1>4. RetentionRuns
  BY DEF RegistryInit, RetentionRuns
<1> QED
  BY <1>1, <1>2, <1>3, <1>4 DEF RegistryInv, RegistryTypeOK

\* Scans, failed scans and the passing of time keep the invariant.
LEMMA NextRegistry == RegistryInv /\ [RegistryNext]_registryVars => RegistryInv'
<1> SUFFICES ASSUME RegistryInv, [RegistryNext]_registryVars PROVE RegistryInv'
  OBVIOUS
<1> USE RegistryAssumption DEF RegistryInv, RegistryTypeOK, RetentionRuns, Listed
<1>1. CASE ScanSucceeds
  BY <1>1 DEF ScanSucceeds, OfflineAge
<1>2. CASE ScanFails
  BY <1>2 DEF ScanFails
<1>3. CASE Tick
  BY <1>3 DEF Tick, Older
<1>4. ASSUME NEW d \in Devices, NEW status \in Listed \cup {"ABSENT"},
             Attach(d, status)
      PROVE  RegistryInv'
  BY <1>4 DEF Attach
<1>5. CASE UNCHANGED registryVars
  BY <1>5 DEF registryVars
<1> QED
  BY <1>1, <1>2, <1>3, <1>4, <1>5 DEF RegistryNext

\* The registry stays well-formed: every device has a status, and every absence an age.
THEOREM RegistryTypes == RegistrySpec => []RegistryTypeOK
<1>1. RegistryInv => RegistryTypeOK
  BY DEF RegistryInv
<1> QED
  BY <1>1, InitRegistry, NextRegistry, PTL DEF RegistrySpec

\* A device is timed exactly while the last successful scan missed it and the snapshot
\* still shows it, through any number of failed scans.
THEOREM RegistryRetention == RegistrySpec => []RetentionRuns
<1>1. RegistryInv => RetentionRuns
  BY DEF RegistryInv
<1> QED
  BY <1>1, InitRegistry, NextRegistry, PTL DEF RegistrySpec
=============================================================================
