--------------------------- MODULE DeviceRegistry ---------------------------
(***************************************************************************)
(* The device registry (internal/device/registry.go): a polling loop that  *)
(* lists the targets of the host HDC and keeps a snapshot of the devices.  *)
(* A failed scan keeps the snapshot until it is stale; a device that is no *)
(* longer listed is kept as offline for a while and then evicted.          *)
(* Times are modelled as ages, which Tick increments up to a cap.          *)
(***************************************************************************)
EXTENDS Naturals

CONSTANTS
  Devices,
  StaleAfter,  \* staleAfter, in ticks
  Retain,      \* retainOffline, in ticks
  NotTimed

ASSUME RegistryAssumption ==
  /\ StaleAfter \in Nat \ {0} /\ Retain \in Nat
  /\ NotTimed \notin Nat

VARIABLES
  attached,  \* what is plugged in: the status the host HDC would list, or "ABSENT"
  devices,   \* Registry.devices: the status of a device, or "ABSENT"
  offline,   \* offlineSince, as an age, or NotTimed
  age,       \* time since lastSuccess
  ready,
  seen       \* history: what the last successful scan listed

registryVars == <<attached, devices, offline, age, ready, seen>>

Listed == {"ONLINE", "OFFLINE"}

RegistryInit ==
  /\ attached = [d \in Devices |-> "ABSENT"]
  /\ devices = [d \in Devices |-> "ABSENT"]
  /\ offline = [d \in Devices |-> NotTimed]
  /\ age = 0
  /\ ready = FALSE
  /\ seen = [d \in Devices |-> "ABSENT"]

\* The age at which a device that is not listed has been so, in this scan.
OfflineAge(d) == IF offline[d] = NotTimed THEN 0 ELSE offline[d]

\* Mutant: a device is forgotten by the snapshot, not by offlineSince, and a
\* listed device keeps its time.
ScanSucceeds_KeepsTime ==
  /\ devices' = [d \in Devices |->
       IF attached[d] # "ABSENT" THEN attached[d]
       ELSE IF devices[d] = "ABSENT" \/ OfflineAge(d) > Retain THEN "ABSENT" ELSE "OFFLINE"]
  /\ offline' = [d \in Devices |->
       IF devices'[d] = "ABSENT" THEN NotTimed
       ELSE IF attached[d] # "ABSENT" THEN offline[d] ELSE OfflineAge(d)]
  /\ age' = 0 /\ ready' = TRUE /\ seen' = attached
  /\ UNCHANGED attached

\* refresh: the listed devices, and those of the old snapshot that are not listed
\* as offline until they have been so for longer than retainOffline.
ScanSucceeds ==
  /\ devices' = [d \in Devices |->
       IF attached[d] # "ABSENT" THEN attached[d]
       ELSE IF devices[d] = "ABSENT" \/ OfflineAge(d) > Retain THEN "ABSENT" ELSE "OFFLINE"]
  /\ offline' = [d \in Devices |->
       IF attached[d] # "ABSENT" \/ devices'[d] = "ABSENT" THEN NotTimed ELSE OfflineAge(d)]
  /\ age' = 0 /\ ready' = TRUE /\ seen' = attached
  /\ UNCHANGED attached

\* Mutant: marking a device as stale starts its retention again.
ScanFails_RestartsRetention ==
  /\ LET stale == ready /\ age >= StaleAfter IN
     /\ devices' = IF stale THEN [d \in Devices |-> IF devices[d] = "ABSENT" THEN "ABSENT" ELSE "UNKNOWN"]
                   ELSE devices
     /\ offline' = IF stale THEN [d \in Devices |-> IF offline[d] = NotTimed THEN NotTimed ELSE 0]
                   ELSE offline
  /\ UNCHANGED <<attached, age, ready, seen>>

\* refresh with an error: markStale.
ScanFails ==
  /\ devices' = [d \in Devices |-> IF ready /\ age >= StaleAfter /\ devices[d] # "ABSENT"
                                   THEN "UNKNOWN" ELSE devices[d]]
  /\ UNCHANGED <<attached, offline, age, ready, seen>>

\* The host HDC sees another status of a device, or no longer sees it.
Attach(d, status) ==
  /\ attached' = [attached EXCEPT ![d] = status]
  /\ UNCHANGED <<devices, offline, age, ready, seen>>

Older(n, cap) == IF n < cap THEN n + 1 ELSE n

Tick ==
  /\ age' = Older(age, StaleAfter)
  /\ offline' = [d \in Devices |-> IF offline[d] = NotTimed THEN NotTimed
                                   ELSE Older(offline[d], Retain + 1)]
  /\ UNCHANGED <<attached, devices, ready, seen>>

RegistryNext ==
  \/ ScanSucceeds \/ ScanFails \/ Tick
  \/ \E d \in Devices, status \in Listed \cup {"ABSENT"} : Attach(d, status)

RegistrySpec == RegistryInit /\ [][RegistryNext]_registryVars

\* The poll ticker keeps firing, and scans do not fail for ever; time passes.
RegistryFairSpec == RegistrySpec /\ WF_registryVars(Tick) /\ SF_registryVars(ScanSucceeds)

-----------------------------------------------------------------------------
\* The state is well-formed.
RegistryTypeOK ==
  /\ attached \in [Devices -> Listed \cup {"ABSENT"}]
  /\ devices \in [Devices -> Listed \cup {"UNKNOWN", "ABSENT"}]
  /\ offline \in [Devices -> 0..(Retain + 1) \cup {NotTimed}]
  /\ age \in 0..StaleAfter
  /\ ready \in BOOLEAN
  /\ seen \in [Devices -> Listed \cup {"ABSENT"}]

\* The retention of a device runs exactly while the last successful scan did not
\* list it and the snapshot still has it: a device that comes back starts anew,
\* and none is evicted for a time it was absent before.
RetentionRuns ==
  \A d \in Devices : offline[d] # NotTimed <=> devices[d] # "ABSENT" /\ seen[d] = "ABSENT"

\* A device that is gone for good leaves the snapshot for good, although scans
\* fail again and again and mark it unknown (registry.go:40-41).
GoneIsEvicted ==
  \A d \in Devices : <>[](attached[d] = "ABSENT") => <>[](devices[d] = "ABSENT")
=============================================================================
