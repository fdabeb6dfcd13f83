------------------------------ MODULE PortPool ------------------------------
(***************************************************************************)
(* portPool (internal/remote/ports.go).  Every port of the configured      *)
(* range is in one of three sets; allocate walks the available ports in    *)
(* ascending order and probes each one with a Listen outside the lock.     *)
(* The slice p.available is sorted whenever the lock is free (newPortPool, *)
(* recycleBlockedLocked and release sort it), so it is modelled as a set   *)
(* whose head is its least element.                                        *)
(***************************************************************************)
EXTENDS Integers

CONSTANTS
  Ports,    \* minPort..maxPort
  Callers,  \* goroutines inside allocate
  NoPort

ASSUME PoolAssumption ==
  /\ Ports \subseteq Nat \ {0}
  /\ NoPort \notin Ports

VARIABLES
  available, reserved, blocked,  \* the three sets of portPool
  taken,   \* ports other programs listen on
  walk,    \* where each caller is in allocate
  probing, \* the port a caller has taken and is probing, or NoPort
  held,    \* ports handed out to a caller and not released
  restored,\* ports reserved from the snapshot
  refused  \* history: ports that failed a probe since the caller recycled

sets == <<available, reserved, blocked>>
poolVars == <<sets, taken, walk, probing, held, restored, refused>>

PoolInit ==
  /\ available = Ports /\ reserved = {} /\ blocked = {}
  /\ taken = {}
  /\ walk = [c \in Callers |-> "idle"]
  /\ probing = [c \in Callers |-> NoPort]
  /\ held = [c \in Callers |-> {}]
  /\ restored = {}
  /\ refused = [c \in Callers |-> {}]

\* Mutant: a port under probe is found in no set, and accepted.
Reserve_Unchecked(n) ==
  /\ n \notin restored
  /\ reserved' = reserved \cup {n}
  /\ available' = available \ {n} /\ blocked' = blocked \ {n}
  /\ restored' = restored \cup {n}
  /\ UNCHANGED <<taken, walk, probing, held, refused>>

\* reserve: a port of the snapshot, taken out of available or out of blocked.
Reserve(n) ==
  /\ n \notin reserved
  /\ n \in available \cup blocked
  /\ reserved' = reserved \cup {n}
  /\ available' = available \ {n} /\ blocked' = blocked \ {n}
  /\ restored' = restored \cup {n}
  /\ UNCHANGED <<taken, walk, probing, held, refused>>

Allocate(c) ==
  /\ walk[c] = "idle"
  /\ walk' = [walk EXCEPT ![c] = "first"]
  /\ UNCHANGED <<sets, taken, probing, held, restored, refused>>

\* Mutant: the port joins reserved only after the probe.
Take_Unregistered(c, n) ==
  /\ walk[c] \in {"first", "second"} /\ probing[c] = NoPort
  /\ n \in available /\ \A m \in available : n <= m
  /\ available' = available \ {n}
  /\ probing' = [probing EXCEPT ![c] = n]
  /\ UNCHANGED <<reserved, blocked, taken, walk, held, restored, refused>>

\* allocateOnce, locked: the head of available is registered before its probe.
Take(c, n) ==
  /\ walk[c] \in {"first", "second"} /\ probing[c] = NoPort
  /\ n \in available /\ \A m \in available : n <= m
  /\ available' = available \ {n} /\ reserved' = reserved \cup {n}
  /\ probing' = [probing EXCEPT ![c] = n]
  /\ UNCHANGED <<blocked, taken, walk, held, restored, refused>>

\* Listen succeeds: the port is returned.
ProbeSucceeds(c) ==
  /\ probing[c] \in Ports \ taken
  /\ held' = [held EXCEPT ![c] = @ \cup {probing[c]}]
  /\ probing' = [probing EXCEPT ![c] = NoPort]
  /\ walk' = [walk EXCEPT ![c] = "idle"]
  /\ UNCHANGED <<sets, taken, restored, refused>>

\* Listen fails: the port is set aside and the next one is tried.
ProbeFails(c) ==
  /\ probing[c] \in taken
  /\ reserved' = reserved \ {probing[c]} /\ blocked' = blocked \cup {probing[c]}
  /\ refused' = [d \in Callers |-> refused[d] \cup {probing[c]}]
  /\ probing' = [probing EXCEPT ![c] = NoPort]
  /\ UNCHANGED <<available, taken, walk, held, restored>>

\* The first walk found nothing: allocate goes on to recycle.
FirstWalkFails(c) ==
  /\ walk[c] = "first" /\ probing[c] = NoPort /\ available = {}
  /\ walk' = [walk EXCEPT ![c] = "recycle"]
  /\ UNCHANGED <<sets, taken, probing, held, restored, refused>>

\* Mutant: the blocked ports are not put back.
Recycle_Nothing(c) ==
  /\ walk[c] = "recycle" /\ blocked \cup available # {}
  /\ walk' = [walk EXCEPT ![c] = "second"]
  /\ refused' = [refused EXCEPT ![c] = {}]
  /\ UNCHANGED <<sets, taken, probing, held, restored>>

\* recycleBlockedLocked, and a second walk when there is anything to walk.
Recycle(c) ==
  /\ walk[c] = "recycle" /\ blocked \cup available # {}
  /\ available' = available \cup blocked /\ blocked' = {}
  /\ walk' = [walk EXCEPT ![c] = "second"]
  /\ refused' = [refused EXCEPT ![c] = {}]
  /\ UNCHANGED <<reserved, taken, probing, held, restored>>

\* allocate reports that the pool is exhausted.
Exhausted(c) ==
  /\ \/ walk[c] = "recycle" /\ blocked \cup available = {}
     \/ walk[c] = "second" /\ probing[c] = NoPort /\ available = {}
  /\ walk' = [walk EXCEPT ![c] = "idle"]
  /\ UNCHANGED <<sets, taken, probing, held, restored, refused>>

\* release: createBinding could not save the binding.
Release(c, n) ==
  /\ n \in held[c] /\ n \in reserved
  /\ reserved' = reserved \ {n} /\ available' = available \cup {n}
  /\ held' = [held EXCEPT ![c] = @ \ {n}]
  /\ UNCHANGED <<blocked, taken, walk, probing, restored, refused>>

\* Another program starts or stops listening on a port.
OthersChange(n) ==
  /\ taken' = IF n \in taken THEN taken \ {n} ELSE taken \cup {n}
  /\ UNCHANGED <<sets, walk, probing, held, restored, refused>>

PoolNext ==
  \/ \E c \in Callers :
       \/ Allocate(c) \/ ProbeSucceeds(c) \/ ProbeFails(c)
       \/ FirstWalkFails(c) \/ Recycle(c) \/ Exhausted(c)
       \/ \E n \in Ports : Take(c, n) \/ Release(c, n)
  \/ \E n \in Ports : Reserve(n) \/ OthersChange(n)

PoolSpec == PoolInit /\ [][PoolNext]_poolVars

-----------------------------------------------------------------------------
\* The state is well-formed.
PoolTypeOK ==
  /\ available \in SUBSET Ports /\ reserved \in SUBSET Ports /\ blocked \in SUBSET Ports
  /\ taken \in SUBSET Ports
  /\ walk \in [Callers -> {"idle", "first", "recycle", "second"}]
  /\ probing \in [Callers -> Ports \cup {NoPort}]
  /\ held \in [Callers -> SUBSET Ports]
  /\ restored \in SUBSET Ports
  /\ refused \in [Callers -> SUBSET Ports]

\* "It belongs to some set at any time" (ports.go:82-83): every port is in exactly
\* one of available, reserved and blocked, so the pool never loses one.
Partition ==
  /\ available \cup reserved \cup blocked = Ports
  /\ available \cap reserved = {} /\ available \cap blocked = {} /\ reserved \cap blocked = {}

\* A port is with one owner only: a caller that holds it, a caller that probes it,
\* or the snapshot; and what has an owner stays reserved.
Exclusive ==
  /\ \A c, d \in Callers :
       /\ c # d => held[c] \cap held[d] = {}
       /\ probing[c] \notin held[d]
       /\ c # d /\ probing[c] # NoPort => probing[c] # probing[d]
  /\ \A c \in Callers : /\ held[c] \cap restored = {} /\ probing[c] \notin restored
                        /\ held[c] \subseteq reserved
                        /\ probing[c] \in reserved \cup {NoPort}
  /\ restored \subseteq reserved

\* "Only when it still gets nothing is the pool exhausted" (ports.go:69-70): when
\* allocate gives up, every port is reserved or has failed a probe since the
\* blocked ports were put back.
ExhaustionIsReal ==
  [][\A c \in Callers : Exhausted(c) => Ports \subseteq reserved \cup refused[c]]_poolVars
=============================================================================
