---------------------------- MODULE RemoteAccess ----------------------------
(***************************************************************************)
(* The remote-access orchestrator (internal/remote/manager.go) driving the *)
(* listeners and connections of the gateway (internal/gateway/gateway.go). *)
(*                                                                         *)
(* A device owns a persistent binding (its stable proxy port) and, while   *)
(* it is exposed, an in-memory lease.  A lease is projected into a grant,  *)
(* the admission snapshot held by the device's listener.  The run loop     *)
(* (process Run) reconciles leases with the device registry and renews     *)
(* them once per tick; Callers are further goroutines inside Acquire, each *)
(* with an owner of its own.  Every region the code executes under m.mu,   *)
(* g.mu or s.mu is one action; everything that runs unlocked is a step of  *)
(* its own, so a process can be overtaken wherever the code can be.        *)
(*                                                                         *)
(* Expiry times are modelled as the time left until them: Tick decrements  *)
(* every copy, so the state space is finite without bounding the clock.    *)
(* Identifiers are drawn from LeaseIDs and reused once nothing mentions    *)
(* them, which newID's random 16 bytes never do: they are only compared.   *)
(***************************************************************************)
EXTENDS Naturals, FiniteSets

CONSTANTS
  Devices,         \* USB devices, identified by Device.ID
  Ports,           \* proxy ports [ProxyPortMin, ProxyPortMax]
  LeaseIDs,        \* pool of lease identifiers
  Conns,           \* slots for concurrent TCP connections
  Run,             \* the run loop, which acquires as owner "auto"
  Callers,         \* other goroutines that call Acquire
  MaxTTL,          \* cfg.LeaseMaxTTL
  MaxConnections,  \* cfg.MaxConnections
  CrashAllowed,    \* may the process be killed at any point?
  None

Procs == {Run} \cup Callers

ASSUME RemoteAssumption ==
  /\ MaxTTL \in Nat \ {0}
  /\ MaxConnections \in Nat \ {0}
  /\ CrashAllowed \in BOOLEAN
  /\ Run \notin Callers
  /\ None \notin Devices \cup Ports \cup LeaseIDs \cup Procs

\* A process has finitely many connections.
ASSUME ConnsAssumption == IsFiniteSet(Conns)

VARIABLES
  online,     \* devices the registry reports as online USB targets
  port,       \* bindingsByDevice: the port of a device's binding, or None
  status,     \* Binding.Status
  disk,       \* the saved snapshot: device -> port, or None
  reserved,   \* portPool.reserved
  leases,     \* leasesByID
  leaseOf,    \* leasesByDevice, as the ID of the lease it holds
  inflight,   \* inflightByDevice
  listeners,  \* gateway listeners: the grant a device's listener holds
  gwClosed,   \* Gateway.closed
  conns,      \* connection handlers, one per slot
  sessions,   \* Gateway.sessions: connections that can be kicked
  proc,       \* where each goroutine is, and its local variables
  todo,       \* leases the current reconcile has still to visit
  expired,    \* those of them that its snapshot found expired
  expose,     \* devices the current AutoExpose has still to visit
  closer,     \* progress of Manager.Close
  toUnbind,   \* bindings Close has collected and not yet unbound
  announced   \* history: the port under which a device was first exposed

binds   == <<port, status, reserved>>
mgr     == <<leases, leaseOf, inflight>>
gate    == <<listeners, gwClosed, conns, sessions>>
loop    == <<todo, expired, expose>>
closing == <<closer, toUnbind>>
vars    == <<online, binds, disk, mgr, gate, proc, loop, closing, announced>>

-----------------------------------------------------------------------------
(* Records and their empty values *)

TTLs == 0..MaxTTL

LeaseRec == [dev: Devices \cup {None}, owner: Procs \cup {None},
             status: {"NONE", "ACTIVE", "RELEASING"}, ttl: TTLs, active: Nat]
NoLease == [dev |-> None, owner |-> None, status |-> "NONE", ttl |-> 0, active |-> 0]

Grant == [lease: LeaseIDs \cup {None}, ttl: TTLs]
NoListener == [lease |-> None, ttl |-> 0]

ConnRec == [st: {"free", "open", "ended"}, lease: LeaseIDs \cup {None},
            dev: Devices \cup {None}, opened: BOOLEAN, sock: BOOLEAN, orphan: BOOLEAN]
NoConn == [st |-> "free", lease |-> None, dev |-> None, opened |-> FALSE,
           sock |-> FALSE, orphan |-> FALSE]

PCs == {"idle", "stopped",                                     \* Run, between ticks
        "reconcile", "saveStatus", "expose",                   \* Run, one tick
        "unbind", "drop", "saveRelease", "released",           \* releaseLease
        "resolve", "lock", "update", "create", "saveBinding",  \* Acquire
        "bind", "register", "commit", "acquired"}

ProcRec == [pc: PCs, dev: Devices \cup {None}, grant: Grant]
At(pc) == [pc |-> pc, dev |-> None, grant |-> NoListener]

Bound(d) == listeners[d].lease # None
ActiveLease(d) == leaseOf[d] # None /\ leases[leaseOf[d]].status = "ACTIVE"
Free(l) == /\ leases[l] = NoLease
           /\ l \notin todo
           /\ \A p \in Procs : proc[p].grant.lease # l
           /\ \A d \in Devices : listeners[d].lease # l
           /\ \A c \in Conns : conns[c].lease # l

\* leasesByID and leasesByDevice are always written together.
PutLease(l, lease) ==
  /\ leases' = [leases EXCEPT ![l] = lease]
  /\ leaseOf' = [leaseOf EXCEPT ![lease.dev] = l]

Goto(p, pc) == proc' = [proc EXCEPT ![p].pc = pc]

\* Acquire returns: the run loop goes on with its device list, a caller is done.
AcquireReturn(p) == proc' = [proc EXCEPT ![p] = At(IF p = Run THEN "expose" ELSE "idle")]

-----------------------------------------------------------------------------
(* Acquire *)

\* registry.ResolveOnlineUSB; the answer may be stale by the time it is used.
AcquireResolve(p, d) ==
  /\ \/ p = Run /\ proc[p].pc = "expose" /\ d \in expose /\ expose' = expose \ {d}
     \/ p \in Callers /\ proc[p].pc = "idle" /\ UNCHANGED expose
  /\ IF d \in online
     THEN proc' = [proc EXCEPT ![p] = [pc |-> "lock", dev |-> d, grant |-> NoListener]]
     ELSE AcquireReturn(p)
  /\ UNCHANGED <<online, binds, disk, mgr, gate, todo, expired, closing, announced>>

\* Another operation on the device is in flight, or another owner holds it.
AcquireConflict(p) ==
  LET d == proc[p].dev IN
  /\ proc[p].pc = "lock"
  /\ d \in inflight \/ (ActiveLease(d) /\ leases[leaseOf[d]].owner # p)
  /\ AcquireReturn(p)
  /\ UNCHANGED <<online, binds, disk, mgr, gate, loop, closing, announced>>

\* The same owner holds the lease: extend it, then push the grant unlocked.
AcquireRenew(p) ==
  LET d == proc[p].dev  l == leaseOf[d] IN
  /\ proc[p].pc = "lock" /\ d \notin inflight
  /\ ActiveLease(d) /\ leases[l].owner = p
  /\ PutLease(l, [leases[l] EXCEPT !.ttl = MaxTTL])
  /\ proc' = [proc EXCEPT ![p].pc = "update", ![p].grant = [lease |-> l, ttl |-> MaxTTL]]
  /\ UNCHANGED <<online, binds, disk, inflight, gate, loop, closing, announced>>

\* Mutant: the renewal stays in the manager.
UpdateGrant_NotPushed(p) ==
  /\ proc[p].pc = "update"
  /\ AcquireReturn(p)
  /\ UNCHANGED <<online, binds, disk, mgr, gate, loop, closing, announced>>

\* gateway.UpdateGrant: a no-op when the binding has no listener.
UpdateGrant(p) ==
  LET d == proc[p].dev IN
  /\ proc[p].pc = "update"
  /\ listeners' = IF Bound(d) THEN [listeners EXCEPT ![d] = proc[p].grant] ELSE listeners
  /\ AcquireReturn(p)
  /\ UNCHANGED <<online, binds, disk, mgr, gwClosed, conns, sessions, loop, closing, announced>>

\* Mutant: no check for an operation in flight.
AcquireClaim_NoBusyCheck(p) ==
  LET d == proc[p].dev IN
  /\ proc[p].pc = "lock" /\ ~ActiveLease(d)
  /\ inflight' = inflight \cup {d}
  /\ Goto(p, IF port[d] = None THEN "create" ELSE "bind")
  /\ UNCHANGED <<online, binds, disk, leases, leaseOf, gate, loop, closing, announced>>

\* No active lease: claim the device and go on without the lock.
AcquireClaim(p) ==
  LET d == proc[p].dev IN
  /\ proc[p].pc = "lock" /\ d \notin inflight /\ ~ActiveLease(d)
  /\ inflight' = inflight \cup {d}
  /\ Goto(p, IF port[d] = None THEN "create" ELSE "bind")
  /\ UNCHANGED <<online, binds, disk, leases, leaseOf, gate, loop, closing, announced>>

\* createBinding, first half: take a port from the pool and publish the binding.
CreateBinding(p) ==
  LET d == proc[p].dev IN
  /\ proc[p].pc = "create"
  /\ \E n \in Ports \ reserved :
       /\ reserved' = reserved \cup {n}
       /\ port' = [port EXCEPT ![d] = n]
  /\ status' = [status EXCEPT ![d] = "RESERVED"]
  /\ Goto(p, "saveBinding")
  /\ UNCHANGED <<online, disk, mgr, gate, loop, closing, announced>>

\* The pool is exhausted, or every port is taken by another program.
AllocateFails(p) ==
  /\ proc[p].pc = "create"
  /\ Goto(p, "acquired")
  /\ UNCHANGED <<online, binds, disk, mgr, gate, loop, closing, announced>>

\* Mutant: the listener opens before the binding is saved.
SaveBinding_Deferred(p) ==
  /\ proc[p].pc = "saveBinding"
  /\ Goto(p, "bind")
  /\ UNCHANGED <<online, binds, disk, mgr, gate, loop, closing, announced>>

\* createBinding, second half: saveBindings succeeds.
SaveBinding(p) ==
  /\ proc[p].pc = "saveBinding"
  /\ disk' = port
  /\ Goto(p, "bind")
  /\ UNCHANGED <<online, binds, mgr, gate, loop, closing, announced>>

\* Mutant: the port goes back to the pool but the binding stays.
SaveBindingFails_KeepsBinding(p) ==
  /\ proc[p].pc = "saveBinding"
  /\ reserved' = reserved \ {port[proc[p].dev]}
  /\ Goto(p, "acquired")
  /\ UNCHANGED <<online, port, status, disk, mgr, gate, loop, closing, announced>>

\* saveBindings fails: withdraw the binding and give the port back.
SaveBindingFails(p) ==
  LET d == proc[p].dev IN
  /\ proc[p].pc = "saveBinding"
  /\ port' = [port EXCEPT ![d] = None]
  /\ status' = [status EXCEPT ![d] = "NONE"]
  /\ reserved' = reserved \ {port[d]}
  /\ Goto(p, "acquired")
  /\ UNCHANGED <<online, disk, mgr, gate, loop, closing, announced>>

\* Build the lease; gateway.Bind checks its state and opens the socket.
Bind(p) ==
  LET d == proc[p].dev IN
  /\ proc[p].pc = "bind"
  /\ ~gwClosed
  /\ \E l \in LeaseIDs :
       /\ Free(l)
       /\ proc' = [proc EXCEPT ![p].pc = IF Bound(d) THEN "commit" ELSE "register",
                               ![p].grant = [lease |-> l, ttl |-> MaxTTL]]
  /\ UNCHANGED <<online, binds, disk, mgr, gate, loop, closing, announced>>

\* The gateway is closed, or another program holds the port.
BindFails(p) ==
  /\ proc[p].pc = "bind"
  /\ Goto(p, "acquired")
  /\ UNCHANGED <<online, binds, disk, mgr, gate, loop, closing, announced>>

\* Mutant: closed is not checked again after the socket is open.
RegisterListener_NoRecheck(p) ==
  LET d == proc[p].dev IN
  /\ proc[p].pc = "register"
  /\ listeners' = IF Bound(d) THEN listeners ELSE [listeners EXCEPT ![d] = proc[p].grant]
  /\ Goto(p, "commit")
  /\ UNCHANGED <<online, binds, disk, mgr, gwClosed, conns, sessions, loop, closing, announced>>

\* gateway.Bind locks again and registers the listener, unless the gateway was
\* closed (an error) or the binding got a listener (success) in the meantime.
RegisterListener(p) ==
  LET d == proc[p].dev IN
  /\ proc[p].pc = "register"
  /\ listeners' = IF gwClosed \/ Bound(d) THEN listeners
                  ELSE [listeners EXCEPT ![d] = proc[p].grant]
  /\ Goto(p, IF gwClosed THEN "acquired" ELSE "commit")
  /\ UNCHANGED <<online, binds, disk, mgr, gwClosed, conns, sessions, loop, closing, announced>>

\* Lock again and publish lease and binding as ACTIVE and LISTENING.
AcquireCommit(p) ==
  LET d == proc[p].dev  l == proc[p].grant.lease IN
  /\ proc[p].pc = "commit"
  /\ status' = [status EXCEPT ![d] = "LISTENING"]
  /\ PutLease(l, [dev |-> d, owner |-> p, status |-> "ACTIVE",
                  ttl |-> proc[p].grant.ttl, active |-> 0])
  /\ announced' = IF announced[d] = None THEN [announced EXCEPT ![d] = port[d]] ELSE announced
  /\ Goto(p, "acquired")
  /\ UNCHANGED <<online, port, reserved, disk, inflight, gate, loop, closing>>

\* Mutant: only a successful Acquire clears its claim.
AcquireEnd_LeaksClaim(p) ==
  /\ proc[p].pc = "acquired"
  /\ inflight' = IF ActiveLease(proc[p].dev) THEN inflight \ {proc[p].dev} ELSE inflight
  /\ AcquireReturn(p)
  /\ UNCHANGED <<online, binds, disk, leases, leaseOf, gate, loop, closing, announced>>

\* The deferred clearInflight, on success and on every error after the claim.
AcquireEnd(p) ==
  /\ proc[p].pc = "acquired"
  /\ inflight' = inflight \ {proc[p].dev}
  /\ AcquireReturn(p)
  /\ UNCHANGED <<online, binds, disk, leases, leaseOf, gate, loop, closing, announced>>

Acquire(p) ==
  \/ \E d \in Devices : AcquireResolve(p, d)
  \/ AcquireConflict(p) \/ AcquireRenew(p) \/ UpdateGrant(p) \/ AcquireClaim(p)
  \/ CreateBinding(p) \/ AllocateFails(p) \/ SaveBinding(p) \/ SaveBindingFails(p)
  \/ Bind(p) \/ BindFails(p) \/ RegisterListener(p) \/ AcquireCommit(p) \/ AcquireEnd(p)

-----------------------------------------------------------------------------
(* The run loop: reconcile, then AutoExpose *)

\* A tick fires: copy the leases.  Expiry is judged on this copy and on the
\* time at which the tick began, however late the lease is visited.
TickBegin ==
  /\ proc[Run].pc = "idle" /\ closer = "none"
  /\ todo' = {l \in LeaseIDs : leases[l] # NoLease}
  /\ expired' = {l \in LeaseIDs : leases[l] # NoLease /\ leases[l].ttl = 0}
  /\ Goto(Run, "reconcile")
  /\ UNCHANGED <<online, binds, disk, mgr, gate, expose, closing, announced>>

\* Mutant: the loop waits for Close to finish.
RunStops_AfterClose ==
  /\ proc[Run].pc = "idle" /\ closer = "done"
  /\ Goto(Run, "stopped")
  /\ UNCHANGED <<online, binds, disk, mgr, gate, loop, closing, announced>>

\* The context is cancelled or Close has begun: the loop ends.
RunStops ==
  /\ proc[Run].pc = "idle" /\ closer # "none"
  /\ Goto(Run, "stopped")
  /\ UNCHANGED <<online, binds, disk, mgr, gate, loop, closing, announced>>

\* Mutant: releaseLease does not look at inflightByDevice.
ReleaseBegin_NoBusyCheck(l) ==
  LET d == leases[l].dev IN
  /\ proc[Run].pc = "reconcile" /\ l \in todo
  /\ l \in expired \/ d \notin online
  /\ todo' = todo \ {l} /\ expired' = expired \ {l}
  /\ IF leases[l] = NoLease
     THEN UNCHANGED <<mgr, proc>>
     ELSE /\ inflight' = inflight \cup {d}
          /\ PutLease(l, [leases[l] EXCEPT !.status = "RELEASING"])
          /\ proc' = [proc EXCEPT ![Run] = [pc |-> "unbind", dev |-> d,
                                            grant |-> [lease |-> l, ttl |-> 0]]]
  /\ UNCHANGED <<online, binds, disk, gate, expose, closing, announced>>

\* Mutant: only expiry is looked at, not the device.
ReleaseBegin_ExpiredOnly(l) ==
  LET d == leases[l].dev IN
  /\ proc[Run].pc = "reconcile" /\ l \in todo
  /\ todo' = todo \ {l} /\ expired' = expired \ {l}
  /\ IF l \notin expired \/ d \in inflight
     THEN UNCHANGED <<mgr, proc>>
     ELSE /\ inflight' = inflight \cup {d}
          /\ PutLease(l, [leases[l] EXCEPT !.status = "RELEASING"])
          /\ proc' = [proc EXCEPT ![Run] = [pc |-> "unbind", dev |-> d,
                                            grant |-> [lease |-> l, ttl |-> 0]]]
  /\ UNCHANGED <<online, binds, disk, gate, expose, closing, announced>>

\* A copied lease is stale or its device is gone: releaseLease takes it, unless
\* it has vanished meanwhile or its device is busy (left to the next tick).
ReleaseBegin(l) ==
  LET d == leases[l].dev IN
  /\ proc[Run].pc = "reconcile" /\ l \in todo
  /\ l \in expired \/ d \notin online
  /\ todo' = todo \ {l} /\ expired' = expired \ {l}
  /\ IF leases[l] = NoLease \/ d \in inflight
     THEN UNCHANGED <<mgr, proc>>
     ELSE /\ inflight' = inflight \cup {d}
          /\ PutLease(l, [leases[l] EXCEPT !.status = "RELEASING"])
          /\ proc' = [proc EXCEPT ![Run] = [pc |-> "unbind", dev |-> d,
                                            grant |-> [lease |-> l, ttl |-> 0]]]
  /\ UNCHANGED <<online, binds, disk, gate, expose, closing, announced>>

\* The lease is neither expired nor is its device gone.
ReconcileKeeps(l) ==
  /\ proc[Run].pc = "reconcile" /\ l \in todo
  /\ l \notin expired /\ leases[l].dev \in online
  /\ todo' = todo \ {l}
  /\ UNCHANGED <<online, binds, disk, mgr, gate, proc, expired, expose, closing, announced>>

\* listenerState.close: every socket the listener admitted is closed.  Handlers
\* that still run hold a slot of this listener, not of a later one.
CloseSockets(S) ==
  conns' = [c \in Conns |-> IF conns[c].dev \in S
                            THEN [conns[c] EXCEPT !.sock = FALSE, !.orphan = TRUE] ELSE conns[c]]

\* Mutant: the lease is released, the listener is left.
Unbind_Skipped ==
  /\ proc[Run].pc = "unbind"
  /\ Goto(Run, "drop")
  /\ UNCHANGED <<online, binds, disk, mgr, gate, loop, closing, announced>>

\* gateway.Unbind, which never fails.
Unbind ==
  LET d == proc[Run].dev IN
  /\ proc[Run].pc = "unbind"
  /\ listeners' = [listeners EXCEPT ![d] = NoListener]
  /\ CloseSockets({d})
  /\ Goto(Run, "drop")
  /\ UNCHANGED <<online, binds, disk, mgr, gwClosed, sessions, loop, closing, announced>>

\* Lock again: drop the lease and settle the binding by what Find returned.
ReleaseDrop ==
  LET d == proc[Run].dev  l == proc[Run].grant.lease IN
  /\ proc[Run].pc = "drop"
  /\ leases' = [leases EXCEPT ![l] = NoLease]
  /\ leaseOf' = IF leaseOf[d] = l THEN [leaseOf EXCEPT ![d] = None] ELSE leaseOf
  /\ status' = [status EXCEPT ![d] = IF d \in online THEN "RESERVED" ELSE "FROZEN"]
  /\ Goto(Run, "saveRelease")
  /\ UNCHANGED <<online, port, reserved, disk, inflight, gate, loop, closing, announced>>

\* saveBindings, then the deferred clearInflight; a failed save is only reported.
ReleaseSave ==
  /\ proc[Run].pc = "saveRelease"
  /\ disk' \in {disk, port}
  /\ Goto(Run, "released")
  /\ UNCHANGED <<online, binds, mgr, gate, loop, closing, announced>>

ReleaseEnd ==
  /\ proc[Run].pc = "released"
  /\ inflight' = inflight \ {proc[Run].dev}
  /\ proc' = [proc EXCEPT ![Run] = At("reconcile")]
  /\ UNCHANGED <<online, binds, disk, leases, leaseOf, gate, loop, closing, announced>>

\* Mutant: leased bindings are not skipped.
SettledStatus_Leased(d) ==
  IF port[d] = None THEN status[d] ELSE IF d \in online THEN "RESERVED" ELSE "FROZEN"

\* The status reconcileBindings gives the binding of device d.
SettledStatus(d) ==
  IF port[d] = None \/ leaseOf[d] # None THEN status[d]
  ELSE IF d \in online THEN "RESERVED" ELSE "FROZEN"

\* All leases visited: reconcileBindings.
ReconcileBindings ==
  /\ proc[Run].pc = "reconcile" /\ todo = {}
  /\ status' = [d \in Devices |-> SettledStatus(d)]
  /\ Goto(Run, IF status' = status THEN "expose" ELSE "saveStatus")
  /\ expose' = IF status' = status THEN online ELSE {}
  /\ UNCHANGED <<online, port, reserved, disk, mgr, gate, todo, expired, closing, announced>>

SaveStatus ==
  /\ proc[Run].pc = "saveStatus"
  /\ disk' \in {disk, port}
  /\ Goto(Run, "expose")
  /\ expose' = online
  /\ UNCHANGED <<online, binds, mgr, gate, todo, expired, closing, announced>>

\* AutoExpose has visited the devices of its list.
TickEnd ==
  /\ proc[Run].pc = "expose" /\ expose = {}
  /\ Goto(Run, "idle")
  /\ UNCHANGED <<online, binds, disk, mgr, gate, loop, closing, announced>>

Reconcile ==
  \/ TickBegin \/ RunStops
  \/ \E l \in LeaseIDs : ReleaseBegin(l) \/ ReconcileKeeps(l)
  \/ Unbind \/ ReleaseDrop \/ ReleaseSave \/ ReleaseEnd
  \/ ReconcileBindings \/ SaveStatus \/ TickEnd

-----------------------------------------------------------------------------
(* Manager.Close, which main calls after cancelling the run loop's context *)

CloseBegin ==
  /\ closer = "none"
  /\ closer' = "wait"
  /\ UNCHANGED <<online, binds, disk, mgr, gate, proc, loop, toUnbind, announced>>

CloseCollect ==
  /\ closer = "wait" /\ proc[Run].pc = "stopped"
  /\ closer' = "unbind"
  /\ toUnbind' = {d \in Devices : leaseOf[d] # None}
  /\ UNCHANGED <<online, binds, disk, mgr, gate, proc, loop, announced>>

CloseUnbind(d) ==
  /\ closer = "unbind" /\ d \in toUnbind
  /\ toUnbind' = toUnbind \ {d}
  /\ listeners' = [listeners EXCEPT ![d] = NoListener]
  /\ CloseSockets({d})
  /\ UNCHANGED <<online, binds, disk, mgr, gwClosed, sessions, proc, loop, closer, announced>>

\* gateway.Close: refuse further binds, close every listener and its sockets.
\* The wait for the handlers is bounded by ShutdownTimeout and cannot block.
CloseGateway ==
  /\ closer = "unbind" /\ toUnbind = {}
  /\ gwClosed' = TRUE
  /\ listeners' = [d \in Devices |-> NoListener]
  /\ CloseSockets(Devices)
  /\ closer' = "save"
  /\ UNCHANGED <<online, binds, disk, mgr, sessions, proc, loop, toUnbind, announced>>

CloseSave ==
  /\ closer = "save"
  /\ disk' \in {disk, port}
  /\ closer' = "done"
  /\ UNCHANGED <<online, binds, mgr, gate, proc, loop, toUnbind, announced>>

Close ==
  CloseBegin \/ CloseCollect \/ (\E d \in Devices : CloseUnbind(d)) \/ CloseGateway \/ CloseSave

-----------------------------------------------------------------------------
(* Connections: acceptLoop, handleConnection and the observer callbacks *)

\* admit: the grant is unexpired and this listener is below its limit.
Admitted(d) == {c \in Conns : conns[c].dev = d /\ ~conns[c].orphan}

Accept(c, d) ==
  /\ conns[c].st = "free" /\ Bound(d)
  /\ listeners[d].ttl > 0
  /\ Cardinality(Admitted(d)) < MaxConnections
  /\ conns' = [conns EXCEPT ![c] = [st |-> "open", lease |-> listeners[d].lease, dev |-> d,
                                    opened |-> FALSE, sock |-> TRUE, orphan |-> FALSE]]
  /\ UNCHANGED <<online, binds, disk, mgr, listeners, gwClosed, sessions, proc, loop, closing, announced>>

\* ConnectionOpened: counted only on an active lease.
ConnectionOpened(l) ==
  IF leases[l].status = "ACTIVE"
  THEN PutLease(l, [leases[l] EXCEPT !.active = @ + 1])
  ELSE UNCHANGED <<leases, leaseOf>>

\* onAuthed: the signature was verified.  The socket may be closed already.
Authed(c) ==
  /\ conns[c].st = "open" /\ ~conns[c].opened
  /\ conns' = [conns EXCEPT ![c].opened = TRUE]
  /\ sessions' = sessions \cup {c}
  /\ ConnectionOpened(conns[c].lease)
  /\ UNCHANGED <<online, binds, disk, inflight, listeners, gwClosed, proc, loop, closing, announced>>

\* Kick: forget the session and close its socket.
Kick(c) ==
  /\ c \in sessions
  /\ sessions' = sessions \ {c}
  /\ conns' = [conns EXCEPT ![c].sock = FALSE]
  /\ UNCHANGED <<online, binds, disk, mgr, listeners, gwClosed, proc, loop, closing, announced>>

\* The peer hangs up, a read deadline passes or the protocol is violated.
PeerGone(c) ==
  /\ conns[c].st = "open" /\ conns[c].sock
  /\ conns' = [conns EXCEPT ![c].sock = FALSE]
  /\ UNCHANGED <<online, binds, disk, mgr, listeners, gwClosed, sessions, proc, loop, closing, announced>>

\* Mutant: the guard of ConnectionOpened, copied.
ConnectionClosed_ActiveOnly(l) ==
  IF leases[l].status = "ACTIVE" /\ leases[l].active > 0
  THEN PutLease(l, [leases[l] EXCEPT !.active = @ - 1])
  ELSE UNCHANGED <<leases, leaseOf>>

\* ConnectionClosed: not below zero, whatever the status of the lease.
ConnectionClosed(l) ==
  IF leases[l].active > 0
  THEN PutLease(l, [leases[l] EXCEPT !.active = @ - 1])
  ELSE UNCHANGED <<leases, leaseOf>>

\* run returns: drop the session and report the end of an opened connection.
ConnEnd(c) ==
  /\ conns[c].st = "open" /\ ~conns[c].sock
  /\ conns' = [conns EXCEPT ![c].st = "ended"]
  /\ sessions' = sessions \ {c}
  /\ IF conns[c].opened THEN ConnectionClosed(conns[c].lease) ELSE UNCHANGED <<leases, leaseOf>>
  /\ UNCHANGED <<online, binds, disk, inflight, listeners, gwClosed, proc, loop, closing, announced>>

\* removeConnection: the handler gives its slot back.
ConnRemove(c) ==
  /\ conns[c].st = "ended"
  /\ conns' = [conns EXCEPT ![c] = NoConn]
  /\ UNCHANGED <<online, binds, disk, mgr, listeners, gwClosed, sessions, proc, loop, closing, announced>>

Connection(c) ==
  \/ \E d \in Devices : Accept(c, d)
  \/ Authed(c) \/ Kick(c) \/ PeerGone(c) \/ ConnEnd(c) \/ ConnRemove(c)

-----------------------------------------------------------------------------
(* Environment: the device registry, the clock, and the life of the process *)

\* The registry's next scan changes what it reports of a device.
DeviceChanges(d) ==
  /\ online' = IF d \in online THEN online \ {d} ELSE online \cup {d}
  /\ UNCHANGED <<binds, disk, mgr, gate, proc, loop, closing, announced>>

Left(n) == IF n > 0 THEN n - 1 ELSE 0

Tick ==
  /\ leases' = [l \in LeaseIDs |-> [leases[l] EXCEPT !.ttl = Left(@)]]
  /\ listeners' = [d \in Devices |-> [listeners[d] EXCEPT !.ttl = Left(@)]]
  /\ proc' = [p \in Procs |-> [proc[p] EXCEPT !.grant.ttl = Left(@)]]
  /\ UNCHANGED <<online, binds, disk, leaseOf, inflight, gwClosed, conns, sessions, loop, closing, announced>>

\* NewManager restores the bindings of the snapshot, every one RESERVED.
RestoredStatus(saved) == [d \in Devices |-> IF saved[d] = None THEN "NONE" ELSE "RESERVED"]
RestoredPorts(saved) == {saved[d] : d \in Devices} \ {None}

Init ==
  /\ online = {}
  /\ disk = [d \in Devices |-> None]
  /\ port = disk /\ status = RestoredStatus(disk) /\ reserved = RestoredPorts(disk)
  /\ leases = [l \in LeaseIDs |-> NoLease]
  /\ leaseOf = [d \in Devices |-> None]
  /\ inflight = {}
  /\ listeners = [d \in Devices |-> NoListener]
  /\ gwClosed = FALSE
  /\ conns = [c \in Conns |-> NoConn]
  /\ sessions = {}
  /\ proc = [p \in Procs |-> At("idle")]
  /\ todo = {} /\ expired = {} /\ expose = {}
  /\ closer = "none" /\ toUnbind = {}
  /\ announced = [d \in Devices |-> None]

\* The process is killed, or has shut down, and is started again: only the
\* snapshot survives.
Restart ==
  /\ CrashAllowed \/ closer = "done"
  /\ online' = {}
  /\ port' = disk /\ status' = RestoredStatus(disk) /\ reserved' = RestoredPorts(disk)
  /\ leases' = [l \in LeaseIDs |-> NoLease]
  /\ leaseOf' = [d \in Devices |-> None]
  /\ inflight' = {}
  /\ listeners' = [d \in Devices |-> NoListener]
  /\ gwClosed' = FALSE
  /\ conns' = [c \in Conns |-> NoConn]
  /\ sessions' = {}
  /\ proc' = [p \in Procs |-> At("idle")]
  /\ todo' = {} /\ expired' = {} /\ expose' = {}
  /\ closer' = "none" /\ toUnbind' = {}
  /\ UNCHANGED <<disk, announced>>

Next ==
  \/ \E p \in Procs : Acquire(p)
  \/ Reconcile
  \/ Close
  \/ \E c \in Conns : Connection(c)
  \/ \E d \in Devices : DeviceChanges(d)
  \/ Tick
  \/ Restart

Spec == Init /\ [][Next]_vars

(***************************************************************************)
(* The Go scheduler runs every runnable goroutine, and the run loop's      *)
(* ticker keeps firing.  Strong fairness of the three steps that may fail  *)
(* says that the port pool, the disk and the socket do not refuse for      *)
(* ever; nothing is assumed about devices, peers, operators or the clock.  *)
(***************************************************************************)
Fairness ==
  /\ \A p \in Procs : /\ WF_vars(Acquire(p) /\ proc[p].pc # "idle")
                      /\ SF_vars(CreateBinding(p))
                      /\ SF_vars(SaveBinding(p))
                      /\ SF_vars(Bind(p))
  /\ WF_vars(Reconcile)
  /\ WF_vars(Close /\ closer # "none")
  /\ \A c \in Conns : WF_vars(ConnEnd(c)) /\ WF_vars(ConnRemove(c))

FairSpec == Spec /\ Fairness

-----------------------------------------------------------------------------
(* Properties *)

\* The state is well-formed; in particular ConnectionClosed never takes a lease's
\* connection count below zero, in whatever order the connections of a lease end.
TypeOK ==
  /\ online \in SUBSET Devices
  /\ port \in [Devices -> Ports \cup {None}]
  /\ status \in [Devices -> {"NONE", "RESERVED", "LISTENING", "FROZEN"}]
  /\ disk \in [Devices -> Ports \cup {None}]
  /\ reserved \in SUBSET Ports
  /\ leases \in [LeaseIDs -> LeaseRec]
  /\ leaseOf \in [Devices -> LeaseIDs \cup {None}]
  /\ inflight \in SUBSET Devices
  /\ listeners \in [Devices -> Grant]
  /\ gwClosed \in BOOLEAN
  /\ conns \in [Conns -> ConnRec]
  /\ sessions \in SUBSET Conns
  /\ proc \in [Procs -> ProcRec]
  /\ todo \in SUBSET LeaseIDs
  /\ expired \in SUBSET LeaseIDs
  /\ expose \in SUBSET Devices
  /\ closer \in {"none", "wait", "unbind", "save", "done"}
  /\ toUnbind \in SUBSET Devices
  /\ announced \in [Devices -> Ports \cup {None}]

\* A device has at most one lease: leasesByID holds nothing that leasesByDevice
\* does not point at, however Acquire and releaseLease interleave.
OneLeasePerDevice ==
  \A l \in LeaseIDs : leases[l] # NoLease => leaseOf[leases[l].dev] = l

\* buildViewLocked: the status the console shows for device d.
RemoteAccessStatus(d) ==
  IF leaseOf[d] = None THEN "NOT_ENABLED"
  ELSE IF leases[leaseOf[d]].status = "RELEASING" THEN "RELEASING"
  ELSE IF leases[leaseOf[d]].active > 0 THEN "CONNECTED" ELSE "CONNECTABLE"

\* A device shown as connectable or connected has a listener: releaseLease never
\* tears down the listener that a concurrent Acquire has just bound (the hazard
\* described at manager.go:434-438), and Acquire never publishes a lease before
\* its listener.  Close unbinds with the leases still in place.
ConnectableIsListening ==
  \A d \in Devices :
    closer \in {"none", "wait"} /\ RemoteAccessStatus(d) \in {"CONNECTED", "CONNECTABLE"}
      => Bound(d)

\* A listener outside an operation in flight belongs to an active lease, so no
\* port stays open that no lease accounts for and no tick would ever close.
NoOrphanListener ==
  \A d \in Devices : Bound(d) /\ d \notin inflight => ActiveLease(d)

\* With the run loop as the only caller of Acquire, a listener admits by the
\* very expiry its lease has, except while a renewal is being pushed to it.
GrantFollowsLease ==
  \A d \in Devices :
    /\ closer \in {"none", "wait"} /\ ActiveLease(d)
    /\ \A p \in Procs : ~(proc[p].pc = "update" /\ proc[p].dev = d)
    => listeners[d] = [lease |-> leaseOf[d], ttl |-> leases[leaseOf[d]].ttl]

\* A binding is LISTENING exactly while its device has a lease, whatever
\* reconcileBindings does while the lock is released in Acquire or releaseLease.
ListeningIffLeased ==
  \A d \in Devices : status[d] = "LISTENING" <=> leaseOf[d] # None

\* No two bindings share a port, in memory or in the snapshot: NewManager can
\* always reserve every port of the snapshot it loads.
PortsDistinct ==
  /\ \A d, e \in Devices : d # e /\ port[d] # None => port[d] # port[e]
  /\ \A d, e \in Devices : d # e /\ disk[d] # None => disk[d] # disk[e]
  /\ \A d \in Devices : port[d] # None => port[d] \in reserved

\* A device is only ever exposed under the port it was first exposed under, also
\* after a crash at any point: the binding is on disk before the listener opens.
StablePort ==
  \A d \in Devices :
    announced[d] # None => port[d] = announced[d] /\ disk[d] = announced[d]

\* The connection count of a lease never exceeds its opened connections: a device
\* is not shown as connected when nobody is connected.
NeverOvercounts ==
  \A l \in LeaseIDs :
    leases[l].active <= Cardinality({c \in Conns : /\ conns[c].lease = l
                                                   /\ conns[c].st = "open"
                                                   /\ conns[c].opened})

\* Once the gateway is closed no listener and no socket exists any more, although
\* an Acquire may have passed Bind's first check before.
NothingOpenAfterClose ==
  closer \in {"save", "done"} =>
    /\ \A d \in Devices : ~Bound(d)
    /\ \A c \in Conns : ~conns[c].sock

\* A device that stays online while the service runs is exposed again and again
\* under an unexpired grant, unless the clock for ever runs through whole TTLs
\* (8 hours by default) between two steps: no lease, claim or listener gets stuck.
OnlineIsExposed ==
  \A d \in Devices :
    <>[](d \in online /\ closer = "none")
      => []<>(Bound(d) /\ listeners[d].ttl > 0) \/ []<><<Tick>>_vars

\* A device that stays offline loses its listener for good.
OfflineIsFrozen ==
  \A d \in Devices :
    <>[](d \notin online /\ closer = "none") => <>[](~Bound(d) /\ leaseOf[d] = None)

\* Close terminates: waiting for the run loop cannot deadlock.
CloseTerminates == (closer = "wait") ~> (closer = "done")
=============================================================================
