--------------------------- MODULE RemoteAccessInv ---------------------------
(***************************************************************************)
(* The inductive invariant behind the safety properties of RemoteAccess.   *)
(* Its first part says who may touch a device while the manager's lock is  *)
(* released: inflightByDevice is an exclusive claim.  The others say what  *)
(* the claimant may rely on: about leases, listeners and bindings.         *)
(***************************************************************************)
EXTENDS RemoteAccess

Exposing  == {"create", "saveBinding", "bind", "register", "commit"}
Acquiring == Exposing \cup {"acquired"}
Releasing == {"unbind", "drop", "saveRelease", "released"}
RunOnly   == Releasing \cup {"stopped", "reconcile", "saveStatus", "expose"}

Claims(p) == proc[p].pc \in Acquiring \cup Releasing

\* A process inside an operation owns the claim on its device, alone.
ClaimInv ==
  /\ \A p \in Procs : Claims(p) => proc[p].dev \in inflight
  /\ \A p, q \in Procs : p # q /\ Claims(p) /\ Claims(q) => proc[p].dev # proc[q].dev
  /\ \A p \in Procs : proc[p].pc \in {"lock", "update"} => proc[p].dev \in Devices
  /\ \A p \in Procs : proc[p].pc \in RunOnly => p = Run

\* The two maps of leases agree.
NoneIsEmpty  == \A l \in LeaseIDs : leases[l].status = "NONE" => leases[l] = NoLease
LeaseIndexed == \A l \in LeaseIDs : leases[l].status # "NONE" =>
                  leases[l].dev \in Devices /\ leaseOf[leases[l].dev] = l
IndexLeased  == \A d \in Devices : leaseOf[d] # None =>
                  leases[leaseOf[d]].dev = d /\ leases[leaseOf[d]].status # "NONE"

\* A lease is RELEASING exactly while the run loop releases it.
ReleasingIsRun == \A l \in LeaseIDs : leases[l].status = "RELEASING" =>
                    proc[Run].pc \in {"unbind", "drop"} /\ proc[Run].grant.lease = l
RunReleases == proc[Run].pc \in {"unbind", "drop"} =>
                 /\ proc[Run].grant.lease \in LeaseIDs
                 /\ leases[proc[Run].grant.lease].status = "RELEASING"
                 /\ leases[proc[Run].grant.lease].dev = proc[Run].dev

\* A process on its way to a new lease finds none in its way, and the identifier
\* it has drawn is its own.
ExposingUnleased == \A p \in Procs : proc[p].pc \in Exposing => leaseOf[proc[p].dev] = None
NewIDUnused == \A p \in Procs : proc[p].pc \in {"register", "commit"} =>
                 proc[p].grant.lease \in LeaseIDs /\ leases[proc[p].grant.lease].status = "NONE"
NewIDsDistinct == \A p, q \in Procs :
                    /\ p # q
                    /\ proc[p].pc \in {"register", "commit"} /\ proc[q].pc \in {"register", "commit"}
                    => proc[p].grant.lease # proc[q].grant.lease

LeaseInv ==
  /\ NoneIsEmpty /\ LeaseIndexed /\ IndexLeased /\ ReleasingIsRun /\ RunReleases
  /\ ExposingUnleased /\ NewIDUnused /\ NewIDsDistinct

\* Where a listener may exist, and where it must.
PushedGrant == \A p \in Procs : proc[p].pc = "update" => proc[p].grant.lease \in LeaseIDs
UnboundBeforeCommit ==
  \A p \in Procs : proc[p].pc \in Exposing \ {"commit"} => ~Bound(proc[p].dev)
BoundAtCommit ==
  \A p \in Procs : proc[p].pc = "commit" /\ closer \in {"none", "wait"} => Bound(proc[p].dev)
BoundIsLeased ==
  \A p \in Procs : proc[p].pc = "acquired" /\ Bound(proc[p].dev) => ActiveLease(proc[p].dev)
ReleasedIsUnbound == proc[Run].pc \in Releasing \ {"unbind"} => ~Bound(proc[Run].dev)
ActiveIsBound == \A d \in Devices : closer \in {"none", "wait"} /\ ActiveLease(d) => Bound(d)

\* What the gateway closes, and what it keeps open.
ClosedGateway == /\ gwClosed <=> closer \in {"save", "done"}
                 /\ gwClosed => \A d \in Devices : ~Bound(d)
SocketsBound  == \A c \in Conns : conns[c].sock => conns[c].dev \in Devices /\ Bound(conns[c].dev)
OpenHasLease  == \A c \in Conns : conns[c].st = "open" => conns[c].lease \in LeaseIDs

ListenerInv ==
  /\ PushedGrant /\ NoOrphanListener /\ UnboundBeforeCommit /\ BoundAtCommit /\ BoundIsLeased
  /\ ReleasedIsUnbound /\ ActiveIsBound /\ ClosedGateway /\ SocketsBound /\ OpenHasLease

\* A binding is on disk before anything is exposed under its port.
BindingInv ==
  /\ \A p \in Procs : proc[p].pc = "create" => port[proc[p].dev] = None
  /\ \A p \in Procs : proc[p].pc = "saveBinding" =>
       port[proc[p].dev] # None /\ announced[proc[p].dev] = None
  /\ \A p \in Procs : proc[p].pc \in {"bind", "register", "commit"} =>
       port[proc[p].dev] # None /\ disk[proc[p].dev] = port[proc[p].dev]
  /\ \A d \in Devices :
       port[d] # None /\ (\A p \in Procs : ~(proc[p].pc = "saveBinding" /\ proc[p].dev = d)) =>
         disk[d] = port[d]

\* The invariant the safety theorems rest on.
IndInv ==
  /\ TypeOK /\ ClaimInv /\ LeaseInv /\ ListenerInv /\ BindingInv
  /\ ListeningIffLeased /\ PortsDistinct /\ StablePort

-----------------------------------------------------------------------------
(* Where the run loop is the only goroutine that acquires (Callers = {}) *)

\* The grant that lease l is projected into.
GrantOf(l) == [lease |-> l, ttl |-> leases[l].ttl]

\* The grant the run loop is about to publish the lease of is the listener's, and the
\* one it is about to push is the lease's.
GrantInv ==
  LET d == proc[Run].dev IN
  /\ GrantFollowsLease
  /\ proc[Run].pc = "commit" /\ closer \in {"none", "wait"} => listeners[d] = proc[Run].grant
  /\ proc[Run].pc = "update" => ActiveLease(d) /\ proc[Run].grant = GrantOf(leaseOf[d])
=============================================================================
