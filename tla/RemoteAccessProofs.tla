------------------------- MODULE RemoteAccessProofs -------------------------
(***************************************************************************)
(* The safety of the remote-access orchestrator for any number of devices, *)
(* ports, leases, connections and concurrent callers of Acquire.  IndInv   *)
(* holds initially and every step keeps each of its parts; the theorems    *)
(* after it follow from it, and two more with parts of their own.          *)
(***************************************************************************)
EXTENDS RemoteAccessInv, FiniteSetTheorems, TLAPS

-----------------------------------------------------------------------------
(* What the steps do, field by field.  A step that updates records inside  *)
(* functions is restated by its effect on the fields the invariant speaks  *)
(* of, so that the proofs below need not open the updates again.           *)

\* The run loop is one of the processes that acquire.
LEMMA RunIsProc == Run \in Procs
BY DEF Procs

\* The updates of a connection handler keep its record well-formed.
LEMMA ConnUpdateType ==
  ASSUME NEW r \in ConnRec
  PROVE  /\ [r EXCEPT !.sock = FALSE] \in ConnRec
         /\ [r EXCEPT !.opened = TRUE] \in ConnRec
         /\ [r EXCEPT !.orphan = TRUE] \in ConnRec
BY Zenon DEF ConnRec

\* A process that moves on with a grant stays well-formed.
LEMMA ProcUpdateType ==
  ASSUME NEW f \in [Procs -> ProcRec], NEW p \in Procs, NEW x \in PCs, NEW g \in Grant
  PROVE  [f EXCEPT ![p].pc = x, ![p].grant = g] \in [Procs -> ProcRec]
<1>1. [f EXCEPT ![p].pc = x] \in [Procs -> ProcRec]
  BY DEF ProcRec
<1>2. \A h \in [Procs -> ProcRec] : [h EXCEPT ![p].grant = g] \in [Procs -> ProcRec]
  BY DEF ProcRec
<1> QED
  BY <1>1, <1>2

\* So does one that only moves on.
LEMMA GotoType ==
  ASSUME TypeOK, NEW p \in Procs, NEW x \in PCs, Goto(p, x)
  PROVE  proc' \in [Procs -> ProcRec]
BY DEF TypeOK, Goto, ProcRec

\* A process that starts anew has no device and no grant.
LEMMA AtType == \A x \in PCs : At(x) \in ProcRec
BY RemoteAssumption DEF At, NoListener, ProcRec, Grant, TTLs

\* Returning from Acquire keeps the processes well-formed.
LEMMA ReturnType ==
  ASSUME TypeOK, NEW p \in Procs, AcquireReturn(p)
  PROVE  proc' \in [Procs -> ProcRec]
<1>1. At(IF p = Run THEN "expose" ELSE "idle") \in ProcRec
  BY AtType DEF PCs
<1> QED
  BY <1>1 DEF TypeOK, AcquireReturn

\* Writing a lease into both maps keeps them well-formed.
LEMMA PutLeaseType ==
  ASSUME TypeOK, NEW l \in LeaseIDs, NEW r \in LeaseRec, r.dev \in Devices, PutLease(l, r)
  PROVE  leases' \in [LeaseIDs -> LeaseRec] /\ leaseOf' \in [Devices -> LeaseIDs \cup {None}]
BY DEF TypeOK, PutLease

\* listenerState.close keeps the connection handlers well-formed.
LEMMA CloseSocketsType ==
  ASSUME TypeOK, NEW S, CloseSockets(S)
  PROVE  conns' \in [Conns -> ConnRec]
<1>1. \A c \in Conns : [conns[c] EXCEPT !.sock = FALSE, !.orphan = TRUE] \in ConnRec
  BY ConnUpdateType DEF TypeOK
<1> QED
  BY <1>1 DEF TypeOK, CloseSockets

\* The empty lease, listener and connection are well-formed.
LEMMA NullTypes == NoLease \in LeaseRec /\ NoListener \in Grant /\ NoConn \in ConnRec
BY RemoteAssumption DEF NoLease, NoListener, NoConn, LeaseRec, Grant, ConnRec, TTLs

\* Whoever is inside an operation is inside it for a device.
LEMMA HasDevice ==
  ASSUME IndInv, NEW p \in Procs, Claims(p) \/ proc[p].pc \in {"lock", "update"}
  PROVE  proc[p].dev \in Devices
BY DEF IndInv, TypeOK, ClaimInv

-----------------------------------------------------------------------------
(* Effects *)

\* Only process p moves.
Others(p) ==
  \A q \in Procs : q # p => /\ proc'[q].pc = proc[q].pc /\ proc'[q].dev = proc[q].dev
                            /\ proc'[q].grant.lease = proc[q].grant.lease

\* Acquire returns to the device list of the run loop, or to its caller.
LEMMA ReturnEffect ==
  ASSUME IndInv, NEW p \in Procs, AcquireReturn(p)
  PROVE  /\ proc'[p].pc = IF p = Run THEN "expose" ELSE "idle"
         /\ \A q \in Procs \ {p} : proc'[q] = proc[q]
BY DEF IndInv, TypeOK, ProcRec, AcquireReturn, At

Resolves(p, d) ==
  /\ proc[p].pc \in {"idle", "expose"}
  /\ \/ proc'[p].pc = "lock" /\ proc'[p].dev = d
     \/ proc'[p].pc = IF p = Run THEN "expose" ELSE "idle"
  /\ Others(p)
  /\ UNCHANGED <<binds, disk, mgr, gate, closing, announced>>

\* Resolving a device changes nothing of manager and gateway.
LEMMA ResolveEffect ==
  ASSUME IndInv, NEW p \in Procs, NEW d \in Devices, AcquireResolve(p, d)
  PROVE  Resolves(p, d)
BY ReturnEffect DEF IndInv, TypeOK, AcquireResolve, Resolves, Others

Renews(p) ==
  /\ proc[p].pc = "lock"
  /\ proc'[p].pc = "update" /\ proc'[p].dev = proc[p].dev
  /\ proc'[p].grant.lease \in LeaseIDs
  /\ Others(p)
  /\ leaseOf' = leaseOf
  /\ \A l \in LeaseIDs : /\ leases'[l].dev = leases[l].dev
                         /\ leases'[l].status = leases[l].status
                         /\ leases[l].status = "NONE" => leases'[l] = leases[l]
  /\ UNCHANGED <<binds, disk, inflight, gate, closing, announced>>

\* A renewal keeps device and status of every lease.
LEMMA RenewEffect ==
  ASSUME IndInv, NEW p \in Procs, AcquireRenew(p)
  PROVE  Renews(p)
<1>0. TypeOK
  BY DEF IndInv
<1> DEFINE d == proc[p].dev
           l == leaseOf[d]
           r == [leases[l] EXCEPT !.ttl = MaxTTL]
<1>1. d \in Devices /\ l \in LeaseIDs /\ leases[l].dev = d /\ leases[l].status = "ACTIVE"
  BY <1>0, HasDevice DEF AcquireRenew, IndInv, TypeOK, LeaseInv, IndexLeased, ActiveLease
<1>2. proc' = [proc EXCEPT ![p].pc = "update", ![p].grant = [lease |-> l, ttl |-> MaxTTL]]
  BY DEF AcquireRenew
<1>3. r.dev = d /\ r.status = "ACTIVE"
  BY <1>0, <1>1 DEF IndInv, TypeOK, LeaseRec
<1>4. leases' = [leases EXCEPT ![l] = r] /\ leaseOf' = [leaseOf EXCEPT ![r.dev] = l]
  BY DEF AcquireRenew, PutLease
<1> HIDE DEF r
<1>5. leaseOf' = leaseOf
  BY <1>0, <1>1, <1>3, <1>4 DEF IndInv, TypeOK
<1>6. \A k \in LeaseIDs : leases'[k] = IF k = l THEN r ELSE leases[k]
  BY <1>0, <1>1, <1>4 DEF IndInv, TypeOK
<1>7. proc'[p].pc = "update" /\ proc'[p].dev = proc[p].dev /\ proc'[p].grant.lease = l
  BY <1>0, <1>2 DEF IndInv, TypeOK, ProcRec
<1>8. \A q \in Procs \ {p} : proc'[q] = proc[q]
  BY <1>0, <1>2 DEF IndInv, TypeOK
<1> QED
  BY <1>1, <1>3, <1>5, <1>6, <1>7, <1>8 DEF AcquireRenew, Renews, Others

Binds(p, l) ==
  /\ Free(l)
  /\ proc[p].pc = "bind" /\ ~gwClosed
  /\ proc'[p].pc = IF Bound(proc[p].dev) THEN "commit" ELSE "register"
  /\ proc'[p].dev = proc[p].dev /\ proc'[p].grant.lease = l
  /\ Others(p)
  /\ UNCHANGED <<binds, disk, mgr, gate, closing, announced>>

\* Bind draws an unused identifier, and looks for a listener before it goes on.
LEMMA BindEffect ==
  ASSUME IndInv, NEW p \in Procs, Bind(p)
  PROVE  \E l \in LeaseIDs : Binds(p, l)
<1> DEFINE x == IF Bound(proc[p].dev) THEN "commit" ELSE "register"
<1>1. PICK l \in LeaseIDs :
        /\ Free(l)
        /\ proc' = [proc EXCEPT ![p].pc = x, ![p].grant = [lease |-> l, ttl |-> MaxTTL]]
  BY DEF Bind
<1> HIDE DEF x
<1>2. proc'[p].pc = x /\ proc'[p].dev = proc[p].dev /\ proc'[p].grant.lease = l
  BY <1>1 DEF IndInv, TypeOK, ProcRec
<1>3. \A q \in Procs \ {p} : proc'[q] = proc[q]
  BY <1>1 DEF IndInv, TypeOK
<1> QED
  BY <1>1, <1>2, <1>3 DEF x, Bind, Binds, Others

Commits(p) ==
  LET d == proc[p].dev  l == proc[p].grant.lease IN
  /\ d \in Devices /\ l \in LeaseIDs /\ leases[l].status = "NONE" /\ leaseOf[d] = None
  /\ leases'[l].dev = d /\ leases'[l].status = "ACTIVE"
  /\ \A k \in LeaseIDs \ {l} : leases'[k] = leases[k]
  /\ \A e \in Devices : leaseOf'[e] = IF e = d THEN l ELSE leaseOf[e]
  /\ \A e \in Devices : status'[e] = IF e = d THEN "LISTENING" ELSE status[e]
  /\ proc[p].pc = "commit" /\ proc'[p].pc = "acquired"
  /\ proc'[p].dev = d /\ proc'[p].grant = proc[p].grant
  /\ Others(p)
  /\ \A e \in Devices : announced'[e] = IF e = d /\ announced[d] = None THEN port[d] ELSE announced[e]
  /\ UNCHANGED <<port, reserved, disk, inflight, gate, closing>>

\* The commit turns an unleased device into a leased one and touches no other.
LEMMA CommitEffect ==
  ASSUME IndInv, NEW p \in Procs, AcquireCommit(p)
  PROVE  Commits(p)
<1>0. TypeOK
  BY DEF IndInv
<1> DEFINE d == proc[p].dev
           l == proc[p].grant.lease
<1>1. d \in Devices /\ l \in LeaseIDs /\ leases[l].status = "NONE" /\ leaseOf[d] = None
  BY HasDevice DEF AcquireCommit, IndInv, LeaseInv, NewIDUnused, ExposingUnleased, Claims, Acquiring, Exposing
<1>2. /\ leases'[l].dev = d /\ leases'[l].status = "ACTIVE"
      /\ \A k \in LeaseIDs \ {l} : leases'[k] = leases[k]
      /\ \A e \in Devices : leaseOf'[e] = IF e = d THEN l ELSE leaseOf[e]
  BY <1>0, <1>1 DEF AcquireCommit, PutLease, TypeOK
<1>3. /\ proc'[p].pc = "acquired" /\ proc'[p].dev = d /\ proc'[p].grant = proc[p].grant
      /\ \A q \in Procs \ {p} : proc'[q] = proc[q]
  BY <1>0 DEF AcquireCommit, Goto, TypeOK, ProcRec
<1>4. /\ \A e \in Devices : status'[e] = IF e = d THEN "LISTENING" ELSE status[e]
      /\ \A e \in Devices : announced'[e] = IF e = d /\ announced[d] = None
                                            THEN port[d] ELSE announced[e]
  BY <1>0, <1>1 DEF AcquireCommit, TypeOK
<1> QED
  BY <1>1, <1>2, <1>3, <1>4 DEF AcquireCommit, Commits, Others

\* ConnectionOpened and ConnectionClosed only count.
OnlyCounts ==
  /\ leaseOf' = leaseOf
  /\ \A l \in LeaseIDs : /\ leases'[l].dev = leases[l].dev
                         /\ leases'[l].status = leases[l].status
                         /\ leases[l].status = "NONE" => leases'[l] = leases[l]
  /\ \A k \in Conns : /\ conns'[k].dev = conns[k].dev /\ conns'[k].lease = conns[k].lease
                      /\ conns'[k].sock = conns[k].sock
                      /\ conns'[k].st = "open" => conns[k].st = "open"
  /\ UNCHANGED <<binds, disk, inflight, listeners, gwClosed, proc, closing, announced>>

\* Authentication and the end of a connection only change a count.
LEMMA CountEffect ==
  ASSUME IndInv, NEW c \in Conns, Authed(c) \/ ConnEnd(c)
  PROVE  OnlyCounts
<1>0. TypeOK
  BY DEF IndInv
<1> DEFINE l == conns[c].lease
<1>1. l \in LeaseIDs
  BY DEF Authed, ConnEnd, IndInv, ListenerInv, OpenHasLease
<1>2. \/ UNCHANGED <<leases, leaseOf>>
      \/ /\ leases[l].status # "NONE"
         /\ \/ PutLease(l, [leases[l] EXCEPT !.active = leases[l].active + 1])
            \/ PutLease(l, [leases[l] EXCEPT !.active = leases[l].active - 1])
  <2>1. leases[l].active > 0 => leases[l].status # "NONE"
    BY <1>1 DEF IndInv, LeaseInv, NoneIsEmpty, LeaseIndexed, NoLease
  <2>2. CASE Authed(c)
    BY <2>2 DEF Authed, ConnectionOpened
  <2>3. CASE ConnEnd(c)
    BY <2>1, <2>3 DEF ConnEnd, ConnectionClosed
  <2> QED
    BY <2>2, <2>3
<1>3. ASSUME leases[l].status # "NONE", NEW n, PutLease(l, [leases[l] EXCEPT !.active = n])
      PROVE  /\ leaseOf' = leaseOf
             /\ \A k \in LeaseIDs \ {l} : leases'[k] = leases[k]
             /\ leases'[l].dev = leases[l].dev /\ leases'[l].status = leases[l].status
  <2> DEFINE r == [leases[l] EXCEPT !.active = n]
  <2>1. leases[l].dev \in Devices /\ leaseOf[leases[l].dev] = l
    BY <1>1, <1>3 DEF IndInv, LeaseInv, NoneIsEmpty, LeaseIndexed
  <2>2. r.dev = leases[l].dev /\ r.status = leases[l].status
    BY <1>0, <1>1 DEF IndInv, TypeOK, LeaseRec
  <2>3. leases' = [leases EXCEPT ![l] = r] /\ leaseOf' = [leaseOf EXCEPT ![r.dev] = l]
    BY <1>3 DEF PutLease
  <2> HIDE DEF r, l
  <2> QED
    BY <1>0, <1>1, <2>1, <2>2, <2>3 DEF IndInv, TypeOK
<1>4. \A k \in Conns : /\ conns'[k].dev = conns[k].dev /\ conns'[k].lease = conns[k].lease
                       /\ conns'[k].sock = conns[k].sock
                       /\ conns'[k].st = "open" => conns[k].st = "open"
  BY <1>0 DEF Authed, ConnEnd, TypeOK, ConnRec
<1> QED
  BY <1>1, <1>2, <1>3, <1>4 DEF Authed, ConnEnd, OnlyCounts

Closes(S) ==
  \A c \in Conns : /\ conns'[c].st = conns[c].st /\ conns'[c].lease = conns[c].lease
                   /\ conns'[c].dev = conns[c].dev
                   /\ conns'[c].sock => conns[c].sock /\ conns[c].dev \notin S

\* No socket of the closed listeners stays open, and none is opened.
LEMMA CloseSocketsEffect ==
  ASSUME IndInv, NEW S, CloseSockets(S)
  PROVE  Closes(S)
<1> SUFFICES ASSUME NEW c \in Conns
             PROVE  /\ conns'[c].st = conns[c].st /\ conns'[c].lease = conns[c].lease
                    /\ conns'[c].dev = conns[c].dev
                    /\ conns'[c].sock => conns[c].sock /\ conns[c].dev \notin S
  BY DEF Closes
<1>1. CASE conns[c].dev \notin S
  BY <1>1 DEF CloseSockets
<1>2. CASE conns[c].dev \in S
  <2>1. conns'[c] = [conns[c] EXCEPT !.sock = FALSE, !.orphan = TRUE]
    BY <1>2 DEF CloseSockets
  <2>2. conns[c] \in ConnRec
    BY DEF IndInv, TypeOK
  <2> QED
    BY <2>1, <2>2 DEF ConnRec
<1> QED
  BY <1>1, <1>2

Releases(l) ==
  LET d == leases[l].dev IN
  /\ d \in Devices \ inflight /\ inflight' = inflight \cup {d}
  /\ proc[Run].pc = "reconcile"
  /\ proc'[Run].pc = "unbind" /\ proc'[Run].dev = d /\ proc'[Run].grant.lease = l
  /\ Others(Run)
  /\ leaseOf' = leaseOf /\ leaseOf[d] = l
  /\ leases[l].status # "NONE"
  /\ leases'[l].dev = d /\ leases'[l].status = "RELEASING"
  /\ \A k \in LeaseIDs \ {l} : leases'[k] = leases[k]
  /\ UNCHANGED <<binds, disk, gate, closing, announced>>

\* releaseLease leaves a busy device alone, or claims it and marks its lease.
LEMMA ReleaseBeginEffect ==
  ASSUME IndInv, NEW l \in LeaseIDs, ReleaseBegin(l)
  PROVE  UNCHANGED <<mgr, proc, binds, disk, gate, closing, announced>> \/ Releases(l)
<1>0. TypeOK
  BY DEF IndInv
<1> DEFINE d == leases[l].dev
           r == [leases[l] EXCEPT !.status = "RELEASING"]
<1>1. CASE leases[l] = NoLease \/ d \in inflight
  BY <1>1 DEF ReleaseBegin
<1>2. CASE ~(leases[l] = NoLease \/ d \in inflight)
  <2>1. d \in Devices /\ leaseOf[d] = l /\ leases[l].status # "NONE"
    BY <1>2 DEF IndInv, LeaseInv, NoneIsEmpty, LeaseIndexed
  <2>2. r.dev = d /\ r.status = "RELEASING"
    BY <1>0 DEF IndInv, TypeOK, LeaseRec
  <2>3. /\ leases' = [leases EXCEPT ![l] = r] /\ leaseOf' = [leaseOf EXCEPT ![r.dev] = l]
        /\ proc' = [proc EXCEPT ![Run] = [pc |-> "unbind", dev |-> d,
                                          grant |-> [lease |-> l, ttl |-> 0]]]
        /\ proc[Run].pc = "reconcile" /\ inflight' = inflight \cup {d}
    BY <1>2 DEF ReleaseBegin, PutLease
  <2>4. leaseOf' = leaseOf /\ leases'[l] = r /\ \A k \in LeaseIDs \ {l} : leases'[k] = leases[k]
    <3> HIDE DEF r, d
    <3> QED
      BY <1>0, <2>1, <2>2, <2>3 DEF IndInv, TypeOK
  <2>5. /\ proc'[Run].pc = "unbind" /\ proc'[Run].dev = d /\ proc'[Run].grant.lease = l
        /\ \A q \in Procs \ {Run} : proc'[q] = proc[q]
    <3> HIDE DEF r, d
    <3> QED
      BY <1>0, <2>3, RunIsProc DEF IndInv, TypeOK
  <2> QED
    BY <1>2, <2>1, <2>2, <2>3, <2>4, <2>5 DEF ReleaseBegin, Releases, Others
<1> QED
  BY <1>1, <1>2

\* Time changes no field the invariant speaks of.
Ages ==
  /\ \A p \in Procs : /\ proc'[p].pc = proc[p].pc /\ proc'[p].dev = proc[p].dev
                      /\ proc'[p].grant.lease = proc[p].grant.lease
  /\ \A l \in LeaseIDs : /\ leases'[l].dev = leases[l].dev
                         /\ leases'[l].status = leases[l].status
                         /\ leases[l] = NoLease => leases'[l] = NoLease
  /\ \A d \in Devices : listeners'[d].lease = listeners[d].lease
  /\ UNCHANGED <<binds, disk, leaseOf, inflight, gwClosed, conns, closing, announced>>

\* The clock moves none of the fields above.
LEMMA TickEffect ==
  ASSUME IndInv, Tick
  PROVE  Ages
<1>1. \A p \in Procs : /\ proc'[p].pc = proc[p].pc /\ proc'[p].dev = proc[p].dev
                       /\ proc'[p].grant.lease = proc[p].grant.lease
  BY DEF IndInv, TypeOK, ProcRec, Grant, Tick
<1>2. \A l \in LeaseIDs : leases'[l].dev = leases[l].dev /\ leases'[l].status = leases[l].status
  BY DEF IndInv, TypeOK, LeaseRec, Tick
<1>3. \A l \in LeaseIDs : leases[l] = NoLease => leases'[l] = NoLease
  BY DEF IndInv, TypeOK, LeaseRec, Tick, Left, NoLease
<1>4. \A d \in Devices : listeners'[d].lease = listeners[d].lease
  BY DEF IndInv, TypeOK, Grant, Tick
<1> QED
  BY <1>1, <1>2, <1>3, <1>4 DEF Tick, Ages

-----------------------------------------------------------------------------
(* Every step keeps each part of the invariant *)

\* Every action keeps the types: an index that comes out of another map is one
\* of a device or of a lease, never None.
LEMMA TypeNext == IndInv /\ [Next]_vars => TypeOK'
<1> SUFFICES ASSUME IndInv, [Next]_vars PROVE TypeOK'
  OBVIOUS
<1>0. TypeOK
  BY DEF IndInv
<1> USE <1>0, RemoteAssumption, RunIsProc DEF PCs, binds, mgr, gate, loop, closing
<1>1. ASSUME NEW p \in Procs, NEW d \in Devices, AcquireResolve(p, d) PROVE TypeOK'
  <2>1. [pc |-> "lock", dev |-> d, grant |-> NoListener] \in ProcRec
    BY NullTypes DEF ProcRec
  <2>2. proc' \in [Procs -> ProcRec]
    BY <1>1, <2>1, ReturnType DEF AcquireResolve, TypeOK
  <2> QED
    BY <1>1, <2>2 DEF AcquireResolve, TypeOK
<1>2. ASSUME NEW p \in Procs, AcquireConflict(p) PROVE TypeOK'
  BY <1>2, ReturnType DEF AcquireConflict, TypeOK
<1>3. ASSUME NEW p \in Procs, AcquireRenew(p) PROVE TypeOK'
  <2> DEFINE d == proc[p].dev
             l == leaseOf[d]
  <2>1. d \in Devices /\ l \in LeaseIDs /\ leases[l].dev = d
    BY <1>3, HasDevice DEF AcquireRenew, IndInv, TypeOK, LeaseInv, IndexLeased, ActiveLease
  <2>2. /\ [leases[l] EXCEPT !.ttl = MaxTTL] \in LeaseRec
        /\ [leases[l] EXCEPT !.ttl = MaxTTL].dev = d
    BY <2>1 DEF TypeOK, LeaseRec, TTLs
  <2>3. leases' \in [LeaseIDs -> LeaseRec] /\ leaseOf' \in [Devices -> LeaseIDs \cup {None}]
    BY <1>3, <2>1, <2>2, PutLeaseType DEF AcquireRenew
  <2>4. proc' \in [Procs -> ProcRec]
    <3>1. [lease |-> l, ttl |-> MaxTTL] \in Grant
      BY <2>1 DEF Grant, TTLs
    <3>2. proc' = [proc EXCEPT ![p].pc = "update", ![p].grant = [lease |-> l, ttl |-> MaxTTL]]
      BY <1>3 DEF AcquireRenew
    <3>3. proc \in [Procs -> ProcRec] /\ "update" \in PCs
      BY DEF TypeOK
    <3> HIDE DEF l
    <3> QED
      BY <3>1, <3>2, <3>3, ProcUpdateType
  <2> QED
    BY <1>3, <2>3, <2>4 DEF AcquireRenew, TypeOK
<1>4. ASSUME NEW p \in Procs, UpdateGrant(p) PROVE TypeOK'
  <2>1. proc[p].grant \in Grant
    BY DEF TypeOK, ProcRec
  <2>2. listeners' \in [Devices -> Grant]
    BY <1>4, <2>1 DEF UpdateGrant, TypeOK
  <2> QED
    BY <1>4, <2>2, ReturnType DEF UpdateGrant, TypeOK
<1>5. ASSUME NEW p \in Procs, AcquireClaim(p) PROVE TypeOK'
  BY <1>5, HasDevice, GotoType DEF AcquireClaim, TypeOK
<1>6. ASSUME NEW p \in Procs, CreateBinding(p) PROVE TypeOK'
  <2>0. PICK n \in Ports : /\ reserved' = reserved \cup {n}
                           /\ port' = [port EXCEPT ![proc[p].dev] = n]
    BY <1>6 DEF CreateBinding
  <2>1. port' \in [Devices -> Ports \cup {None}] /\ reserved' \in SUBSET Ports
    BY <2>0 DEF TypeOK
  <2> QED
    BY <1>6, <2>1, GotoType DEF CreateBinding, TypeOK
<1>7. ASSUME NEW p \in Procs, AllocateFails(p) PROVE TypeOK'
  BY <1>7, GotoType DEF AllocateFails, TypeOK
<1>8. ASSUME NEW p \in Procs, SaveBinding(p) PROVE TypeOK'
  BY <1>8, GotoType DEF SaveBinding, TypeOK
<1>9. ASSUME NEW p \in Procs, SaveBindingFails(p) PROVE TypeOK'
  BY <1>9, GotoType DEF SaveBindingFails, TypeOK
<1>10. ASSUME NEW p \in Procs, Bind(p) PROVE TypeOK'
  <2>1. proc' \in [Procs -> ProcRec]
    <3> DEFINE x == IF Bound(proc[p].dev) THEN "commit" ELSE "register"
    <3>1. PICK g \in Grant : proc' = [proc EXCEPT ![p].pc = x, ![p].grant = g]
      <4>1. \A l \in LeaseIDs : [lease |-> l, ttl |-> MaxTTL] \in Grant
        BY DEF Grant, TTLs
      <4> QED
        BY <1>10, <4>1 DEF Bind
    <3>2. x \in PCs
      OBVIOUS
    <3>3. proc \in [Procs -> ProcRec]
      BY DEF TypeOK
    <3> HIDE DEF x, PCs
    <3> QED
      BY <3>1, <3>2, <3>3, ProcUpdateType
  <2> QED
    BY <1>10, <2>1 DEF Bind, TypeOK
<1>11. ASSUME NEW p \in Procs, BindFails(p) PROVE TypeOK'
  BY <1>11, GotoType DEF BindFails, TypeOK
<1>12. ASSUME NEW p \in Procs, RegisterListener(p) PROVE TypeOK'
  <2>1. proc[p].grant \in Grant
    BY DEF TypeOK, ProcRec
  <2> QED
    BY <1>12, <2>1, GotoType DEF RegisterListener, TypeOK
<1>13. ASSUME NEW p \in Procs, AcquireCommit(p) PROVE TypeOK'
  <2> DEFINE d == proc[p].dev
             l == proc[p].grant.lease
             r == [dev |-> d, owner |-> p, status |-> "ACTIVE",
                   ttl |-> proc[p].grant.ttl, active |-> 0]
  <2>1. d \in Devices /\ l \in LeaseIDs
    BY <1>13, HasDevice DEF AcquireCommit, IndInv, LeaseInv, NewIDUnused, Claims, Acquiring, Exposing
  <2>2. r \in LeaseRec /\ r.dev \in Devices
    BY <2>1 DEF TypeOK, ProcRec, Grant, LeaseRec
  <2>3. leases' \in [LeaseIDs -> LeaseRec] /\ leaseOf' \in [Devices -> LeaseIDs \cup {None}]
    BY <1>13, <2>1, <2>2, PutLeaseType DEF AcquireCommit
  <2> QED
    BY <1>13, <2>1, <2>3, GotoType DEF AcquireCommit, TypeOK
<1>14. ASSUME NEW p \in Procs, AcquireEnd(p) PROVE TypeOK'
  BY <1>14, ReturnType DEF AcquireEnd, TypeOK
<1>15. CASE TickBegin
  BY <1>15, GotoType DEF TickBegin, TypeOK
<1>16. CASE RunStops
  BY <1>16, GotoType DEF RunStops, TypeOK
<1>17. ASSUME NEW l \in LeaseIDs, ReleaseBegin(l) PROVE TypeOK'
  <2> DEFINE d == leases[l].dev
             r == [leases[l] EXCEPT !.status = "RELEASING"]
  <2>1. CASE leases[l] = NoLease \/ d \in inflight
    BY <1>17, <2>1 DEF ReleaseBegin, TypeOK
  <2>2. CASE ~(leases[l] = NoLease \/ d \in inflight)
    <3>1. d \in Devices
      BY <2>2 DEF IndInv, LeaseInv, NoneIsEmpty, LeaseIndexed
    <3>2. r \in LeaseRec /\ r.dev \in Devices
      BY <3>1 DEF TypeOK, LeaseRec
    <3>3. leases' \in [LeaseIDs -> LeaseRec] /\ leaseOf' \in [Devices -> LeaseIDs \cup {None}]
      BY <1>17, <2>2, <3>2, PutLeaseType DEF ReleaseBegin
    <3>4. [pc |-> "unbind", dev |-> d, grant |-> [lease |-> l, ttl |-> 0]] \in ProcRec
      BY <3>1 DEF ProcRec, Grant, TTLs
    <3>5. proc' \in [Procs -> ProcRec]
      BY <1>17, <2>2, <3>4 DEF ReleaseBegin, TypeOK
    <3> QED
      BY <1>17, <2>2, <3>1, <3>3, <3>5 DEF ReleaseBegin, TypeOK
  <2> QED
    BY <2>1, <2>2
<1>18. ASSUME NEW l \in LeaseIDs, ReconcileKeeps(l) PROVE TypeOK'
  BY <1>18 DEF ReconcileKeeps, TypeOK
<1>19. CASE Unbind
  BY <1>19, GotoType, CloseSocketsType, NullTypes DEF Unbind, TypeOK
<1>20. CASE ReleaseDrop
  BY <1>20, GotoType, NullTypes DEF ReleaseDrop, TypeOK
<1>21. CASE ReleaseSave
  BY <1>21, GotoType DEF ReleaseSave, TypeOK
<1>22. CASE ReleaseEnd
  BY <1>22, AtType DEF ReleaseEnd, TypeOK
<1>23. CASE ReconcileBindings
  BY <1>23, GotoType DEF ReconcileBindings, SettledStatus, TypeOK
<1>24. CASE SaveStatus
  BY <1>24, GotoType DEF SaveStatus, TypeOK
<1>25. CASE TickEnd
  BY <1>25, GotoType DEF TickEnd, TypeOK
<1>26. CASE CloseBegin
  BY <1>26 DEF CloseBegin, TypeOK
<1>27. CASE CloseCollect
  BY <1>27 DEF CloseCollect, TypeOK
<1>28. ASSUME NEW d \in Devices, CloseUnbind(d) PROVE TypeOK'
  BY <1>28, CloseSocketsType, NullTypes DEF CloseUnbind, TypeOK
<1>29. CASE CloseGateway
  BY <1>29, CloseSocketsType, NullTypes DEF CloseGateway, TypeOK
<1>30. CASE CloseSave
  BY <1>30 DEF CloseSave, TypeOK
<1>31. ASSUME NEW c \in Conns, NEW d \in Devices, Accept(c, d) PROVE TypeOK'
  <2>1. [st |-> "open", lease |-> listeners[d].lease, dev |-> d,
         opened |-> FALSE, sock |-> TRUE, orphan |-> FALSE] \in ConnRec
    BY DEF TypeOK, Grant, ConnRec
  <2> QED
    BY <1>31, <2>1 DEF Accept, TypeOK
<1>32. ASSUME NEW c \in Conns, Authed(c) PROVE TypeOK'
  <2> DEFINE l == conns[c].lease
  <2>1. l \in LeaseIDs
    BY <1>32 DEF Authed, IndInv, ListenerInv, OpenHasLease
  <2>2. leases' \in [LeaseIDs -> LeaseRec] /\ leaseOf' \in [Devices -> LeaseIDs \cup {None}]
    <3>1. CASE leases[l].status = "ACTIVE"
      <4>0. leases[l].dev \in Devices
        BY <2>1, <3>1 DEF IndInv, LeaseInv, LeaseIndexed
      <4>1. /\ [leases[l] EXCEPT !.active = @ + 1] \in LeaseRec
            /\ [leases[l] EXCEPT !.active = @ + 1].dev \in Devices
        BY <2>1, <4>0 DEF TypeOK, LeaseRec
      <4> QED
        BY <1>32, <2>1, <3>1, <4>1, PutLeaseType DEF Authed, ConnectionOpened
    <3>2. CASE leases[l].status # "ACTIVE"
      BY <1>32, <3>2 DEF Authed, ConnectionOpened, TypeOK
    <3> QED
      BY <3>1, <3>2
  <2>3. conns' \in [Conns -> ConnRec]
    BY <1>32, ConnUpdateType DEF Authed, TypeOK
  <2> QED
    BY <1>32, <2>2, <2>3 DEF Authed, TypeOK
<1>33. ASSUME NEW c \in Conns, Kick(c) PROVE TypeOK'
  <2>1. conns' \in [Conns -> ConnRec]
    BY <1>33, ConnUpdateType DEF Kick, TypeOK
  <2> QED
    BY <1>33, <2>1 DEF Kick, TypeOK
<1>34. ASSUME NEW c \in Conns, PeerGone(c) PROVE TypeOK'
  <2>1. conns' \in [Conns -> ConnRec]
    BY <1>34, ConnUpdateType DEF PeerGone, TypeOK
  <2> QED
    BY <1>34, <2>1 DEF PeerGone, TypeOK
<1>35. ASSUME NEW c \in Conns, ConnEnd(c) PROVE TypeOK'
  <2> DEFINE l == conns[c].lease
  <2>1. l \in LeaseIDs
    BY <1>35 DEF ConnEnd, IndInv, ListenerInv, OpenHasLease
  <2>2. leases' \in [LeaseIDs -> LeaseRec] /\ leaseOf' \in [Devices -> LeaseIDs \cup {None}]
    <3>1. CASE conns[c].opened /\ leases[l].active > 0
      <4>1. leases[l].dev \in Devices
        BY <2>1, <3>1 DEF IndInv, LeaseInv, NoneIsEmpty, LeaseIndexed, NoLease
      <4>2. /\ [leases[l] EXCEPT !.active = @ - 1] \in LeaseRec
            /\ [leases[l] EXCEPT !.active = @ - 1].dev \in Devices
        BY <2>1, <3>1, <4>1 DEF TypeOK, LeaseRec
      <4> QED
        BY <1>35, <2>1, <3>1, <4>2, PutLeaseType DEF ConnEnd, ConnectionClosed
    <3>2. CASE ~(conns[c].opened /\ leases[l].active > 0)
      BY <1>35, <3>2 DEF ConnEnd, ConnectionClosed, TypeOK
    <3> QED
      BY <3>1, <3>2
  <2>3. conns' \in [Conns -> ConnRec]
    BY <1>35 DEF ConnEnd, TypeOK, ConnRec
  <2> QED
    BY <1>35, <2>2, <2>3 DEF ConnEnd, TypeOK
<1>36. ASSUME NEW c \in Conns, ConnRemove(c) PROVE TypeOK'
  BY <1>36, NullTypes DEF ConnRemove, TypeOK
<1>37. ASSUME NEW d \in Devices, DeviceChanges(d) PROVE TypeOK'
  BY <1>37 DEF DeviceChanges, TypeOK
<1>38. CASE Tick
  <2>1. \A n \in TTLs : Left(n) \in TTLs
    BY DEF Left, TTLs
  <2>2. \A l \in LeaseIDs : [leases[l] EXCEPT !.ttl = Left(@)] \in LeaseRec
    BY <2>1 DEF TypeOK, LeaseRec
  <2>3. \A d \in Devices : [listeners[d] EXCEPT !.ttl = Left(@)] \in Grant
    BY <2>1 DEF TypeOK, Grant
  <2>4. \A p \in Procs : [proc[p] EXCEPT !.grant.ttl = Left(@)] \in ProcRec
    <3>1. \A g \in Grant : [g EXCEPT !.ttl = Left(@)] \in Grant
      BY <2>1 DEF Grant
    <3>2. \A r \in ProcRec : r.grant \in Grant
      BY DEF ProcRec
    <3>3. \A r \in ProcRec : [r EXCEPT !.grant = [r.grant EXCEPT !.ttl = Left(@)]] \in ProcRec
      BY <3>1, <3>2 DEF ProcRec
    <3> QED
      BY <3>3 DEF TypeOK
  <2> QED
    BY <1>38, <2>2, <2>3, <2>4 DEF Tick, TypeOK
<1>39. CASE Restart
  <2>1. /\ leases' \in [LeaseIDs -> LeaseRec] /\ listeners' \in [Devices -> Grant]
        /\ conns' \in [Conns -> ConnRec] /\ proc' \in [Procs -> ProcRec]
    BY <1>39, NullTypes, AtType DEF Restart
  <2>2. reserved' \in SUBSET Ports
    BY <1>39 DEF Restart, RestoredPorts, TypeOK
  <2> QED
    BY <1>39, <2>1, <2>2 DEF Restart, RestoredStatus, TypeOK
<1>40. CASE UNCHANGED vars
  BY <1>40 DEF vars, TypeOK
<1> QED
  BY <1>1, <1>2, <1>3, <1>4, <1>5, <1>6, <1>7, <1>8, <1>9, <1>10, <1>11, <1>12, <1>13, <1>14,
     <1>15, <1>16, <1>17, <1>18, <1>19, <1>20, <1>21, <1>22, <1>23, <1>24, <1>25, <1>26, <1>27,
     <1>28, <1>29, <1>30, <1>31, <1>32, <1>33, <1>34, <1>35, <1>36, <1>37, <1>38, <1>39, <1>40
     DEF Next, Acquire, Reconcile, Close, Connection

\* The claims of inflightByDevice stay exclusive.
LEMMA ClaimNext == IndInv /\ [Next]_vars => ClaimInv'
<1> SUFFICES ASSUME IndInv, [Next]_vars PROVE ClaimInv'
  OBVIOUS
<1>0. TypeOK /\ ClaimInv /\ LeaseInv
  BY DEF IndInv
<1>1. ASSUME NEW p \in Procs, NEW d \in Devices, AcquireResolve(p, d) PROVE ClaimInv'
  <2>1. Resolves(p, d)
    BY <1>1, ResolveEffect
  <2> QED
    BY <1>0, <2>1, RunIsProc, RemoteAssumption DEF ClaimInv, Claims, Acquiring, Exposing,
       Releasing, RunOnly, mgr, Resolves, Others
<1>2. ASSUME NEW p \in Procs, AcquireRenew(p) PROVE ClaimInv'
  <2>1. Renews(p)
    BY <1>2, RenewEffect
  <2> QED
    BY <1>0, <2>1, RunIsProc, RemoteAssumption DEF ClaimInv, Claims, Acquiring, Exposing,
       Releasing, RunOnly, mgr, Renews, Others
<1>3. ASSUME NEW p \in Procs, Bind(p) PROVE ClaimInv'
  <2>1. PICK l \in LeaseIDs : Binds(p, l)
    BY <1>3, BindEffect
  <2> QED
    BY <1>0, <2>1, RunIsProc, RemoteAssumption DEF ClaimInv, Claims, Acquiring, Exposing,
       Releasing, RunOnly, mgr, Binds, Others
<1>4. ASSUME NEW p \in Procs, AcquireCommit(p) PROVE ClaimInv'
  <2>1. Commits(p)
    BY <1>4, CommitEffect
  <2> QED
    BY <1>0, <2>1, RunIsProc, RemoteAssumption DEF ClaimInv, Claims, Acquiring, Exposing,
       Releasing, RunOnly, mgr, Commits, Others
<1>5. ASSUME NEW l \in LeaseIDs, ReleaseBegin(l) PROVE ClaimInv'
  <2>2. CASE UNCHANGED <<mgr, proc, binds, disk, gate, closing, announced>>
    BY <1>0, <2>2 DEF ClaimInv, Claims, Acquiring, Exposing, Releasing, RunOnly, binds, mgr,
       gate, closing
  <2>3. CASE Releases(l)
    <3> QED
      BY <1>0, <2>3, RunIsProc, RemoteAssumption DEF ClaimInv, Claims, Acquiring, Exposing,
         Releasing, RunOnly, mgr, Releases, Others
  <2> QED
    BY <1>5, <2>2, <2>3, ReleaseBeginEffect
<1>6. ASSUME NEW c \in Conns, Authed(c) PROVE ClaimInv'
  <2>1. OnlyCounts
    BY <1>6, CountEffect
  <2> QED
    BY <1>0, <2>1, RunIsProc, RemoteAssumption DEF ClaimInv, Claims, Acquiring, Exposing,
       Releasing, RunOnly, mgr, OnlyCounts
<1>7. ASSUME NEW c \in Conns, ConnEnd(c) PROVE ClaimInv'
  <2>1. OnlyCounts
    BY <1>7, CountEffect
  <2> QED
    BY <1>0, <2>1, RunIsProc, RemoteAssumption DEF ClaimInv, Claims, Acquiring, Exposing,
       Releasing, RunOnly, mgr, OnlyCounts
<1>8. CASE Tick
  <2>1. Ages
    BY <1>8, TickEffect
  <2> QED
    BY <1>0, <2>1, RunIsProc, RemoteAssumption DEF ClaimInv, Claims, Acquiring, Exposing,
       Releasing, RunOnly, mgr, Ages
<1> USE <1>0, RemoteAssumption, RunIsProc DEF TypeOK, ClaimInv, Claims, Acquiring, Exposing,
        Releasing, RunOnly, ProcRec, binds, mgr, gate, loop, closing
<1>9. ASSUME NEW p \in Procs, AcquireConflict(p) PROVE ClaimInv'
  BY <1>9 DEF AcquireConflict, AcquireReturn, At, NoListener
<1>10. ASSUME NEW p \in Procs, UpdateGrant(p) PROVE ClaimInv'
  BY <1>10 DEF UpdateGrant, AcquireReturn, At, NoListener
<1>11. ASSUME NEW p \in Procs, AcquireClaim(p) PROVE ClaimInv'
  BY <1>11 DEF AcquireClaim, Goto
<1>12. ASSUME NEW p \in Procs, CreateBinding(p) PROVE ClaimInv'
  BY <1>12 DEF CreateBinding, Goto
<1>13. ASSUME NEW p \in Procs, AllocateFails(p) PROVE ClaimInv'
  BY <1>13 DEF AllocateFails, Goto
<1>14. ASSUME NEW p \in Procs, SaveBinding(p) PROVE ClaimInv'
  BY <1>14 DEF SaveBinding, Goto
<1>15. ASSUME NEW p \in Procs, SaveBindingFails(p) PROVE ClaimInv'
  BY <1>15 DEF SaveBindingFails, Goto
<1>16. ASSUME NEW p \in Procs, BindFails(p) PROVE ClaimInv'
  BY <1>16 DEF BindFails, Goto
<1>17. ASSUME NEW p \in Procs, RegisterListener(p) PROVE ClaimInv'
  BY <1>17 DEF RegisterListener, Goto
<1>18. ASSUME NEW p \in Procs, AcquireEnd(p) PROVE ClaimInv'
  BY <1>18 DEF AcquireEnd, AcquireReturn, At, NoListener
<1>19. CASE TickBegin
  BY <1>19 DEF TickBegin, Goto
<1>20. CASE RunStops
  BY <1>20 DEF RunStops, Goto
<1>21. ASSUME NEW l \in LeaseIDs, ReconcileKeeps(l) PROVE ClaimInv'
  BY <1>21 DEF ReconcileKeeps
<1>22. CASE Unbind
  BY <1>22 DEF Unbind, NoListener, Goto
<1>23. CASE ReleaseDrop
  BY <1>23 DEF ReleaseDrop, Goto
<1>24. CASE ReleaseSave
  BY <1>24 DEF ReleaseSave, Goto
<1>25. CASE ReleaseEnd
  BY <1>25 DEF ReleaseEnd, At
<1>26. CASE ReconcileBindings
  BY <1>26 DEF ReconcileBindings, SettledStatus, Goto
<1>27. CASE SaveStatus
  BY <1>27 DEF SaveStatus, Goto
<1>28. CASE TickEnd
  BY <1>28 DEF TickEnd, Goto
<1>29. CASE CloseBegin
  BY <1>29 DEF CloseBegin
<1>30. CASE CloseCollect
  BY <1>30 DEF CloseCollect
<1>31. ASSUME NEW d \in Devices, CloseUnbind(d) PROVE ClaimInv'
  BY <1>31 DEF CloseUnbind, NoListener
<1>32. CASE CloseGateway
  BY <1>32 DEF CloseGateway, NoListener
<1>33. CASE CloseSave
  BY <1>33 DEF CloseSave
<1>34. ASSUME NEW c \in Conns, NEW d \in Devices, Accept(c, d) PROVE ClaimInv'
  BY <1>34 DEF Accept
<1>35. ASSUME NEW c \in Conns, Kick(c) PROVE ClaimInv'
  BY <1>35 DEF Kick
<1>36. ASSUME NEW c \in Conns, PeerGone(c) PROVE ClaimInv'
  BY <1>36 DEF PeerGone
<1>37. ASSUME NEW c \in Conns, ConnRemove(c) PROVE ClaimInv'
  BY <1>37 DEF ConnRemove, NoConn
<1>38. ASSUME NEW d \in Devices, DeviceChanges(d) PROVE ClaimInv'
  BY <1>38 DEF DeviceChanges
<1>39. CASE Restart
  BY <1>39 DEF Restart, At, NoLease, NoListener, NoConn, RestoredStatus, RestoredPorts
<1>40. CASE UNCHANGED vars
  BY <1>40 DEF vars
<1> QED
  BY <1>1, <1>2, <1>3, <1>4, <1>5, <1>6, <1>7, <1>8, <1>9, <1>10, <1>11, <1>12, <1>13,
     <1>14, <1>15, <1>16, <1>17, <1>18, <1>19, <1>20, <1>21, <1>22, <1>23, <1>24, <1>25,
     <1>26, <1>27, <1>28, <1>29, <1>30, <1>31, <1>32, <1>33, <1>34, <1>35, <1>36, <1>37,
     <1>38, <1>39, <1>40
     DEF Next, Acquire, Reconcile, Close, Connection

\* leasesByID and leasesByDevice stay in step, and RELEASING stays with the run loop.
LEMMA LeaseNext == IndInv /\ [Next]_vars => LeaseInv'
<1> SUFFICES ASSUME IndInv, [Next]_vars PROVE LeaseInv'
  OBVIOUS
<1>0. TypeOK /\ ClaimInv /\ LeaseInv
  BY DEF IndInv
<1>1. ASSUME NEW p \in Procs, NEW d \in Devices, AcquireResolve(p, d) PROVE LeaseInv'
  <2>1. Resolves(p, d)
    BY <1>1, ResolveEffect
  <2> QED
    BY <1>0, <2>1, RunIsProc, RemoteAssumption DEF LeaseInv, NoneIsEmpty, LeaseIndexed,
       IndexLeased, ReleasingIsRun, RunReleases, ExposingUnleased, NewIDUnused,
       NewIDsDistinct, Exposing, TypeOK, mgr, Free, NoLease, Resolves, Others
<1>2. ASSUME NEW p \in Procs, AcquireRenew(p) PROVE LeaseInv'
  <2>1. Renews(p)
    BY <1>2, RenewEffect
  <2>2. NoneIsEmpty'
    BY <1>0, <2>1, RunIsProc, RemoteAssumption DEF LeaseInv, NoneIsEmpty, mgr, Renews,
       Others
  <2>3. LeaseIndexed'
    BY <1>0, <2>1, RunIsProc, RemoteAssumption DEF LeaseInv, LeaseIndexed, mgr, Renews,
       Others
  <2>4. IndexLeased'
    BY <1>0, <2>1, RunIsProc, RemoteAssumption DEF LeaseInv, IndexLeased, TypeOK, mgr,
       Renews, Others
  <2>5. ReleasingIsRun'
    BY <1>0, <2>1, RunIsProc, RemoteAssumption DEF LeaseInv, ReleasingIsRun, mgr, Renews,
       Others
  <2>6. RunReleases'
    BY <1>0, <2>1, RunIsProc, RemoteAssumption DEF LeaseInv, RunReleases, mgr, Renews,
       Others
  <2>7. ExposingUnleased'
    BY <1>0, <2>1, RunIsProc, RemoteAssumption DEF LeaseInv, ExposingUnleased, Exposing,
       mgr, Renews, Others
  <2>8. NewIDUnused'
    BY <1>0, <2>1, RunIsProc, RemoteAssumption DEF LeaseInv, NewIDUnused, mgr, Renews,
       Others
  <2>9. NewIDsDistinct'
    BY <1>0, <2>1, RunIsProc, RemoteAssumption DEF LeaseInv, NewIDsDistinct, Renews, Others
  <2> QED
    BY <2>2, <2>3, <2>4, <2>5, <2>6, <2>7, <2>8, <2>9 DEF LeaseInv
<1>3. ASSUME NEW p \in Procs, Bind(p) PROVE LeaseInv'
  <2>1. PICK l \in LeaseIDs : Binds(p, l)
    BY <1>3, BindEffect
  <2>2. NoneIsEmpty'
    BY <1>0, <2>1, RunIsProc, RemoteAssumption DEF LeaseInv, NoneIsEmpty, mgr, Binds, Others
  <2>3. LeaseIndexed'
    BY <1>0, <2>1, RunIsProc, RemoteAssumption DEF LeaseInv, LeaseIndexed, mgr, Binds,
       Others
  <2>4. IndexLeased'
    BY <1>0, <2>1, RunIsProc, RemoteAssumption DEF LeaseInv, IndexLeased, TypeOK, mgr,
       Binds, Others
  <2>5. ReleasingIsRun'
    BY <1>0, <2>1, RunIsProc, RemoteAssumption DEF LeaseInv, ReleasingIsRun, mgr, Binds,
       Others
  <2>6. RunReleases'
    BY <1>0, <2>1, RunIsProc, RemoteAssumption DEF LeaseInv, RunReleases, mgr, Binds, Others
  <2>7. ExposingUnleased'
    BY <1>0, <2>1, RunIsProc, RemoteAssumption DEF LeaseInv, ExposingUnleased, Exposing,
       mgr, Binds, Others
  <2>8. NewIDUnused'
    BY <1>0, <2>1, RunIsProc, RemoteAssumption DEF LeaseInv, NewIDUnused, mgr, Free,
       NoLease, Binds, Others
  <2>9. NewIDsDistinct'
    BY <1>0, <2>1, RunIsProc, RemoteAssumption DEF LeaseInv, NewIDsDistinct, Free, Binds,
       Others
  <2> QED
    BY <2>2, <2>3, <2>4, <2>5, <2>6, <2>7, <2>8, <2>9 DEF LeaseInv
<1>4. ASSUME NEW p \in Procs, AcquireCommit(p) PROVE LeaseInv'
  <2>1. Commits(p)
    BY <1>4, CommitEffect
  <2>2. NoneIsEmpty'
    BY <1>0, <2>1, RunIsProc, RemoteAssumption DEF LeaseInv, NoneIsEmpty, mgr, Commits,
       Others
  <2>3. LeaseIndexed'
    BY <1>0, <2>1, RunIsProc, RemoteAssumption DEF LeaseInv, LeaseIndexed, mgr, IndexLeased,
       Commits, Others
  <2>4. IndexLeased'
    BY <1>0, <2>1, RunIsProc, RemoteAssumption DEF LeaseInv, IndexLeased, TypeOK, mgr,
       LeaseIndexed, Commits, Others
  <2>5. ReleasingIsRun'
    BY <1>0, <2>1, RunIsProc, RemoteAssumption DEF LeaseInv, ReleasingIsRun, mgr, Commits,
       Others
  <2>6. RunReleases'
    BY <1>0, <2>1, RunIsProc, RemoteAssumption DEF LeaseInv, RunReleases, mgr, Commits,
       Others
  <2>7. ExposingUnleased'
    BY <1>0, <2>1, RunIsProc, RemoteAssumption DEF LeaseInv, ExposingUnleased, Exposing,
       mgr, TypeOK, ClaimInv, Claims, Acquiring, Commits, Others
  <2>8. NewIDUnused'
    BY <1>0, <2>1, RunIsProc, RemoteAssumption DEF LeaseInv, NewIDUnused, mgr,
       NewIDsDistinct, Commits, Others
  <2>9. NewIDsDistinct'
    BY <1>0, <2>1, RunIsProc, RemoteAssumption DEF LeaseInv, NewIDsDistinct, Commits, Others
  <2> QED
    BY <2>2, <2>3, <2>4, <2>5, <2>6, <2>7, <2>8, <2>9 DEF LeaseInv
<1>5. ASSUME NEW l \in LeaseIDs, ReleaseBegin(l) PROVE LeaseInv'
  <2>2. CASE UNCHANGED <<mgr, proc, binds, disk, gate, closing, announced>>
    BY <1>0, <2>2 DEF LeaseInv, NoneIsEmpty, LeaseIndexed, IndexLeased, ReleasingIsRun,
       RunReleases, ExposingUnleased, NewIDUnused, NewIDsDistinct, Claims, Acquiring,
       Exposing, Releasing, RunOnly, Bound, ActiveLease, binds, mgr, gate, closing
  <2>3. CASE Releases(l)
    <3>2. NoneIsEmpty'
      BY <1>0, <2>3, RunIsProc, RemoteAssumption DEF LeaseInv, NoneIsEmpty, mgr, Releases,
         Others
    <3>3. LeaseIndexed'
      BY <1>0, <2>3, RunIsProc, RemoteAssumption DEF LeaseInv, LeaseIndexed, mgr,
         IndexLeased, Releases, Others
    <3>4. IndexLeased'
      BY <1>0, <2>3, RunIsProc, RemoteAssumption DEF LeaseInv, IndexLeased, TypeOK, mgr,
         LeaseIndexed, Releases, Others
    <3>5. ReleasingIsRun'
      BY <1>0, <2>3, RunIsProc, RemoteAssumption DEF LeaseInv, ReleasingIsRun, mgr,
         Releases, Others
    <3>6. RunReleases'
      BY <1>0, <2>3, RunIsProc, RemoteAssumption DEF LeaseInv, RunReleases, mgr,
         LeaseIndexed, Releases, Others
    <3>7. ExposingUnleased'
      BY <1>0, <2>3, RunIsProc, RemoteAssumption DEF LeaseInv, ExposingUnleased, Exposing,
         mgr, Releases, Others
    <3>8. NewIDUnused'
      BY <1>0, <2>3, RunIsProc, RemoteAssumption DEF LeaseInv, NewIDUnused, mgr, Releases,
         Others
    <3>9. NewIDsDistinct'
      BY <1>0, <2>3, RunIsProc, RemoteAssumption DEF LeaseInv, NewIDsDistinct, Releases,
         Others
    <3> QED
      BY <3>2, <3>3, <3>4, <3>5, <3>6, <3>7, <3>8, <3>9 DEF LeaseInv
  <2> QED
    BY <1>5, <2>2, <2>3, ReleaseBeginEffect
<1>6. ASSUME NEW c \in Conns, Authed(c) PROVE LeaseInv'
  <2>1. OnlyCounts
    BY <1>6, CountEffect
  <2> QED
    BY <1>0, <2>1, RunIsProc, RemoteAssumption DEF LeaseInv, NoneIsEmpty, LeaseIndexed,
       IndexLeased, ReleasingIsRun, RunReleases, ExposingUnleased, NewIDUnused,
       NewIDsDistinct, Exposing, TypeOK, mgr, Free, NoLease, OnlyCounts
<1>7. ASSUME NEW c \in Conns, ConnEnd(c) PROVE LeaseInv'
  <2>1. OnlyCounts
    BY <1>7, CountEffect
  <2> QED
    BY <1>0, <2>1, RunIsProc, RemoteAssumption DEF LeaseInv, NoneIsEmpty, LeaseIndexed,
       IndexLeased, ReleasingIsRun, RunReleases, ExposingUnleased, NewIDUnused,
       NewIDsDistinct, Exposing, TypeOK, mgr, Free, NoLease, OnlyCounts
<1>8. CASE Tick
  <2>1. Ages
    BY <1>8, TickEffect
  <2>2. NoneIsEmpty'
    BY <1>0, <2>1, RunIsProc, RemoteAssumption DEF LeaseInv, NoneIsEmpty, mgr, Ages
  <2>3. LeaseIndexed'
    BY <1>0, <2>1, RunIsProc, RemoteAssumption DEF LeaseInv, LeaseIndexed, mgr, Ages
  <2>4. IndexLeased'
    BY <1>0, <2>1, RunIsProc, RemoteAssumption DEF LeaseInv, IndexLeased, TypeOK, mgr, Ages
  <2>5. ReleasingIsRun'
    BY <1>0, <2>1, RunIsProc, RemoteAssumption DEF LeaseInv, ReleasingIsRun, mgr, Ages
  <2>6. RunReleases'
    BY <1>0, <2>1, RunIsProc, RemoteAssumption DEF LeaseInv, RunReleases, mgr, Ages
  <2>7. ExposingUnleased'
    BY <1>0, <2>1, RunIsProc, RemoteAssumption DEF LeaseInv, ExposingUnleased, Exposing,
       mgr, Ages
  <2>8. NewIDUnused'
    BY <1>0, <2>1, RunIsProc, RemoteAssumption DEF LeaseInv, NewIDUnused, mgr, Ages
  <2>9. NewIDsDistinct'
    BY <1>0, <2>1, RunIsProc, RemoteAssumption DEF LeaseInv, NewIDsDistinct, Ages
  <2> QED
    BY <2>2, <2>3, <2>4, <2>5, <2>6, <2>7, <2>8, <2>9 DEF LeaseInv
<1> USE <1>0, RemoteAssumption, RunIsProc DEF TypeOK, ClaimInv, LeaseInv, NoneIsEmpty,
        LeaseIndexed, IndexLeased, ReleasingIsRun, RunReleases, ExposingUnleased,
        NewIDUnused, NewIDsDistinct, Claims, Acquiring, Exposing, Releasing, RunOnly, Bound,
        ActiveLease, Free, NoLease, ProcRec, LeaseRec, Grant, binds, mgr, gate, loop,
        closing
<1>9. ASSUME NEW p \in Procs, AcquireConflict(p) PROVE LeaseInv'
  BY <1>9 DEF AcquireConflict, AcquireReturn, At, NoListener
<1>10. ASSUME NEW p \in Procs, UpdateGrant(p) PROVE LeaseInv'
  BY <1>10 DEF UpdateGrant, AcquireReturn, At, NoListener
<1>11. ASSUME NEW p \in Procs, AcquireClaim(p) PROVE LeaseInv'
  BY <1>11 DEF AcquireClaim, Goto
<1>12. ASSUME NEW p \in Procs, CreateBinding(p) PROVE LeaseInv'
  BY <1>12 DEF CreateBinding, Goto
<1>13. ASSUME NEW p \in Procs, AllocateFails(p) PROVE LeaseInv'
  BY <1>13 DEF AllocateFails, Goto
<1>14. ASSUME NEW p \in Procs, SaveBinding(p) PROVE LeaseInv'
  BY <1>14 DEF SaveBinding, Goto
<1>15. ASSUME NEW p \in Procs, SaveBindingFails(p) PROVE LeaseInv'
  BY <1>15 DEF SaveBindingFails, Goto
<1>16. ASSUME NEW p \in Procs, BindFails(p) PROVE LeaseInv'
  BY <1>16 DEF BindFails, Goto
<1>17. ASSUME NEW p \in Procs, RegisterListener(p) PROVE LeaseInv'
  BY <1>17 DEF RegisterListener, Goto
<1>18. ASSUME NEW p \in Procs, AcquireEnd(p) PROVE LeaseInv'
  BY <1>18 DEF AcquireEnd, AcquireReturn, At, NoListener
<1>19. CASE TickBegin
  BY <1>19 DEF TickBegin, Goto
<1>20. CASE RunStops
  BY <1>20 DEF RunStops, Goto
<1>21. ASSUME NEW l \in LeaseIDs, ReconcileKeeps(l) PROVE LeaseInv'
  BY <1>21 DEF ReconcileKeeps
<1>22. CASE Unbind
  BY <1>22 DEF Unbind, NoListener, Goto
<1>23. CASE ReleaseDrop
  BY <1>23 DEF ReleaseDrop, Goto
<1>24. CASE ReleaseSave
  BY <1>24 DEF ReleaseSave, Goto
<1>25. CASE ReleaseEnd
  BY <1>25 DEF ReleaseEnd, At
<1>26. CASE ReconcileBindings
  BY <1>26 DEF ReconcileBindings, SettledStatus, Goto
<1>27. CASE SaveStatus
  BY <1>27 DEF SaveStatus, Goto
<1>28. CASE TickEnd
  BY <1>28 DEF TickEnd, Goto
<1>29. CASE CloseBegin
  BY <1>29 DEF CloseBegin
<1>30. CASE CloseCollect
  BY <1>30 DEF CloseCollect
<1>31. ASSUME NEW d \in Devices, CloseUnbind(d) PROVE LeaseInv'
  BY <1>31 DEF CloseUnbind, NoListener
<1>32. CASE CloseGateway
  BY <1>32 DEF CloseGateway, NoListener
<1>33. CASE CloseSave
  BY <1>33 DEF CloseSave
<1>34. ASSUME NEW c \in Conns, NEW d \in Devices, Accept(c, d) PROVE LeaseInv'
  BY <1>34 DEF Accept
<1>35. ASSUME NEW c \in Conns, Kick(c) PROVE LeaseInv'
  BY <1>35 DEF Kick
<1>36. ASSUME NEW c \in Conns, PeerGone(c) PROVE LeaseInv'
  BY <1>36 DEF PeerGone
<1>37. ASSUME NEW c \in Conns, ConnRemove(c) PROVE LeaseInv'
  BY <1>37 DEF ConnRemove, NoConn
<1>38. ASSUME NEW d \in Devices, DeviceChanges(d) PROVE LeaseInv'
  BY <1>38 DEF DeviceChanges
<1>39. CASE Restart
  BY <1>39 DEF Restart, At, NoLease, NoListener, NoConn, RestoredStatus, RestoredPorts
<1>40. CASE UNCHANGED vars
  BY <1>40 DEF vars
<1> QED
  BY <1>1, <1>2, <1>3, <1>4, <1>5, <1>6, <1>7, <1>8, <1>9, <1>10, <1>11, <1>12, <1>13,
     <1>14, <1>15, <1>16, <1>17, <1>18, <1>19, <1>20, <1>21, <1>22, <1>23, <1>24, <1>25,
     <1>26, <1>27, <1>28, <1>29, <1>30, <1>31, <1>32, <1>33, <1>34, <1>35, <1>36, <1>37,
     <1>38, <1>39, <1>40
     DEF Next, Acquire, Reconcile, Close, Connection

\* A step that only changes a count leaves listeners, leases and processes as they are.
LEMMA CountsKeepListeners == IndInv /\ OnlyCounts => ListenerInv'
<1> SUFFICES ASSUME IndInv, OnlyCounts PROVE ListenerInv'
  OBVIOUS
<1>0. TypeOK /\ ClaimInv /\ LeaseInv /\ ListenerInv
  BY DEF IndInv
<1>1. OnlyCounts
  OBVIOUS
<1>2. PushedGrant'
  BY <1>0, <1>1, RunIsProc, RemoteAssumption DEF ListenerInv, PushedGrant, OnlyCounts
<1>3. NoOrphanListener'
  BY <1>0, <1>1, RunIsProc, RemoteAssumption DEF ListenerInv, NoOrphanListener, TypeOK,
     Bound, ActiveLease, gate, mgr, OnlyCounts
<1>4. UnboundBeforeCommit'
  BY <1>0, <1>1, RunIsProc, RemoteAssumption DEF ListenerInv, UnboundBeforeCommit, TypeOK,
     ClaimInv, Claims, Acquiring, Exposing, Bound, gate, OnlyCounts
<1>5. BoundAtCommit'
  BY <1>0, <1>1, RunIsProc, RemoteAssumption DEF ListenerInv, BoundAtCommit, TypeOK,
     ClaimInv, Claims, Acquiring, Exposing, Bound, gate, closing, OnlyCounts
<1>6. BoundIsLeased'
  BY <1>0, <1>1, RunIsProc, RemoteAssumption DEF ListenerInv, BoundIsLeased, TypeOK,
     ClaimInv, Claims, Acquiring, Exposing, Bound, ActiveLease, gate, mgr, OnlyCounts
<1>7. ReleasedIsUnbound'
  BY <1>0, <1>1, RunIsProc, RemoteAssumption DEF ListenerInv, ReleasedIsUnbound, TypeOK,
     ClaimInv, Claims, Releasing, Bound, gate, OnlyCounts
<1>8. ActiveIsBound'
  BY <1>0, <1>1, RunIsProc, RemoteAssumption DEF ListenerInv, ActiveIsBound, TypeOK,
     Bound, ActiveLease, gate, closing, mgr, OnlyCounts
<1>9. ClosedGateway'
  BY <1>0, <1>1, RunIsProc, RemoteAssumption DEF ListenerInv, ClosedGateway, Bound, gate,
     closing, OnlyCounts
<1>10. SocketsBound'
  BY <1>0, <1>1, RunIsProc, RemoteAssumption DEF ListenerInv, SocketsBound, Bound, gate, OnlyCounts
<1>11. OpenHasLease'
  BY <1>0, <1>1, RunIsProc, RemoteAssumption DEF ListenerInv, OpenHasLease, gate, OnlyCounts
<1> QED
  BY <1>2, <1>3, <1>4, <1>5, <1>6, <1>7, <1>8, <1>9, <1>10, <1>11 DEF ListenerInv

\* Listeners and sockets exist only where a lease or a claim accounts for them.
LEMMA ListenerNext == IndInv /\ [Next]_vars => ListenerInv'
<1> SUFFICES ASSUME IndInv, [Next]_vars PROVE ListenerInv'
  OBVIOUS
<1>0. TypeOK /\ ClaimInv /\ LeaseInv /\ ListenerInv
  BY DEF IndInv
<1>1. ASSUME NEW p \in Procs, NEW d \in Devices, AcquireResolve(p, d) PROVE ListenerInv'
  <2>1. Resolves(p, d)
    BY <1>1, ResolveEffect
  <2>2. PushedGrant'
    BY <1>0, <2>1, RunIsProc, RemoteAssumption DEF ListenerInv, PushedGrant, Resolves, Others
  <2>3. NoOrphanListener'
    BY <1>0, <2>1, RunIsProc, RemoteAssumption DEF ListenerInv, NoOrphanListener, TypeOK,
       Bound, ActiveLease, gate, mgr, Resolves, Others
  <2>4. UnboundBeforeCommit'
    BY <1>0, <2>1, RunIsProc, RemoteAssumption DEF ListenerInv, UnboundBeforeCommit, TypeOK,
       ClaimInv, Claims, Acquiring, Exposing, Bound, gate, Resolves, Others
  <2>5. BoundAtCommit'
    BY <1>0, <2>1, RunIsProc, RemoteAssumption DEF ListenerInv, BoundAtCommit, TypeOK,
       ClaimInv, Claims, Acquiring, Exposing, Bound, gate, closing, Resolves, Others
  <2>6. BoundIsLeased'
    BY <1>0, <2>1, RunIsProc, RemoteAssumption DEF ListenerInv, BoundIsLeased, TypeOK,
       ClaimInv, Claims, Acquiring, Exposing, Bound, ActiveLease, gate, mgr, Resolves, Others
  <2>7. ReleasedIsUnbound'
    BY <1>0, <2>1, RunIsProc, RemoteAssumption DEF ListenerInv, ReleasedIsUnbound, TypeOK,
       ClaimInv, Claims, Releasing, Bound, gate, Resolves, Others
  <2>8. ActiveIsBound'
    BY <1>0, <2>1, RunIsProc, RemoteAssumption DEF ListenerInv, ActiveIsBound, TypeOK,
       Bound, ActiveLease, gate, closing, mgr, Resolves, Others
  <2>9. ClosedGateway'
    BY <1>0, <2>1, RunIsProc, RemoteAssumption DEF ListenerInv, ClosedGateway, Bound, gate,
       closing, Resolves, Others
  <2>10. SocketsBound'
    BY <1>0, <2>1, RunIsProc, RemoteAssumption DEF ListenerInv, SocketsBound, Bound, gate, Resolves, Others
  <2>11. OpenHasLease'
    BY <1>0, <2>1, RunIsProc, RemoteAssumption DEF ListenerInv, OpenHasLease, gate, Resolves, Others
  <2> QED
    BY <2>2, <2>3, <2>4, <2>5, <2>6, <2>7, <2>8, <2>9, <2>10, <2>11 DEF ListenerInv
<1>2. ASSUME NEW p \in Procs, AcquireRenew(p) PROVE ListenerInv'
  <2>1. Renews(p)
    BY <1>2, RenewEffect
  <2>2. PushedGrant'
    BY <1>0, <2>1, RunIsProc, RemoteAssumption DEF ListenerInv, PushedGrant, Renews, Others
  <2>3. NoOrphanListener'
    BY <1>0, <2>1, RunIsProc, RemoteAssumption DEF ListenerInv, NoOrphanListener, TypeOK,
       Bound, ActiveLease, gate, mgr, Renews, Others
  <2>4. UnboundBeforeCommit'
    BY <1>0, <2>1, RunIsProc, RemoteAssumption DEF ListenerInv, UnboundBeforeCommit, TypeOK,
       ClaimInv, Claims, Acquiring, Exposing, Bound, gate, Renews, Others
  <2>5. BoundAtCommit'
    BY <1>0, <2>1, RunIsProc, RemoteAssumption DEF ListenerInv, BoundAtCommit, TypeOK,
       ClaimInv, Claims, Acquiring, Exposing, Bound, gate, closing, Renews, Others
  <2>6. BoundIsLeased'
    BY <1>0, <2>1, RunIsProc, RemoteAssumption DEF ListenerInv, BoundIsLeased, TypeOK,
       ClaimInv, Claims, Acquiring, Exposing, Bound, ActiveLease, gate, mgr, Renews, Others
  <2>7. ReleasedIsUnbound'
    BY <1>0, <2>1, RunIsProc, RemoteAssumption DEF ListenerInv, ReleasedIsUnbound, TypeOK,
       ClaimInv, Claims, Releasing, Bound, gate, Renews, Others
  <2>8. ActiveIsBound'
    BY <1>0, <2>1, RunIsProc, RemoteAssumption DEF ListenerInv, ActiveIsBound, TypeOK,
       Bound, ActiveLease, gate, closing, mgr, Renews, Others
  <2>9. ClosedGateway'
    BY <1>0, <2>1, RunIsProc, RemoteAssumption DEF ListenerInv, ClosedGateway, Bound, gate,
       closing, Renews, Others
  <2>10. SocketsBound'
    BY <1>0, <2>1, RunIsProc, RemoteAssumption DEF ListenerInv, SocketsBound, Bound, gate,
       Renews, Others
  <2>11. OpenHasLease'
    BY <1>0, <2>1, RunIsProc, RemoteAssumption DEF ListenerInv, OpenHasLease, gate, Renews,
       Others
  <2> QED
    BY <2>2, <2>3, <2>4, <2>5, <2>6, <2>7, <2>8, <2>9, <2>10, <2>11 DEF ListenerInv
<1>3. ASSUME NEW p \in Procs, Bind(p) PROVE ListenerInv'
  <2>1. PICK l \in LeaseIDs : Binds(p, l)
    BY <1>3, BindEffect
  <2> QED
    BY <1>0, <2>1, RunIsProc, RemoteAssumption DEF ListenerInv, PushedGrant,
       NoOrphanListener, UnboundBeforeCommit, BoundAtCommit, BoundIsLeased,
       ReleasedIsUnbound, ActiveIsBound, ClosedGateway, SocketsBound, OpenHasLease,
       Exposing, Releasing, Bound, ActiveLease, mgr, gate, closing, Binds, Others
<1>4. ASSUME NEW p \in Procs, AcquireCommit(p) PROVE ListenerInv'
  <2>1. Commits(p)
    BY <1>4, CommitEffect
  <2>2. PushedGrant'
    BY <1>0, <2>1, RunIsProc, RemoteAssumption DEF ListenerInv, PushedGrant, Commits, Others
  <2>3. NoOrphanListener'
    BY <1>0, <2>1, RunIsProc, RemoteAssumption DEF ListenerInv, NoOrphanListener, TypeOK,
       Bound, ActiveLease, gate, mgr, LeaseInv, IndexLeased, ClaimInv, Claims, Acquiring,
       Commits, Others
  <2>4. UnboundBeforeCommit'
    BY <1>0, <2>1, RunIsProc, RemoteAssumption DEF ListenerInv, UnboundBeforeCommit, TypeOK,
       ClaimInv, Claims, Acquiring, Exposing, Bound, gate, Commits, Others
  <2>5. BoundAtCommit'
    BY <1>0, <2>1, RunIsProc, RemoteAssumption DEF ListenerInv, BoundAtCommit, TypeOK,
       ClaimInv, Claims, Acquiring, Exposing, Bound, gate, closing, Commits, Others
  <2>6. BoundIsLeased'
    BY <1>0, <2>1, RunIsProc, RemoteAssumption DEF ListenerInv, BoundIsLeased, TypeOK,
       ClaimInv, Claims, Acquiring, Exposing, Bound, ActiveLease, gate, mgr, LeaseInv,
       IndexLeased, Commits, Others
  <2>7. ReleasedIsUnbound'
    BY <1>0, <2>1, RunIsProc, RemoteAssumption DEF ListenerInv, ReleasedIsUnbound, TypeOK,
       ClaimInv, Claims, Releasing, Bound, gate, Commits, Others
  <2>8. ActiveIsBound'
    BY <1>0, <2>1, RunIsProc, RemoteAssumption DEF ListenerInv, ActiveIsBound, TypeOK,
       Bound, ActiveLease, gate, closing, mgr, IndexLeased, LeaseInv, BoundAtCommit,
       Commits, Others
  <2>9. ClosedGateway'
    BY <1>0, <2>1, RunIsProc, RemoteAssumption DEF ListenerInv, ClosedGateway, Bound, gate,
       closing, Commits, Others
  <2>10. SocketsBound'
    BY <1>0, <2>1, RunIsProc, RemoteAssumption DEF ListenerInv, SocketsBound, Bound, gate,
       Commits, Others
  <2>11. OpenHasLease'
    BY <1>0, <2>1, RunIsProc, RemoteAssumption DEF ListenerInv, OpenHasLease, gate, Commits,
       Others
  <2> QED
    BY <2>2, <2>3, <2>4, <2>5, <2>6, <2>7, <2>8, <2>9, <2>10, <2>11 DEF ListenerInv
<1>5. ASSUME NEW l \in LeaseIDs, ReleaseBegin(l) PROVE ListenerInv'
  <2>2. CASE UNCHANGED <<mgr, proc, binds, disk, gate, closing, announced>>
    BY <1>0, <2>2 DEF LeaseInv, NoneIsEmpty, LeaseIndexed, IndexLeased, ReleasingIsRun,
       RunReleases, ExposingUnleased, NewIDUnused, NewIDsDistinct, ListenerInv, PushedGrant,
       NoOrphanListener, UnboundBeforeCommit, BoundAtCommit, BoundIsLeased,
       ReleasedIsUnbound, ActiveIsBound, ClosedGateway, SocketsBound, OpenHasLease, Claims,
       Acquiring, Exposing, Releasing, RunOnly, Bound, ActiveLease, binds, mgr, gate,
       closing
  <2>3. CASE Releases(l)
    <3>2. PushedGrant'
      BY <1>0, <2>3, RunIsProc, RemoteAssumption DEF ListenerInv, PushedGrant, Releases,
         Others
    <3>3. NoOrphanListener'
      BY <1>0, <2>3, RunIsProc, RemoteAssumption DEF ListenerInv, NoOrphanListener, TypeOK,
         Bound, ActiveLease, gate, mgr, IndexLeased, LeaseInv, Releases, Others
    <3>4. UnboundBeforeCommit'
      BY <1>0, <2>3, RunIsProc, RemoteAssumption DEF ListenerInv, UnboundBeforeCommit,
         TypeOK, ClaimInv, Claims, Acquiring, Exposing, Bound, gate, Releases, Others
    <3>5. BoundAtCommit'
      BY <1>0, <2>3, RunIsProc, RemoteAssumption DEF ListenerInv, BoundAtCommit, TypeOK,
         ClaimInv, Claims, Acquiring, Exposing, Bound, gate, closing, Releases, Others
    <3>6. BoundIsLeased'
      BY <1>0, <2>3, RunIsProc, RemoteAssumption DEF ListenerInv, BoundIsLeased, TypeOK,
         ClaimInv, Claims, Acquiring, Exposing, Bound, ActiveLease, gate, mgr, IndexLeased,
         LeaseInv, Releases, Others
    <3>7. ReleasedIsUnbound'
      BY <1>0, <2>3, RunIsProc, RemoteAssumption DEF ListenerInv, ReleasedIsUnbound, TypeOK,
         ClaimInv, Claims, Releasing, Bound, gate, Releases, Others
    <3>8. ActiveIsBound'
      BY <1>0, <2>3, RunIsProc, RemoteAssumption DEF ListenerInv, ActiveIsBound, TypeOK,
         Bound, ActiveLease, gate, closing, mgr, IndexLeased, LeaseInv, Releases, Others
    <3>9. ClosedGateway'
      BY <1>0, <2>3, RunIsProc, RemoteAssumption DEF ListenerInv, ClosedGateway, Bound,
         gate, closing, Releases, Others
    <3>10. SocketsBound'
      BY <1>0, <2>3, RunIsProc, RemoteAssumption DEF ListenerInv, SocketsBound, Bound, gate,
         Releases, Others
    <3>11. OpenHasLease'
      BY <1>0, <2>3, RunIsProc, RemoteAssumption DEF ListenerInv, OpenHasLease, gate,
         Releases, Others
    <3> QED
      BY <3>2, <3>3, <3>4, <3>5, <3>6, <3>7, <3>8, <3>9, <3>10, <3>11 DEF ListenerInv
  <2> QED
    BY <1>5, <2>2, <2>3, ReleaseBeginEffect
<1>6. CASE Unbind
  <2>0. CloseSockets({proc[Run].dev})
    BY <1>6 DEF Unbind
  <2>1. Closes({proc[Run].dev})
    BY <2>0, CloseSocketsEffect
  <2>2. PushedGrant'
    BY <1>6, <1>0, <2>1, RunIsProc, RemoteAssumption DEF ListenerInv, PushedGrant, TypeOK,
       Closes, Unbind, NoListener, Goto
  <2>3. NoOrphanListener'
    BY <1>6, <1>0, <2>1, RunIsProc, RemoteAssumption DEF ListenerInv, NoOrphanListener,
       TypeOK, Bound, ActiveLease, gate, mgr, ClaimInv, Claims, Closes, Unbind, NoListener,
       Goto
  <2>4. UnboundBeforeCommit'
    BY <1>6, <1>0, <2>1, RunIsProc, RemoteAssumption DEF ListenerInv, UnboundBeforeCommit,
       TypeOK, ClaimInv, Claims, Acquiring, Exposing, Bound, gate, Closes, Unbind,
       NoListener, Goto
  <2>5. BoundAtCommit'
    BY <1>6, <1>0, <2>1, RunIsProc, RemoteAssumption DEF ListenerInv, BoundAtCommit, TypeOK,
       ClaimInv, Claims, Acquiring, Exposing, Bound, gate, closing, Releasing, Closes,
       Unbind, NoListener, Goto
  <2>6. BoundIsLeased'
    BY <1>6, <1>0, <2>1, RunIsProc, RemoteAssumption DEF ListenerInv, BoundIsLeased, TypeOK,
       ClaimInv, Claims, Acquiring, Exposing, Bound, ActiveLease, gate, mgr, Closes, Unbind,
       NoListener, Goto
  <2>7. ReleasedIsUnbound'
    BY <1>6, <1>0, <2>1, RunIsProc, RemoteAssumption DEF ListenerInv, ReleasedIsUnbound,
       TypeOK, ClaimInv, Claims, Releasing, Bound, gate, Closes, Unbind, NoListener, Goto
  <2>8. ActiveIsBound'
    BY <1>6, <1>0, <2>1, RunIsProc, RemoteAssumption DEF ListenerInv, ActiveIsBound, TypeOK,
       Bound, ActiveLease, gate, closing, mgr, LeaseInv, RunReleases, LeaseIndexed, Closes,
       Unbind, NoListener, Goto
  <2>9. ClosedGateway'
    BY <1>6, <1>0, <2>1, RunIsProc, RemoteAssumption DEF ListenerInv, ClosedGateway, Bound,
       gate, closing, TypeOK, Closes, Unbind, NoListener, Goto
  <2>10. SocketsBound'
    BY <1>6, <1>0, <2>1, RunIsProc, RemoteAssumption DEF ListenerInv, SocketsBound, Bound,
       gate, TypeOK, Closes, Unbind, NoListener, Goto
  <2>11. OpenHasLease'
    BY <1>6, <1>0, <2>1, RunIsProc, RemoteAssumption DEF ListenerInv, OpenHasLease, gate,
       TypeOK, Closes, Unbind, NoListener, Goto
  <2> QED
    BY <2>2, <2>3, <2>4, <2>5, <2>6, <2>7, <2>8, <2>9, <2>10, <2>11 DEF ListenerInv
<1>7. ASSUME NEW d \in Devices, CloseUnbind(d) PROVE ListenerInv'
  <2>0. CloseSockets({d})
    BY <1>7 DEF CloseUnbind
  <2>1. Closes({d})
    BY <2>0, CloseSocketsEffect
  <2>2. PushedGrant'
    BY <1>7, <1>0, <2>1, RunIsProc, RemoteAssumption DEF ListenerInv, PushedGrant, TypeOK,
       Closes, CloseUnbind, NoListener
  <2>3. NoOrphanListener'
    BY <1>7, <1>0, <2>1, RunIsProc, RemoteAssumption DEF ListenerInv, NoOrphanListener,
       TypeOK, Bound, ActiveLease, gate, mgr, Closes, CloseUnbind, NoListener
  <2>4. UnboundBeforeCommit'
    BY <1>7, <1>0, <2>1, RunIsProc, RemoteAssumption DEF ListenerInv, UnboundBeforeCommit,
       TypeOK, ClaimInv, Claims, Acquiring, Exposing, Bound, gate, Closes, CloseUnbind,
       NoListener
  <2>5. BoundAtCommit'
    BY <1>7, <1>0, <2>1, RunIsProc, RemoteAssumption DEF ListenerInv, BoundAtCommit, TypeOK,
       ClaimInv, Claims, Acquiring, Exposing, Bound, gate, closing, Closes, CloseUnbind,
       NoListener
  <2>6. BoundIsLeased'
    BY <1>7, <1>0, <2>1, RunIsProc, RemoteAssumption DEF ListenerInv, BoundIsLeased, TypeOK,
       ClaimInv, Claims, Acquiring, Exposing, Bound, ActiveLease, gate, mgr, Closes,
       CloseUnbind, NoListener
  <2>7. ReleasedIsUnbound'
    BY <1>7, <1>0, <2>1, RunIsProc, RemoteAssumption DEF ListenerInv, ReleasedIsUnbound,
       TypeOK, ClaimInv, Claims, Releasing, Bound, gate, Closes, CloseUnbind, NoListener
  <2>8. ActiveIsBound'
    BY <1>7, <1>0, <2>1, RunIsProc, RemoteAssumption DEF ListenerInv, ActiveIsBound, TypeOK,
       Bound, ActiveLease, gate, closing, mgr, Closes, CloseUnbind, NoListener
  <2>9. ClosedGateway'
    BY <1>7, <1>0, <2>1, RunIsProc, RemoteAssumption DEF ListenerInv, ClosedGateway, Bound,
       gate, closing, TypeOK, Closes, CloseUnbind, NoListener
  <2>10. SocketsBound'
    BY <1>7, <1>0, <2>1, RunIsProc, RemoteAssumption DEF ListenerInv, SocketsBound, Bound,
       gate, TypeOK, Closes, CloseUnbind, NoListener
  <2>11. OpenHasLease'
    BY <1>7, <1>0, <2>1, RunIsProc, RemoteAssumption DEF ListenerInv, OpenHasLease, gate,
       TypeOK, Closes, CloseUnbind, NoListener
  <2> QED
    BY <2>2, <2>3, <2>4, <2>5, <2>6, <2>7, <2>8, <2>9, <2>10, <2>11 DEF ListenerInv
<1>8. CASE CloseGateway
  <2>0. CloseSockets(Devices)
    BY <1>8 DEF CloseGateway
  <2>1. Closes(Devices)
    BY <2>0, CloseSocketsEffect
  <2>2. PushedGrant'
    BY <1>8, <1>0, <2>1, RunIsProc, RemoteAssumption DEF ListenerInv, PushedGrant, TypeOK,
       Closes, CloseGateway, NoListener
  <2>3. NoOrphanListener'
    BY <1>8, <1>0, <2>1, RunIsProc, RemoteAssumption DEF ListenerInv, NoOrphanListener,
       TypeOK, Bound, ActiveLease, gate, mgr, Closes, CloseGateway, NoListener
  <2>4. UnboundBeforeCommit'
    BY <1>8, <1>0, <2>1, RunIsProc, RemoteAssumption DEF ListenerInv, UnboundBeforeCommit,
       TypeOK, ClaimInv, Claims, Acquiring, Exposing, Bound, gate, Closes, CloseGateway,
       NoListener
  <2>5. BoundAtCommit'
    BY <1>8, <1>0, <2>1, RunIsProc, RemoteAssumption DEF ListenerInv, BoundAtCommit, TypeOK,
       ClaimInv, Claims, Acquiring, Exposing, Bound, gate, closing, Closes, CloseGateway,
       NoListener
  <2>6. BoundIsLeased'
    BY <1>8, <1>0, <2>1, RunIsProc, RemoteAssumption DEF ListenerInv, BoundIsLeased, TypeOK,
       ClaimInv, Claims, Acquiring, Exposing, Bound, ActiveLease, gate, mgr, Closes,
       CloseGateway, NoListener
  <2>7. ReleasedIsUnbound'
    BY <1>8, <1>0, <2>1, RunIsProc, RemoteAssumption DEF ListenerInv, ReleasedIsUnbound,
       TypeOK, ClaimInv, Claims, Releasing, Bound, gate, Closes, CloseGateway, NoListener
  <2>8. ActiveIsBound'
    BY <1>8, <1>0, <2>1, RunIsProc, RemoteAssumption DEF ListenerInv, ActiveIsBound, TypeOK,
       Bound, ActiveLease, gate, closing, mgr, Closes, CloseGateway, NoListener
  <2>9. ClosedGateway'
    BY <1>8, <1>0, <2>1, RunIsProc, RemoteAssumption DEF ListenerInv, ClosedGateway, Bound,
       gate, closing, TypeOK, Closes, CloseGateway, NoListener
  <2>10. SocketsBound'
    BY <1>8, <1>0, <2>1, RunIsProc, RemoteAssumption DEF ListenerInv, SocketsBound, Bound,
       gate, TypeOK, Closes, CloseGateway, NoListener
  <2>11. OpenHasLease'
    BY <1>8, <1>0, <2>1, RunIsProc, RemoteAssumption DEF ListenerInv, OpenHasLease, gate,
       TypeOK, Closes, CloseGateway, NoListener
  <2> QED
    BY <2>2, <2>3, <2>4, <2>5, <2>6, <2>7, <2>8, <2>9, <2>10, <2>11 DEF ListenerInv
<1>9. ASSUME NEW c \in Conns, Authed(c) PROVE ListenerInv'
  <2>1. OnlyCounts
    BY <1>9, CountEffect
  <2> QED
    BY <2>1, CountsKeepListeners
<1>10. ASSUME NEW c \in Conns, ConnEnd(c) PROVE ListenerInv'
  <2>1. OnlyCounts
    BY <1>10, CountEffect
  <2> QED
    BY <2>1, CountsKeepListeners
<1>11. CASE Tick
  <2>1. Ages
    BY <1>11, TickEffect
  <2>2. PushedGrant'
    BY <1>0, <2>1, RunIsProc, RemoteAssumption DEF ListenerInv, PushedGrant, Ages
  <2>3. NoOrphanListener'
    BY <1>0, <2>1, RunIsProc, RemoteAssumption DEF ListenerInv, NoOrphanListener, TypeOK,
       Bound, ActiveLease, gate, mgr, Ages
  <2>4. UnboundBeforeCommit'
    BY <1>0, <2>1, RunIsProc, RemoteAssumption DEF ListenerInv, UnboundBeforeCommit, TypeOK,
       ClaimInv, Claims, Acquiring, Exposing, Bound, gate, Ages
  <2>5. BoundAtCommit'
    BY <1>0, <2>1, RunIsProc, RemoteAssumption DEF ListenerInv, BoundAtCommit, TypeOK,
       ClaimInv, Claims, Acquiring, Exposing, Bound, gate, closing, Ages
  <2>6. BoundIsLeased'
    BY <1>0, <2>1, RunIsProc, RemoteAssumption DEF ListenerInv, BoundIsLeased, TypeOK,
       ClaimInv, Claims, Acquiring, Exposing, Bound, ActiveLease, gate, mgr, Ages
  <2>7. ReleasedIsUnbound'
    BY <1>0, <2>1, RunIsProc, RemoteAssumption DEF ListenerInv, ReleasedIsUnbound, TypeOK,
       ClaimInv, Claims, Releasing, Bound, gate, Ages
  <2>8. ActiveIsBound'
    BY <1>0, <2>1, RunIsProc, RemoteAssumption DEF ListenerInv, ActiveIsBound, TypeOK,
       Bound, ActiveLease, gate, closing, mgr, Ages
  <2>9. ClosedGateway'
    BY <1>0, <2>1, RunIsProc, RemoteAssumption DEF ListenerInv, ClosedGateway, Bound, gate,
       closing, Ages
  <2>10. SocketsBound'
    BY <1>0, <2>1, RunIsProc, RemoteAssumption DEF ListenerInv, SocketsBound, Bound, gate,
       Ages
  <2>11. OpenHasLease'
    BY <1>0, <2>1, RunIsProc, RemoteAssumption DEF ListenerInv, OpenHasLease, gate, Ages
  <2> QED
    BY <2>2, <2>3, <2>4, <2>5, <2>6, <2>7, <2>8, <2>9, <2>10, <2>11 DEF ListenerInv
<1> USE <1>0, RemoteAssumption, RunIsProc DEF TypeOK, ClaimInv, LeaseInv, NoneIsEmpty,
        LeaseIndexed, IndexLeased, ReleasingIsRun, RunReleases, ExposingUnleased,
        NewIDUnused, NewIDsDistinct, ListenerInv, PushedGrant, NoOrphanListener,
        UnboundBeforeCommit, BoundAtCommit, BoundIsLeased, ReleasedIsUnbound, ActiveIsBound,
        ClosedGateway, SocketsBound, OpenHasLease, Claims, Acquiring, Exposing, Releasing,
        RunOnly, Bound, ActiveLease, ProcRec, LeaseRec, Grant, binds, mgr, gate, loop,
        closing
<1>12. ASSUME NEW p \in Procs, AcquireConflict(p) PROVE ListenerInv'
  BY <1>12 DEF AcquireConflict, AcquireReturn, At, NoListener
<1>13. ASSUME NEW p \in Procs, UpdateGrant(p) PROVE ListenerInv'
  BY <1>13 DEF UpdateGrant, AcquireReturn, At, NoListener
<1>14. ASSUME NEW p \in Procs, AcquireClaim(p) PROVE ListenerInv'
  BY <1>14 DEF AcquireClaim, Goto
<1>15. ASSUME NEW p \in Procs, CreateBinding(p) PROVE ListenerInv'
  BY <1>15 DEF CreateBinding, Goto
<1>16. ASSUME NEW p \in Procs, AllocateFails(p) PROVE ListenerInv'
  BY <1>16 DEF AllocateFails, Goto
<1>17. ASSUME NEW p \in Procs, SaveBinding(p) PROVE ListenerInv'
  BY <1>17 DEF SaveBinding, Goto
<1>18. ASSUME NEW p \in Procs, SaveBindingFails(p) PROVE ListenerInv'
  BY <1>18 DEF SaveBindingFails, Goto
<1>19. ASSUME NEW p \in Procs, BindFails(p) PROVE ListenerInv'
  BY <1>19 DEF BindFails, Goto
<1>20. ASSUME NEW p \in Procs, RegisterListener(p) PROVE ListenerInv'
  BY <1>20 DEF RegisterListener, Goto
<1>21. ASSUME NEW p \in Procs, AcquireEnd(p) PROVE ListenerInv'
  BY <1>21 DEF AcquireEnd, AcquireReturn, At, NoListener
<1>22. CASE TickBegin
  BY <1>22 DEF TickBegin, Goto
<1>23. CASE RunStops
  BY <1>23 DEF RunStops, Goto
<1>24. ASSUME NEW l \in LeaseIDs, ReconcileKeeps(l) PROVE ListenerInv'
  BY <1>24 DEF ReconcileKeeps
<1>25. CASE ReleaseDrop
  BY <1>25 DEF ReleaseDrop, Goto
<1>26. CASE ReleaseSave
  BY <1>26 DEF ReleaseSave, Goto
<1>27. CASE ReleaseEnd
  BY <1>27 DEF ReleaseEnd, At
<1>28. CASE ReconcileBindings
  BY <1>28 DEF ReconcileBindings, SettledStatus, Goto
<1>29. CASE SaveStatus
  BY <1>29 DEF SaveStatus, Goto
<1>30. CASE TickEnd
  BY <1>30 DEF TickEnd, Goto
<1>31. CASE CloseBegin
  BY <1>31 DEF CloseBegin
<1>32. CASE CloseCollect
  BY <1>32 DEF CloseCollect
<1>33. CASE CloseSave
  BY <1>33 DEF CloseSave
<1>34. ASSUME NEW c \in Conns, NEW d \in Devices, Accept(c, d) PROVE ListenerInv'
  BY <1>34 DEF Accept
<1>35. ASSUME NEW c \in Conns, Kick(c) PROVE ListenerInv'
  BY <1>35 DEF Kick
<1>36. ASSUME NEW c \in Conns, PeerGone(c) PROVE ListenerInv'
  BY <1>36 DEF PeerGone
<1>37. ASSUME NEW c \in Conns, ConnRemove(c) PROVE ListenerInv'
  BY <1>37 DEF ConnRemove, NoConn
<1>38. ASSUME NEW d \in Devices, DeviceChanges(d) PROVE ListenerInv'
  BY <1>38 DEF DeviceChanges
<1>39. CASE Restart
  BY <1>39 DEF Restart, At, NoLease, NoListener, NoConn, RestoredStatus, RestoredPorts
<1>40. CASE UNCHANGED vars
  BY <1>40 DEF vars
<1> QED
  BY <1>1, <1>2, <1>3, <1>4, <1>5, <1>6, <1>7, <1>8, <1>9, <1>10, <1>11, <1>12, <1>13,
     <1>14, <1>15, <1>16, <1>17, <1>18, <1>19, <1>20, <1>21, <1>22, <1>23, <1>24, <1>25,
     <1>26, <1>27, <1>28, <1>29, <1>30, <1>31, <1>32, <1>33, <1>34, <1>35, <1>36, <1>37,
     <1>38, <1>39, <1>40
     DEF Next, Acquire, Reconcile, Close, Connection

\* A binding reaches the disk before anything is exposed under its port.
LEMMA BindingNext == IndInv /\ [Next]_vars => BindingInv'
<1> SUFFICES ASSUME IndInv, [Next]_vars PROVE BindingInv'
  OBVIOUS
<1>0. TypeOK /\ ClaimInv /\ LeaseInv /\ BindingInv /\ StablePort
  BY DEF IndInv
<1>1. ASSUME NEW p \in Procs, NEW d \in Devices, AcquireResolve(p, d) PROVE BindingInv'
  <2>1. Resolves(p, d)
    BY <1>1, ResolveEffect
  <2> QED
    BY <1>0, <2>1, RunIsProc, RemoteAssumption DEF BindingInv, ClaimInv, Claims, Acquiring,
       Exposing, TypeOK, binds, Resolves, Others
<1>2. ASSUME NEW p \in Procs, AcquireRenew(p) PROVE BindingInv'
  <2>1. Renews(p)
    BY <1>2, RenewEffect
  <2> QED
    BY <1>0, <2>1, RunIsProc, RemoteAssumption DEF BindingInv, ClaimInv, Claims, Acquiring,
       Exposing, TypeOK, binds, Renews, Others
<1>3. ASSUME NEW p \in Procs, Bind(p) PROVE BindingInv'
  <2>1. PICK l \in LeaseIDs : Binds(p, l)
    BY <1>3, BindEffect
  <2> QED
    BY <1>0, <2>1, RunIsProc, RemoteAssumption DEF BindingInv, ClaimInv, Claims, Acquiring,
       Exposing, TypeOK, binds, Binds, Others
<1>4. ASSUME NEW p \in Procs, AcquireCommit(p) PROVE BindingInv'
  <2>1. Commits(p)
    BY <1>4, CommitEffect
  <2> QED
    BY <1>0, <2>1, RunIsProc, RemoteAssumption DEF BindingInv, ClaimInv, Claims, Acquiring,
       Exposing, TypeOK, binds, Commits, Others
<1>5. ASSUME NEW l \in LeaseIDs, ReleaseBegin(l) PROVE BindingInv'
  <2>2. CASE UNCHANGED <<mgr, proc, binds, disk, gate, closing, announced>>
    BY <1>0, <2>2 DEF LeaseInv, NoneIsEmpty, LeaseIndexed, IndexLeased, ReleasingIsRun,
       RunReleases, ExposingUnleased, NewIDUnused, NewIDsDistinct, BindingInv, StablePort,
       Claims, Acquiring, Exposing, Releasing, RunOnly, binds, mgr, gate, closing
  <2>3. CASE Releases(l)
    <3> QED
      BY <1>0, <2>3, RunIsProc, RemoteAssumption DEF BindingInv, ClaimInv, Claims,
         Acquiring, Exposing, TypeOK, binds, Releases, Others
  <2> QED
    BY <1>5, <2>2, <2>3, ReleaseBeginEffect
<1>6. ASSUME NEW c \in Conns, Authed(c) PROVE BindingInv'
  <2>1. OnlyCounts
    BY <1>6, CountEffect
  <2> QED
    BY <1>0, <2>1, RunIsProc, RemoteAssumption DEF BindingInv, ClaimInv, Claims, Acquiring,
       Exposing, TypeOK, binds, OnlyCounts
<1>7. ASSUME NEW c \in Conns, ConnEnd(c) PROVE BindingInv'
  <2>1. OnlyCounts
    BY <1>7, CountEffect
  <2> QED
    BY <1>0, <2>1, RunIsProc, RemoteAssumption DEF BindingInv, ClaimInv, Claims, Acquiring,
       Exposing, TypeOK, binds, OnlyCounts
<1>8. CASE Tick
  <2>1. Ages
    BY <1>8, TickEffect
  <2> QED
    BY <1>0, <2>1, RunIsProc, RemoteAssumption DEF BindingInv, binds, Ages
<1> USE <1>0, RemoteAssumption, RunIsProc DEF TypeOK, ClaimInv, LeaseInv, NoneIsEmpty,
        LeaseIndexed, IndexLeased, ReleasingIsRun, RunReleases, ExposingUnleased,
        NewIDUnused, NewIDsDistinct, BindingInv, StablePort, Claims, Acquiring, Exposing,
        Releasing, RunOnly, ProcRec, binds, mgr, gate, loop, closing
<1>9. ASSUME NEW p \in Procs, AcquireConflict(p) PROVE BindingInv'
  BY <1>9 DEF AcquireConflict, AcquireReturn, At, NoListener
<1>10. ASSUME NEW p \in Procs, UpdateGrant(p) PROVE BindingInv'
  BY <1>10 DEF UpdateGrant, AcquireReturn, At, NoListener
<1>11. ASSUME NEW p \in Procs, AcquireClaim(p) PROVE BindingInv'
  BY <1>11 DEF AcquireClaim, Goto
<1>12. ASSUME NEW p \in Procs, CreateBinding(p) PROVE BindingInv'
  BY <1>12 DEF CreateBinding, Goto
<1>13. ASSUME NEW p \in Procs, AllocateFails(p) PROVE BindingInv'
  BY <1>13 DEF AllocateFails, Goto
<1>14. ASSUME NEW p \in Procs, SaveBinding(p) PROVE BindingInv'
  BY <1>14 DEF SaveBinding, Goto
<1>15. ASSUME NEW p \in Procs, SaveBindingFails(p) PROVE BindingInv'
  BY <1>15 DEF SaveBindingFails, Goto
<1>16. ASSUME NEW p \in Procs, BindFails(p) PROVE BindingInv'
  BY <1>16 DEF BindFails, Goto
<1>17. ASSUME NEW p \in Procs, RegisterListener(p) PROVE BindingInv'
  BY <1>17 DEF RegisterListener, Goto
<1>18. ASSUME NEW p \in Procs, AcquireEnd(p) PROVE BindingInv'
  BY <1>18 DEF AcquireEnd, AcquireReturn, At, NoListener
<1>19. CASE TickBegin
  BY <1>19 DEF TickBegin, Goto
<1>20. CASE RunStops
  BY <1>20 DEF RunStops, Goto
<1>21. ASSUME NEW l \in LeaseIDs, ReconcileKeeps(l) PROVE BindingInv'
  BY <1>21 DEF ReconcileKeeps
<1>22. CASE Unbind
  BY <1>22 DEF Unbind, NoListener, Goto
<1>23. CASE ReleaseDrop
  BY <1>23 DEF ReleaseDrop, Goto
<1>24. CASE ReleaseSave
  BY <1>24 DEF ReleaseSave, Goto
<1>25. CASE ReleaseEnd
  BY <1>25 DEF ReleaseEnd, At
<1>26. CASE ReconcileBindings
  BY <1>26 DEF ReconcileBindings, SettledStatus, Goto
<1>27. CASE SaveStatus
  BY <1>27 DEF SaveStatus, Goto
<1>28. CASE TickEnd
  BY <1>28 DEF TickEnd, Goto
<1>29. CASE CloseBegin
  BY <1>29 DEF CloseBegin
<1>30. CASE CloseCollect
  BY <1>30 DEF CloseCollect
<1>31. ASSUME NEW d \in Devices, CloseUnbind(d) PROVE BindingInv'
  BY <1>31 DEF CloseUnbind, NoListener
<1>32. CASE CloseGateway
  BY <1>32 DEF CloseGateway, NoListener
<1>33. CASE CloseSave
  BY <1>33 DEF CloseSave
<1>34. ASSUME NEW c \in Conns, NEW d \in Devices, Accept(c, d) PROVE BindingInv'
  BY <1>34 DEF Accept
<1>35. ASSUME NEW c \in Conns, Kick(c) PROVE BindingInv'
  BY <1>35 DEF Kick
<1>36. ASSUME NEW c \in Conns, PeerGone(c) PROVE BindingInv'
  BY <1>36 DEF PeerGone
<1>37. ASSUME NEW c \in Conns, ConnRemove(c) PROVE BindingInv'
  BY <1>37 DEF ConnRemove, NoConn
<1>38. ASSUME NEW d \in Devices, DeviceChanges(d) PROVE BindingInv'
  BY <1>38 DEF DeviceChanges
<1>39. CASE Restart
  BY <1>39 DEF Restart, At, NoLease, NoListener, NoConn, RestoredStatus, RestoredPorts
<1>40. CASE UNCHANGED vars
  BY <1>40 DEF vars
<1> QED
  BY <1>1, <1>2, <1>3, <1>4, <1>5, <1>6, <1>7, <1>8, <1>9, <1>10, <1>11, <1>12, <1>13,
     <1>14, <1>15, <1>16, <1>17, <1>18, <1>19, <1>20, <1>21, <1>22, <1>23, <1>24, <1>25,
     <1>26, <1>27, <1>28, <1>29, <1>30, <1>31, <1>32, <1>33, <1>34, <1>35, <1>36, <1>37,
     <1>38, <1>39, <1>40
     DEF Next, Acquire, Reconcile, Close, Connection

\* The status of a binding follows its lease.
LEMMA ListeningNext == IndInv /\ [Next]_vars => ListeningIffLeased'
<1> SUFFICES ASSUME IndInv, [Next]_vars PROVE ListeningIffLeased'
  OBVIOUS
<1>0. TypeOK /\ ClaimInv /\ LeaseInv /\ BindingInv /\ ListeningIffLeased
  BY DEF IndInv
<1>1. ASSUME NEW p \in Procs, NEW d \in Devices, AcquireResolve(p, d) PROVE ListeningIffLeased'
  <2>1. Resolves(p, d)
    BY <1>1, ResolveEffect
  <2> QED
    BY <1>0, <2>1, RunIsProc, RemoteAssumption DEF ListeningIffLeased, TypeOK, binds, mgr, Resolves, Others
<1>2. ASSUME NEW p \in Procs, AcquireRenew(p) PROVE ListeningIffLeased'
  <2>1. Renews(p)
    BY <1>2, RenewEffect
  <2> QED
    BY <1>0, <2>1, RunIsProc, RemoteAssumption DEF ListeningIffLeased, TypeOK, binds, mgr,
       Renews, Others
<1>3. ASSUME NEW p \in Procs, Bind(p) PROVE ListeningIffLeased'
  <2>1. PICK l \in LeaseIDs : Binds(p, l)
    BY <1>3, BindEffect
  <2> QED
    BY <1>0, <2>1, RunIsProc, RemoteAssumption DEF ListeningIffLeased, TypeOK, binds, mgr,
       Binds, Others
<1>4. ASSUME NEW p \in Procs, AcquireCommit(p) PROVE ListeningIffLeased'
  <2>1. Commits(p)
    BY <1>4, CommitEffect
  <2> QED
    BY <1>0, <2>1, RunIsProc, RemoteAssumption DEF ListeningIffLeased, TypeOK, binds, mgr,
       Commits, Others
<1>5. ASSUME NEW l \in LeaseIDs, ReleaseBegin(l) PROVE ListeningIffLeased'
  <2>2. CASE UNCHANGED <<mgr, proc, binds, disk, gate, closing, announced>>
    BY <1>0, <2>2 DEF LeaseInv, NoneIsEmpty, LeaseIndexed, IndexLeased, ReleasingIsRun,
       RunReleases, ExposingUnleased, NewIDUnused, NewIDsDistinct, BindingInv,
       ListeningIffLeased, Claims, Acquiring, Exposing, Releasing, RunOnly, ActiveLease,
       binds, mgr, gate, closing
  <2>3. CASE Releases(l)
    <3> QED
      BY <1>0, <2>3, RunIsProc, RemoteAssumption DEF ListeningIffLeased, TypeOK, binds, mgr,
         Releases, Others
  <2> QED
    BY <1>5, <2>2, <2>3, ReleaseBeginEffect
<1>6. ASSUME NEW c \in Conns, Authed(c) PROVE ListeningIffLeased'
  <2>1. OnlyCounts
    BY <1>6, CountEffect
  <2> QED
    BY <1>0, <2>1, RunIsProc, RemoteAssumption DEF ListeningIffLeased, TypeOK, binds, mgr,
       OnlyCounts
<1>7. ASSUME NEW c \in Conns, ConnEnd(c) PROVE ListeningIffLeased'
  <2>1. OnlyCounts
    BY <1>7, CountEffect
  <2> QED
    BY <1>0, <2>1, RunIsProc, RemoteAssumption DEF ListeningIffLeased, TypeOK, binds, mgr,
       OnlyCounts
<1>8. CASE Tick
  <2>1. Ages
    BY <1>8, TickEffect
  <2> QED
    BY <1>0, <2>1, RunIsProc, RemoteAssumption DEF ListeningIffLeased, TypeOK, binds, mgr,
       Ages
<1> USE <1>0, RemoteAssumption, RunIsProc DEF TypeOK, ClaimInv, LeaseInv, NoneIsEmpty,
        LeaseIndexed, IndexLeased, ReleasingIsRun, RunReleases, ExposingUnleased,
        NewIDUnused, NewIDsDistinct, BindingInv, ListeningIffLeased, Claims, Acquiring,
        Exposing, Releasing, RunOnly, ActiveLease, ProcRec, binds, mgr, gate, loop, closing
<1>9. ASSUME NEW p \in Procs, AcquireConflict(p) PROVE ListeningIffLeased'
  BY <1>9 DEF AcquireConflict, AcquireReturn, At, NoListener
<1>10. ASSUME NEW p \in Procs, UpdateGrant(p) PROVE ListeningIffLeased'
  BY <1>10 DEF UpdateGrant, AcquireReturn, At, NoListener
<1>11. ASSUME NEW p \in Procs, AcquireClaim(p) PROVE ListeningIffLeased'
  BY <1>11 DEF AcquireClaim, Goto
<1>12. ASSUME NEW p \in Procs, CreateBinding(p) PROVE ListeningIffLeased'
  BY <1>12 DEF CreateBinding, Goto
<1>13. ASSUME NEW p \in Procs, AllocateFails(p) PROVE ListeningIffLeased'
  BY <1>13 DEF AllocateFails, Goto
<1>14. ASSUME NEW p \in Procs, SaveBinding(p) PROVE ListeningIffLeased'
  BY <1>14 DEF SaveBinding, Goto
<1>15. ASSUME NEW p \in Procs, SaveBindingFails(p) PROVE ListeningIffLeased'
  BY <1>15 DEF SaveBindingFails, Goto
<1>16. ASSUME NEW p \in Procs, BindFails(p) PROVE ListeningIffLeased'
  BY <1>16 DEF BindFails, Goto
<1>17. ASSUME NEW p \in Procs, RegisterListener(p) PROVE ListeningIffLeased'
  BY <1>17 DEF RegisterListener, Goto
<1>18. ASSUME NEW p \in Procs, AcquireEnd(p) PROVE ListeningIffLeased'
  BY <1>18 DEF AcquireEnd, AcquireReturn, At, NoListener
<1>19. CASE TickBegin
  BY <1>19 DEF TickBegin, Goto
<1>20. CASE RunStops
  BY <1>20 DEF RunStops, Goto
<1>21. ASSUME NEW l \in LeaseIDs, ReconcileKeeps(l) PROVE ListeningIffLeased'
  BY <1>21 DEF ReconcileKeeps
<1>22. CASE Unbind
  BY <1>22 DEF Unbind, NoListener, Goto
<1>23. CASE ReleaseDrop
  BY <1>23 DEF ReleaseDrop, Goto
<1>24. CASE ReleaseSave
  BY <1>24 DEF ReleaseSave, Goto
<1>25. CASE ReleaseEnd
  BY <1>25 DEF ReleaseEnd, At
<1>26. CASE ReconcileBindings
  BY <1>26 DEF ReconcileBindings, SettledStatus, Goto
<1>27. CASE SaveStatus
  BY <1>27 DEF SaveStatus, Goto
<1>28. CASE TickEnd
  BY <1>28 DEF TickEnd, Goto
<1>29. CASE CloseBegin
  BY <1>29 DEF CloseBegin
<1>30. CASE CloseCollect
  BY <1>30 DEF CloseCollect
<1>31. ASSUME NEW d \in Devices, CloseUnbind(d) PROVE ListeningIffLeased'
  BY <1>31 DEF CloseUnbind, NoListener
<1>32. CASE CloseGateway
  BY <1>32 DEF CloseGateway, NoListener
<1>33. CASE CloseSave
  BY <1>33 DEF CloseSave
<1>34. ASSUME NEW c \in Conns, NEW d \in Devices, Accept(c, d) PROVE ListeningIffLeased'
  BY <1>34 DEF Accept
<1>35. ASSUME NEW c \in Conns, Kick(c) PROVE ListeningIffLeased'
  BY <1>35 DEF Kick
<1>36. ASSUME NEW c \in Conns, PeerGone(c) PROVE ListeningIffLeased'
  BY <1>36 DEF PeerGone
<1>37. ASSUME NEW c \in Conns, ConnRemove(c) PROVE ListeningIffLeased'
  BY <1>37 DEF ConnRemove, NoConn
<1>38. ASSUME NEW d \in Devices, DeviceChanges(d) PROVE ListeningIffLeased'
  BY <1>38 DEF DeviceChanges
<1>39. CASE Restart
  BY <1>39 DEF Restart, At, NoLease, NoListener, NoConn, RestoredStatus, RestoredPorts
<1>40. CASE UNCHANGED vars
  BY <1>40 DEF vars
<1> QED
  BY <1>1, <1>2, <1>3, <1>4, <1>5, <1>6, <1>7, <1>8, <1>9, <1>10, <1>11, <1>12, <1>13,
     <1>14, <1>15, <1>16, <1>17, <1>18, <1>19, <1>20, <1>21, <1>22, <1>23, <1>24, <1>25,
     <1>26, <1>27, <1>28, <1>29, <1>30, <1>31, <1>32, <1>33, <1>34, <1>35, <1>36, <1>37,
     <1>38, <1>39, <1>40
     DEF Next, Acquire, Reconcile, Close, Connection

\* No two bindings come to share a port.
LEMMA PortsNext == IndInv /\ [Next]_vars => PortsDistinct'
<1> SUFFICES ASSUME IndInv, [Next]_vars PROVE PortsDistinct'
  OBVIOUS
<1>0. TypeOK /\ ClaimInv /\ LeaseInv /\ BindingInv /\ PortsDistinct
  BY DEF IndInv
<1>1. ASSUME NEW p \in Procs, NEW d \in Devices, AcquireResolve(p, d) PROVE PortsDistinct'
  <2>1. Resolves(p, d)
    BY <1>1, ResolveEffect
  <2> QED
    BY <1>0, <2>1, RunIsProc, RemoteAssumption DEF PortsDistinct, binds, Resolves, Others
<1>2. ASSUME NEW p \in Procs, AcquireRenew(p) PROVE PortsDistinct'
  <2>1. Renews(p)
    BY <1>2, RenewEffect
  <2> QED
    BY <1>0, <2>1, RunIsProc, RemoteAssumption DEF PortsDistinct, binds, Renews, Others
<1>3. ASSUME NEW p \in Procs, Bind(p) PROVE PortsDistinct'
  <2>1. PICK l \in LeaseIDs : Binds(p, l)
    BY <1>3, BindEffect
  <2> QED
    BY <1>0, <2>1, RunIsProc, RemoteAssumption DEF PortsDistinct, binds, Binds, Others
<1>4. ASSUME NEW p \in Procs, AcquireCommit(p) PROVE PortsDistinct'
  <2>1. Commits(p)
    BY <1>4, CommitEffect
  <2> QED
    BY <1>0, <2>1, RunIsProc, RemoteAssumption DEF PortsDistinct, binds, Commits, Others
<1>5. ASSUME NEW l \in LeaseIDs, ReleaseBegin(l) PROVE PortsDistinct'
  <2>2. CASE UNCHANGED <<mgr, proc, binds, disk, gate, closing, announced>>
    BY <1>0, <2>2 DEF LeaseInv, NoneIsEmpty, LeaseIndexed, IndexLeased, ReleasingIsRun,
       RunReleases, ExposingUnleased, NewIDUnused, NewIDsDistinct, BindingInv,
       PortsDistinct, Claims, Acquiring, Exposing, Releasing, RunOnly, binds, mgr, gate,
       closing
  <2>3. CASE Releases(l)
    <3> QED
      BY <1>0, <2>3, RunIsProc, RemoteAssumption DEF PortsDistinct, binds, Releases, Others
  <2> QED
    BY <1>5, <2>2, <2>3, ReleaseBeginEffect
<1>6. ASSUME NEW c \in Conns, Authed(c) PROVE PortsDistinct'
  <2>1. OnlyCounts
    BY <1>6, CountEffect
  <2> QED
    BY <1>0, <2>1, RunIsProc, RemoteAssumption DEF PortsDistinct, binds, OnlyCounts
<1>7. ASSUME NEW c \in Conns, ConnEnd(c) PROVE PortsDistinct'
  <2>1. OnlyCounts
    BY <1>7, CountEffect
  <2> QED
    BY <1>0, <2>1, RunIsProc, RemoteAssumption DEF PortsDistinct, binds, OnlyCounts
<1>8. CASE Tick
  <2>1. Ages
    BY <1>8, TickEffect
  <2> QED
    BY <1>0, <2>1, RunIsProc, RemoteAssumption DEF PortsDistinct, binds, Ages
<1> USE <1>0, RemoteAssumption, RunIsProc DEF TypeOK, ClaimInv, LeaseInv, NoneIsEmpty,
        LeaseIndexed, IndexLeased, ReleasingIsRun, RunReleases, ExposingUnleased,
        NewIDUnused, NewIDsDistinct, BindingInv, PortsDistinct, Claims, Acquiring, Exposing,
        Releasing, RunOnly, ProcRec, binds, mgr, gate, loop, closing
<1>9. ASSUME NEW p \in Procs, AcquireConflict(p) PROVE PortsDistinct'
  BY <1>9 DEF AcquireConflict, AcquireReturn, At, NoListener
<1>10. ASSUME NEW p \in Procs, UpdateGrant(p) PROVE PortsDistinct'
  BY <1>10 DEF UpdateGrant, AcquireReturn, At, NoListener
<1>11. ASSUME NEW p \in Procs, AcquireClaim(p) PROVE PortsDistinct'
  BY <1>11 DEF AcquireClaim, Goto
<1>12. ASSUME NEW p \in Procs, CreateBinding(p) PROVE PortsDistinct'
  BY <1>12 DEF CreateBinding, Goto
<1>13. ASSUME NEW p \in Procs, AllocateFails(p) PROVE PortsDistinct'
  BY <1>13 DEF AllocateFails, Goto
<1>14. ASSUME NEW p \in Procs, SaveBinding(p) PROVE PortsDistinct'
  BY <1>14 DEF SaveBinding, Goto
<1>15. ASSUME NEW p \in Procs, SaveBindingFails(p) PROVE PortsDistinct'
  BY <1>15 DEF SaveBindingFails, Goto
<1>16. ASSUME NEW p \in Procs, BindFails(p) PROVE PortsDistinct'
  BY <1>16 DEF BindFails, Goto
<1>17. ASSUME NEW p \in Procs, RegisterListener(p) PROVE PortsDistinct'
  BY <1>17 DEF RegisterListener, Goto
<1>18. ASSUME NEW p \in Procs, AcquireEnd(p) PROVE PortsDistinct'
  BY <1>18 DEF AcquireEnd, AcquireReturn, At, NoListener
<1>19. CASE TickBegin
  BY <1>19 DEF TickBegin, Goto
<1>20. CASE RunStops
  BY <1>20 DEF RunStops, Goto
<1>21. ASSUME NEW l \in LeaseIDs, ReconcileKeeps(l) PROVE PortsDistinct'
  BY <1>21 DEF ReconcileKeeps
<1>22. CASE Unbind
  BY <1>22 DEF Unbind, NoListener, Goto
<1>23. CASE ReleaseDrop
  BY <1>23 DEF ReleaseDrop, Goto
<1>24. CASE ReleaseSave
  BY <1>24 DEF ReleaseSave, Goto
<1>25. CASE ReleaseEnd
  BY <1>25 DEF ReleaseEnd, At
<1>26. CASE ReconcileBindings
  BY <1>26 DEF ReconcileBindings, SettledStatus, Goto
<1>27. CASE SaveStatus
  BY <1>27 DEF SaveStatus, Goto
<1>28. CASE TickEnd
  BY <1>28 DEF TickEnd, Goto
<1>29. CASE CloseBegin
  BY <1>29 DEF CloseBegin
<1>30. CASE CloseCollect
  BY <1>30 DEF CloseCollect
<1>31. ASSUME NEW d \in Devices, CloseUnbind(d) PROVE PortsDistinct'
  BY <1>31 DEF CloseUnbind, NoListener
<1>32. CASE CloseGateway
  BY <1>32 DEF CloseGateway, NoListener
<1>33. CASE CloseSave
  BY <1>33 DEF CloseSave
<1>34. ASSUME NEW c \in Conns, NEW d \in Devices, Accept(c, d) PROVE PortsDistinct'
  BY <1>34 DEF Accept
<1>35. ASSUME NEW c \in Conns, Kick(c) PROVE PortsDistinct'
  BY <1>35 DEF Kick
<1>36. ASSUME NEW c \in Conns, PeerGone(c) PROVE PortsDistinct'
  BY <1>36 DEF PeerGone
<1>37. ASSUME NEW c \in Conns, ConnRemove(c) PROVE PortsDistinct'
  BY <1>37 DEF ConnRemove, NoConn
<1>38. ASSUME NEW d \in Devices, DeviceChanges(d) PROVE PortsDistinct'
  BY <1>38 DEF DeviceChanges
<1>39. CASE Restart
  BY <1>39 DEF Restart, At, NoLease, NoListener, NoConn, RestoredStatus, RestoredPorts
<1>40. CASE UNCHANGED vars
  BY <1>40 DEF vars
<1> QED
  BY <1>1, <1>2, <1>3, <1>4, <1>5, <1>6, <1>7, <1>8, <1>9, <1>10, <1>11, <1>12, <1>13,
     <1>14, <1>15, <1>16, <1>17, <1>18, <1>19, <1>20, <1>21, <1>22, <1>23, <1>24, <1>25,
     <1>26, <1>27, <1>28, <1>29, <1>30, <1>31, <1>32, <1>33, <1>34, <1>35, <1>36, <1>37,
     <1>38, <1>39, <1>40
     DEF Next, Acquire, Reconcile, Close, Connection

\* A device keeps the port it was announced under.
LEMMA StableNext == IndInv /\ [Next]_vars => StablePort'
<1> SUFFICES ASSUME IndInv, [Next]_vars PROVE StablePort'
  OBVIOUS
<1>0. TypeOK /\ ClaimInv /\ BindingInv /\ PortsDistinct /\ StablePort
  BY DEF IndInv
<1>1. ASSUME NEW p \in Procs, NEW d \in Devices, AcquireResolve(p, d) PROVE StablePort'
  <2>1. Resolves(p, d)
    BY <1>1, ResolveEffect
  <2> QED
    BY <1>0, <2>1, RunIsProc, RemoteAssumption DEF StablePort, BindingInv, ClaimInv, TypeOK,
       binds, Resolves, Others
<1>2. ASSUME NEW p \in Procs, AcquireRenew(p) PROVE StablePort'
  <2>1. Renews(p)
    BY <1>2, RenewEffect
  <2> QED
    BY <1>0, <2>1, RunIsProc, RemoteAssumption DEF StablePort, BindingInv, ClaimInv, TypeOK,
       binds, Renews, Others
<1>3. ASSUME NEW p \in Procs, Bind(p) PROVE StablePort'
  <2>1. PICK l \in LeaseIDs : Binds(p, l)
    BY <1>3, BindEffect
  <2> QED
    BY <1>0, <2>1, RunIsProc, RemoteAssumption DEF StablePort, BindingInv, ClaimInv, TypeOK,
       binds, Binds, Others
<1>4. ASSUME NEW p \in Procs, AcquireCommit(p) PROVE StablePort'
  <2>1. Commits(p)
    BY <1>4, CommitEffect
  <2> QED
    BY <1>0, <2>1, RunIsProc, RemoteAssumption DEF StablePort, BindingInv, ClaimInv, TypeOK,
       binds, Commits, Others
<1>5. ASSUME NEW l \in LeaseIDs, ReleaseBegin(l) PROVE StablePort'
  <2>2. CASE UNCHANGED <<mgr, proc, binds, disk, gate, closing, announced>>
    BY <1>0, <2>2 DEF BindingInv, PortsDistinct, StablePort, Claims, Acquiring, Exposing,
       Releasing, RunOnly, binds, mgr, gate, closing
  <2>3. CASE Releases(l)
    <3> QED
      BY <1>0, <2>3, RunIsProc, RemoteAssumption DEF StablePort, BindingInv, ClaimInv,
         TypeOK, binds, Releases, Others
  <2> QED
    BY <1>5, <2>2, <2>3, ReleaseBeginEffect
<1>6. ASSUME NEW c \in Conns, Authed(c) PROVE StablePort'
  <2>1. OnlyCounts
    BY <1>6, CountEffect
  <2> QED
    BY <1>0, <2>1, RunIsProc, RemoteAssumption DEF StablePort, BindingInv, ClaimInv, TypeOK,
       binds, OnlyCounts
<1>7. ASSUME NEW c \in Conns, ConnEnd(c) PROVE StablePort'
  <2>1. OnlyCounts
    BY <1>7, CountEffect
  <2> QED
    BY <1>0, <2>1, RunIsProc, RemoteAssumption DEF StablePort, BindingInv, ClaimInv, TypeOK,
       binds, OnlyCounts
<1>8. CASE Tick
  <2>1. Ages
    BY <1>8, TickEffect
  <2> QED
    BY <1>0, <2>1, RunIsProc, RemoteAssumption DEF StablePort, BindingInv, ClaimInv, TypeOK,
       binds, Ages
<1> USE <1>0, RemoteAssumption, RunIsProc DEF TypeOK, ClaimInv, BindingInv, PortsDistinct,
        StablePort, Claims, Acquiring, Exposing, Releasing, RunOnly, ProcRec, binds, mgr,
        gate, loop, closing
<1>9. ASSUME NEW p \in Procs, AcquireConflict(p) PROVE StablePort'
  BY <1>9 DEF AcquireConflict, AcquireReturn, At, NoListener
<1>10. ASSUME NEW p \in Procs, UpdateGrant(p) PROVE StablePort'
  BY <1>10 DEF UpdateGrant, AcquireReturn, At, NoListener
<1>11. ASSUME NEW p \in Procs, AcquireClaim(p) PROVE StablePort'
  BY <1>11 DEF AcquireClaim, Goto
<1>12. ASSUME NEW p \in Procs, CreateBinding(p) PROVE StablePort'
  BY <1>12 DEF CreateBinding, Goto
<1>13. ASSUME NEW p \in Procs, AllocateFails(p) PROVE StablePort'
  BY <1>13 DEF AllocateFails, Goto
<1>14. ASSUME NEW p \in Procs, SaveBinding(p) PROVE StablePort'
  BY <1>14 DEF SaveBinding, Goto
<1>15. ASSUME NEW p \in Procs, SaveBindingFails(p) PROVE StablePort'
  BY <1>15 DEF SaveBindingFails, Goto
<1>16. ASSUME NEW p \in Procs, BindFails(p) PROVE StablePort'
  BY <1>16 DEF BindFails, Goto
<1>17. ASSUME NEW p \in Procs, RegisterListener(p) PROVE StablePort'
  BY <1>17 DEF RegisterListener, Goto
<1>18. ASSUME NEW p \in Procs, AcquireEnd(p) PROVE StablePort'
  BY <1>18 DEF AcquireEnd, AcquireReturn, At, NoListener
<1>19. CASE TickBegin
  BY <1>19 DEF TickBegin, Goto
<1>20. CASE RunStops
  BY <1>20 DEF RunStops, Goto
<1>21. ASSUME NEW l \in LeaseIDs, ReconcileKeeps(l) PROVE StablePort'
  BY <1>21 DEF ReconcileKeeps
<1>22. CASE Unbind
  BY <1>22 DEF Unbind, NoListener, Goto
<1>23. CASE ReleaseDrop
  BY <1>23 DEF ReleaseDrop, Goto
<1>24. CASE ReleaseSave
  BY <1>24 DEF ReleaseSave, Goto
<1>25. CASE ReleaseEnd
  BY <1>25 DEF ReleaseEnd, At
<1>26. CASE ReconcileBindings
  BY <1>26 DEF ReconcileBindings, SettledStatus, Goto
<1>27. CASE SaveStatus
  BY <1>27 DEF SaveStatus, Goto
<1>28. CASE TickEnd
  BY <1>28 DEF TickEnd, Goto
<1>29. CASE CloseBegin
  BY <1>29 DEF CloseBegin
<1>30. CASE CloseCollect
  BY <1>30 DEF CloseCollect
<1>31. ASSUME NEW d \in Devices, CloseUnbind(d) PROVE StablePort'
  BY <1>31 DEF CloseUnbind, NoListener
<1>32. CASE CloseGateway
  BY <1>32 DEF CloseGateway, NoListener
<1>33. CASE CloseSave
  BY <1>33 DEF CloseSave
<1>34. ASSUME NEW c \in Conns, NEW d \in Devices, Accept(c, d) PROVE StablePort'
  BY <1>34 DEF Accept
<1>35. ASSUME NEW c \in Conns, Kick(c) PROVE StablePort'
  BY <1>35 DEF Kick
<1>36. ASSUME NEW c \in Conns, PeerGone(c) PROVE StablePort'
  BY <1>36 DEF PeerGone
<1>37. ASSUME NEW c \in Conns, ConnRemove(c) PROVE StablePort'
  BY <1>37 DEF ConnRemove, NoConn
<1>38. ASSUME NEW d \in Devices, DeviceChanges(d) PROVE StablePort'
  BY <1>38 DEF DeviceChanges
<1>39. CASE Restart
  BY <1>39 DEF Restart, At, NoLease, NoListener, NoConn, RestoredStatus, RestoredPorts
<1>40. CASE UNCHANGED vars
  BY <1>40 DEF vars
<1> QED
  BY <1>1, <1>2, <1>3, <1>4, <1>5, <1>6, <1>7, <1>8, <1>9, <1>10, <1>11, <1>12, <1>13,
     <1>14, <1>15, <1>16, <1>17, <1>18, <1>19, <1>20, <1>21, <1>22, <1>23, <1>24, <1>25,
     <1>26, <1>27, <1>28, <1>29, <1>30, <1>31, <1>32, <1>33, <1>34, <1>35, <1>36, <1>37,
     <1>38, <1>39, <1>40
     DEF Next, Acquire, Reconcile, Close, Connection

-----------------------------------------------------------------------------
(* The inductive invariant and its consequences *)

\* A fresh process satisfies the invariant.
LEMMA IndInit == Init => IndInv
<1> SUFFICES ASSUME Init PROVE IndInv
  OBVIOUS
<1>1. TypeOK
  BY RemoteAssumption, NullTypes, AtType DEF Init, RestoredStatus, RestoredPorts, PCs, TypeOK
<1>2. \A p \in Procs : proc[p].pc = "idle"
  BY DEF Init, At
<1>3. ClaimInv
  BY <1>2 DEF ClaimInv, Claims, Acquiring, Exposing, Releasing, RunOnly
<1>4. LeaseInv
  BY <1>2, RunIsProc
  DEF Init, LeaseInv, NoneIsEmpty, LeaseIndexed, IndexLeased, ReleasingIsRun, RunReleases,
      ExposingUnleased, NewIDUnused, NewIDsDistinct, Exposing, NoLease
<1>5. ListenerInv
  BY <1>2, RunIsProc
  DEF Init, ListenerInv, PushedGrant, NoOrphanListener, UnboundBeforeCommit, BoundAtCommit,
      BoundIsLeased, ReleasedIsUnbound, ActiveIsBound, ClosedGateway, SocketsBound, OpenHasLease,
      Exposing, Releasing, Bound, ActiveLease, NoListener, NoConn
<1>6. BindingInv
  BY <1>2 DEF Init, BindingInv
<1>7. ListeningIffLeased /\ PortsDistinct /\ StablePort
  BY DEF Init, RestoredStatus, ListeningIffLeased, PortsDistinct, StablePort
<1> QED
  BY <1>1, <1>3, <1>4, <1>5, <1>6, <1>7 DEF IndInv

\* Every step of manager, gateway, connections and environment preserves it.
LEMMA IndNext == IndInv /\ [Next]_vars => IndInv'
BY TypeNext, ClaimNext, LeaseNext, ListenerNext, BindingNext, ListeningNext, PortsNext, StableNext
DEF IndInv

\* So it holds in every reachable state.
LEMMA Inductive == Spec => []IndInv
BY IndInit, IndNext, PTL DEF Spec

\* The state of manager and gateway stays well-formed; in particular a lease's
\* connection count never falls below zero.
THEOREM RemoteTypeOK == Spec => []TypeOK
<1>1. IndInv => TypeOK
  BY DEF IndInv
<1> QED
  BY <1>1, Inductive, PTL

\* A device has at most one lease, however Acquire and releaseLease interleave.
THEOREM RemoteOneLease == Spec => []OneLeasePerDevice
<1>1. IndInv => OneLeasePerDevice
  BY DEF IndInv, LeaseInv, NoneIsEmpty, LeaseIndexed, OneLeasePerDevice
<1> QED
  BY <1>1, Inductive, PTL

\* A device shown as connectable has a listener: releaseLease never tears down
\* what a concurrent Acquire has just bound.
THEOREM RemoteConnectable == Spec => []ConnectableIsListening
<1>1. IndInv => ConnectableIsListening
  <2> SUFFICES ASSUME IndInv, NEW d \in Devices, closer \in {"none", "wait"},
                      RemoteAccessStatus(d) \in {"CONNECTED", "CONNECTABLE"}
               PROVE  Bound(d)
    BY DEF ConnectableIsListening
  <2>1. leaseOf[d] \in LeaseIDs /\ leases[leaseOf[d]].status # "RELEASING"
    BY DEF RemoteAccessStatus, IndInv, TypeOK
  <2>2. leases[leaseOf[d]].status = "ACTIVE"
    BY <2>1, RemoteAssumption DEF IndInv, TypeOK, LeaseRec, LeaseInv, IndexLeased
  <2> QED
    BY <2>1, <2>2, RemoteAssumption DEF IndInv, ListenerInv, ActiveIsBound, ActiveLease
<1> QED
  BY <1>1, Inductive, PTL

\* A listener outside an operation in flight belongs to an active lease.
THEOREM RemoteNoOrphan == Spec => []NoOrphanListener
<1>1. IndInv => NoOrphanListener
  BY DEF IndInv, ListenerInv
<1> QED
  BY <1>1, Inductive, PTL

\* A binding is LISTENING exactly while its device has a lease.
THEOREM RemoteListening == Spec => []ListeningIffLeased
<1>1. IndInv => ListeningIffLeased
  BY DEF IndInv
<1> QED
  BY <1>1, Inductive, PTL

\* After gateway.Close nothing listens and no socket is open, although an
\* Acquire may still be between Bind's two checks.
THEOREM RemoteNothingOpen == Spec => []NothingOpenAfterClose
<1>1. IndInv => NothingOpenAfterClose
  BY DEF IndInv, ListenerInv, ClosedGateway, SocketsBound, NothingOpenAfterClose
<1> QED
  BY <1>1, Inductive, PTL

\* No two bindings share a port, in memory or in the snapshot.
THEOREM RemotePorts == Spec => []PortsDistinct
<1>1. IndInv => PortsDistinct
  BY DEF IndInv
<1> QED
  BY <1>1, Inductive, PTL

\* A device is exposed under the same port for ever, crashes included.
THEOREM RemoteStablePort == Spec => []StablePort
<1>1. IndInv => StablePort
  BY DEF IndInv
<1> QED
  BY <1>1, Inductive, PTL

-----------------------------------------------------------------------------
(* The connection counts *)

\* The steps that change a lease or a connection.
LEMMA CountingSteps ==
  ASSUME [Next]_vars
  PROVE  \/ UNCHANGED <<leases, conns>>
         \/ \E p \in Procs : AcquireRenew(p) \/ AcquireCommit(p)
         \/ \E l \in LeaseIDs : ReleaseBegin(l)
         \/ Unbind \/ ReleaseDrop \/ (\E d \in Devices : CloseUnbind(d)) \/ CloseGateway
         \/ \E c \in Conns : Connection(c)
         \/ Tick \/ Restart
<1>1. ASSUME NEW p \in Procs, Acquire(p), ~AcquireRenew(p), ~AcquireCommit(p)
      PROVE  UNCHANGED <<leases, conns>>
  BY <1>1 DEF Acquire, AcquireResolve, AcquireConflict, UpdateGrant, AcquireClaim, CreateBinding,
     AllocateFails, SaveBinding, SaveBindingFails, Bind, BindFails, RegisterListener, AcquireEnd, mgr, gate
<1>2. ASSUME Reconcile, ~Unbind, ~ReleaseDrop, \A l \in LeaseIDs : ~ReleaseBegin(l)
      PROVE  UNCHANGED <<leases, conns>>
  BY <1>2 DEF Reconcile, TickBegin, RunStops, ReconcileKeeps, ReleaseSave, ReleaseEnd,
     ReconcileBindings, SaveStatus, TickEnd, mgr, gate
<1>3. ASSUME Close, ~CloseGateway, \A d \in Devices : ~CloseUnbind(d)
      PROVE  UNCHANGED <<leases, conns>>
  BY <1>3 DEF Close, CloseBegin, CloseCollect, CloseSave, mgr, gate
<1>4. ASSUME NEW d \in Devices, DeviceChanges(d) PROVE UNCHANGED <<leases, conns>>
  BY <1>4 DEF DeviceChanges, mgr, gate
<1>5. CASE UNCHANGED vars
  BY <1>5 DEF vars, mgr, gate
<1> QED
  BY <1>1, <1>2, <1>3, <1>4, <1>5 DEF Next

\* The connections a lease may count.
Countable(l) == {c \in Conns : conns[c].lease = l /\ conns[c].st = "open" /\ conns[c].opened}

\* No lease counts more than before, and no countable connection is lost.
CountsKept ==
  \A l \in LeaseIDs : /\ leases'[l].active = leases[l].active \/ leases'[l].active = 0
                      /\ Countable(l) \subseteq Countable(l)'

\* Such a step does not overcount.
LEMMA KeptIsNotOver ==
  ASSUME TypeOK, NeverOvercounts, CountsKept
  PROVE  NeverOvercounts'
<1> SUFFICES ASSUME NEW l \in LeaseIDs
             PROVE  leases'[l].active <= Cardinality(Countable(l)')
  BY DEF NeverOvercounts, Countable
<1>1. IsFiniteSet(Countable(l)')
  <2>1. Countable(l)' \subseteq Conns
    BY DEF Countable
  <2> QED
    BY <2>1, ConnsAssumption, FS_Subset
<1>2. Cardinality(Countable(l)) <= Cardinality(Countable(l)') /\ Cardinality(Countable(l)) \in Nat
  BY <1>1, FS_Subset, FS_CardinalityType DEF CountsKept
<1>3. leases[l].active <= Cardinality(Countable(l)) /\ leases[l].active \in Nat
  BY DEF NeverOvercounts, Countable, TypeOK, LeaseRec
<1>4. Cardinality(Countable(l)') \in Nat
  BY <1>1, FS_CardinalityType
<1> QED
  BY <1>2, <1>3, <1>4 DEF CountsKept

\* A lease counts one more only with the connection that is counted, and one less with
\* the connection that ends.
LEMMA CountsNext == IndInv /\ NeverOvercounts /\ [Next]_vars => NeverOvercounts'
<1> SUFFICES ASSUME IndInv, NeverOvercounts, [Next]_vars PROVE NeverOvercounts'
  OBVIOUS
<1>0. /\ TypeOK /\ leases \in [LeaseIDs -> LeaseRec] /\ conns \in [Conns -> ConnRec]
  BY DEF IndInv, TypeOK
<1>1. CASE UNCHANGED <<leases, conns>>
  BY <1>0, <1>1, KeptIsNotOver DEF CountsKept, Countable
<1>2. ASSUME NEW p \in Procs, AcquireRenew(p) PROVE NeverOvercounts'
  <2> DEFINE l == leaseOf[proc[p].dev]
  <2>1. l \in LeaseIDs
    BY <1>0, <1>2 DEF AcquireRenew, ActiveLease, ClaimInv, IndInv, TypeOK
  <2>2. leases' = [leases EXCEPT ![l] = [leases[l] EXCEPT !.ttl = MaxTTL]] /\ UNCHANGED conns
    BY <1>2 DEF AcquireRenew, PutLease, gate
  <2> HIDE DEF l
  <2>3. \A k \in LeaseIDs : leases'[k].active = leases[k].active
    BY <1>0, <2>1, <2>2 DEF LeaseRec
  <2> QED
    BY <1>0, <2>2, <2>3, KeptIsNotOver DEF CountsKept, Countable
<1>3. ASSUME NEW p \in Procs, AcquireCommit(p) PROVE NeverOvercounts'
  <2>1. /\ \A k \in LeaseIDs : leases'[k].active = leases[k].active \/ leases'[k].active = 0
        /\ UNCHANGED conns
    BY <1>0, <1>3 DEF AcquireCommit, PutLease, gate
  <2> QED
    BY <1>0, <2>1, KeptIsNotOver DEF CountsKept, Countable
<1>4. ASSUME NEW l \in LeaseIDs, ReleaseBegin(l) PROVE NeverOvercounts'
  <2>1. /\ leases' = leases \/ leases' = [leases EXCEPT ![l] = [leases[l] EXCEPT !.status = "RELEASING"]]
        /\ UNCHANGED conns
    BY <1>4 DEF ReleaseBegin, PutLease, mgr, gate
  <2>2. \A k \in LeaseIDs : leases'[k].active = leases[k].active
    BY <1>0, <2>1 DEF LeaseRec
  <2> QED
    BY <1>0, <2>1, <2>2, KeptIsNotOver DEF CountsKept, Countable
<1>5. ASSUME NEW S, CloseSockets(S), UNCHANGED leases PROVE NeverOvercounts'
  <2>1. \A c \in Conns : /\ conns'[c].lease = conns[c].lease /\ conns'[c].st = conns[c].st
                         /\ conns'[c].opened = conns[c].opened
    <3> TAKE c \in Conns
    <3>1. conns'[c] = IF conns[c].dev \in S THEN [conns[c] EXCEPT !.sock = FALSE, !.orphan = TRUE] ELSE conns[c]
      BY <1>5 DEF CloseSockets
    <3>2. conns[c] \in ConnRec
      BY <1>0
    <3> QED
      BY <3>1, <3>2 DEF ConnRec
  <2> QED
    BY <1>0, <1>5, <2>1, KeptIsNotOver DEF CountsKept, Countable
<1>6. CASE Unbind \/ CloseGateway \/ \E d \in Devices : CloseUnbind(d)
  BY <1>5, <1>6 DEF Unbind, CloseGateway, CloseUnbind, mgr
<1>7. CASE ReleaseDrop
  <2>1. leases' = [leases EXCEPT ![proc[Run].grant.lease] = NoLease] /\ NoLease.active = 0 /\ UNCHANGED conns
    BY <1>7 DEF ReleaseDrop, NoLease, gate
  <2>2. \A k \in LeaseIDs : leases'[k].active = leases[k].active \/ leases'[k].active = 0
    BY <1>0, <2>1
  <2> QED
    BY <1>0, <2>1, <2>2, KeptIsNotOver DEF CountsKept, Countable
<1>8. ASSUME NEW c \in Conns, UNCHANGED leases,
             \/ Kick(c) \/ PeerGone(c) \/ ConnRemove(c)
             \/ \E d \in Devices : Accept(c, d)
      PROVE  NeverOvercounts'
  <2>1. \A k \in Conns \ {c} : conns'[k] = conns[k]
    BY <1>0, <1>8 DEF Kick, PeerGone, ConnRemove, Accept
  <2>2. ASSUME conns[c].st = "open"
        PROVE  /\ conns'[c].lease = conns[c].lease /\ conns'[c].st = conns[c].st
               /\ conns'[c].opened = conns[c].opened
    <3>1. Kick(c) \/ PeerGone(c)
      BY <1>8, <2>2 DEF ConnRemove, Accept
    <3>2. conns' = [conns EXCEPT ![c].sock = FALSE]
      BY <3>1 DEF Kick, PeerGone
    <3> QED
      BY <1>0, <3>2 DEF ConnRec
  <2>3. \A l \in LeaseIDs : Countable(l) \subseteq Countable(l)'
    BY <2>1, <2>2 DEF Countable
  <2> QED
    BY <1>0, <1>8, <2>3, KeptIsNotOver DEF CountsKept
<1>9. ASSUME NEW c \in Conns, Authed(c) PROVE NeverOvercounts'
  <2>1. conns[c].lease \in LeaseIDs /\ ~conns[c].opened /\ conns[c].st = "open"
    BY <1>9 DEF Authed, IndInv, ListenerInv, OpenHasLease
  <2>2. PICK l \in LeaseIDs : l = conns[c].lease
    BY <2>1
  <2>3. /\ conns'[c].opened /\ conns'[c].lease = l /\ conns'[c].st = "open"
        /\ \A k \in Conns \ {c} : conns'[k] = conns[k]
    BY <1>0, <1>9, <2>1, <2>2 DEF Authed, ConnRec
  <2>4. /\ leases'[l].active \in {leases[l].active, leases[l].active + 1}
        /\ \A k \in LeaseIDs \ {l} : leases'[k] = leases[k]
    BY <1>0, <1>9, <2>2 DEF Authed, ConnectionOpened, PutLease, LeaseRec
  <2>5. /\ \A k \in LeaseIDs \ {l} : Countable(k)' = Countable(k)
        /\ Countable(l)' = Countable(l) \cup {c} /\ c \notin Countable(l)
    BY <2>1, <2>2, <2>3 DEF Countable
  <2>6. /\ IsFiniteSet(Countable(l)) /\ Cardinality(Countable(l)) \in Nat
        /\ Cardinality(Countable(l)') = Cardinality(Countable(l)) + 1
    <3>1. IsFiniteSet(Countable(l))
      BY ConnsAssumption, FS_Subset DEF Countable
    <3> QED
      BY <2>5, <3>1, FS_AddElement, FS_CardinalityType
  <2>7. leases[l].active <= Cardinality(Countable(l)) /\ leases[l].active \in Nat
    BY <1>0 DEF NeverOvercounts, Countable, LeaseRec
  <2>8. \A k \in LeaseIDs : leases'[k].active <= Cardinality(Countable(k)')
    <3> TAKE k \in LeaseIDs
    <3>1. CASE k = l
      BY <2>4, <2>6, <2>7, <3>1
    <3>2. CASE k # l
      BY <2>4, <2>5, <3>2 DEF NeverOvercounts, Countable
    <3> QED
      BY <3>1, <3>2
  <2> QED
    BY <2>8 DEF NeverOvercounts, Countable
<1>10. ASSUME NEW c \in Conns, ConnEnd(c) PROVE NeverOvercounts'
  <2>1. conns[c].lease \in LeaseIDs /\ conns[c].st = "open"
    BY <1>10 DEF ConnEnd, IndInv, ListenerInv, OpenHasLease
  <2>2. PICK l \in LeaseIDs : l = conns[c].lease
    BY <2>1
  <2>3. conns'[c].st = "ended" /\ \A k \in Conns \ {c} : conns'[k] = conns[k]
    BY <1>0, <1>10 DEF ConnEnd, ConnRec
  <2>4. /\ leases[l].active \in Nat
        /\ leases'[l].active = IF conns[c].opened /\ leases[l].active > 0
                               THEN leases[l].active - 1 ELSE leases[l].active
        /\ \A k \in LeaseIDs \ {l} : leases'[k] = leases[k]
    BY <1>0, <1>10, <2>2 DEF ConnEnd, ConnectionClosed, PutLease, LeaseRec
  <2>5. /\ \A k \in LeaseIDs \ {l} : Countable(k)' = Countable(k)
        /\ Countable(l)' = Countable(l) \ {c} /\ (c \in Countable(l) <=> conns[c].opened)
    BY <2>1, <2>2, <2>3 DEF Countable
  <2>6. IsFiniteSet(Countable(l)) /\ Cardinality(Countable(l)) \in Nat
    BY ConnsAssumption, FS_Subset, FS_CardinalityType DEF Countable
  <2>7. Cardinality(Countable(l)') = IF conns[c].opened THEN Cardinality(Countable(l)) - 1
                                     ELSE Cardinality(Countable(l))
    BY <2>5, <2>6, FS_RemoveElement
  <2>8. leases[l].active <= Cardinality(Countable(l))
    BY DEF NeverOvercounts, Countable
  <2>11. Cardinality(Countable(l)') \in Nat
    <3>1. IsFiniteSet(Countable(l)')
      BY <2>5, <2>6, FS_Subset
    <3> QED
      BY <3>1, FS_CardinalityType
  <2>9. \A k \in LeaseIDs : leases'[k].active <= Cardinality(Countable(k)')
    <3> TAKE k \in LeaseIDs
    <3>1. CASE k = l
      BY <2>4, <2>6, <2>7, <2>8, <2>11, <3>1
    <3>2. CASE k # l
      BY <2>4, <2>5, <3>2 DEF NeverOvercounts, Countable
    <3> QED
      BY <3>1, <3>2
  <2> QED
    BY <2>9 DEF NeverOvercounts, Countable
<1>11. CASE Tick
  <2>1. (\A k \in LeaseIDs : leases'[k].active = leases[k].active) /\ UNCHANGED conns
    BY <1>0, <1>11 DEF Tick, LeaseRec
  <2> QED
    BY <1>0, <2>1, KeptIsNotOver DEF CountsKept, Countable
<1>12. CASE Restart
  <2>1. \A l \in LeaseIDs : leases'[l].active = 0 /\ Countable(l)' = {}
    BY <1>12 DEF Restart, NoLease, NoConn, Countable
  <2>2. \A l \in LeaseIDs : leases'[l].active <= Cardinality(Countable(l)')
    <3>1. Cardinality({}) = 0
      BY FS_EmptySet
    <3> QED
      BY <2>1, <3>1
  <2> QED
    BY <2>2 DEF NeverOvercounts, Countable
<1> QED
  BY <1>1, <1>2, <1>3, <1>4, <1>6, <1>7, <1>8, <1>9, <1>10, <1>11, <1>12, CountingSteps
  DEF Connection, Kick, PeerGone, ConnRemove, Accept, mgr

\* The connection count of a lease never exceeds its opened connections.
THEOREM RemoteNeverOvercounts == Spec => []NeverOvercounts
<1>1. Init => NeverOvercounts
  <2> HAVE Init
  <2>1. \A l \in LeaseIDs : leases[l].active = 0 /\ Countable(l) = {}
    BY DEF Init, NoLease, NoConn, Countable
  <2>2. \A l \in LeaseIDs : leases[l].active <= Cardinality(Countable(l))
    <3>1. Cardinality({}) = 0
      BY FS_EmptySet
    <3> QED
      BY <2>1, <3>1
  <2> QED
    BY <2>2 DEF NeverOvercounts, Countable
<1> QED
  BY <1>1, CountsNext, Inductive, PTL DEF Spec

-----------------------------------------------------------------------------
(* Grants, where the run loop is the only goroutine that acquires *)

\* With one goroutine, the property speaks of the run loop only.
LEMMA GrantOfRun ==
  ASSUME Callers = {}
  PROVE  /\ Procs = {Run}
         /\ GrantFollowsLease <=>
              \A d \in Devices :
                /\ closer \in {"none", "wait"} /\ ActiveLease(d)
                /\ ~(proc[Run].pc = "update" /\ proc[Run].dev = d)
                => listeners[d] = GrantOf(leaseOf[d])
         /\ GrantFollowsLease' <=>
              \A d \in Devices :
                /\ closer' \in {"none", "wait"} /\ ActiveLease(d)'
                /\ ~(proc'[Run].pc = "update" /\ proc'[Run].dev = d)
                => listeners'[d] = [lease |-> leaseOf'[d], ttl |-> leases'[leaseOf'[d]].ttl]
BY DEF Procs, GrantFollowsLease, GrantOf

\* A step that touches no listener and no grant, and after which no lease is active that
\* was not, with the same time left.
Quiet ==
  /\ UNCHANGED listeners /\ (closer' \in {"none", "wait"} => closer \in {"none", "wait"})
  /\ \A d \in Devices : ActiveLease(d)' =>
       /\ ActiveLease(d) /\ leaseOf'[d] = leaseOf[d]
       /\ leases'[leaseOf[d]].ttl = leases[leaseOf[d]].ttl
  /\ proc'[Run].pc \in {"commit", "update"} \/ proc[Run].pc = "update" =>
       /\ proc'[Run] = proc[Run]
       /\ ActiveLease(proc[Run].dev) => ActiveLease(proc[Run].dev)'

\* Such a step changes nothing about grants.
LEMMA QuietKeepsGrants ==
  ASSUME IndInv, GrantInv, Quiet, Callers = {}
  PROVE  GrantInv'
<1>0. proc[Run].pc = "update" => proc[Run].dev \in Devices
  BY RunIsProc DEF IndInv, ClaimInv
<1>1. GrantFollowsLease'
  BY GrantOfRun DEF GrantInv, Quiet, GrantOf
<1>2. proc'[Run].pc = "commit" /\ closer' \in {"none", "wait"} => listeners'[proc'[Run].dev] = proc'[Run].grant
  BY DEF GrantInv, Quiet
<1>3. proc'[Run].pc = "update" =>
        /\ ActiveLease(proc[Run].dev)'
        /\ proc'[Run].grant = [lease |-> leaseOf'[proc'[Run].dev], ttl |-> leases'[leaseOf'[proc'[Run].dev]].ttl]
  <2> HAVE proc'[Run].pc = "update"
  <2>1. proc'[Run] = proc[Run]
    BY DEF Quiet
  <2>2. PICK d \in Devices : d = proc[Run].dev
    BY <1>0, <2>1
  <2>3. ActiveLease(d) /\ proc[Run].grant = GrantOf(leaseOf[d])
    BY <2>1, <2>2 DEF GrantInv
  <2>4. ActiveLease(d)'
    BY <2>1, <2>2, <2>3 DEF Quiet
  <2>5. leaseOf'[d] = leaseOf[d] /\ leases'[leaseOf[d]].ttl = leases[leaseOf[d]].ttl
    BY <2>4 DEF Quiet
  <2> QED
    BY <2>1, <2>2, <2>3, <2>4, <2>5 DEF GrantOf, ActiveLease
<1> QED
  BY <1>1, <1>2, <1>3 DEF GrantInv, GrantOf

\* The steps that change a lease, a listener or the grant of a process.
LEMMA GrantSteps ==
  ASSUME IndInv, [Next]_vars, Callers = {}
  PROVE  \/ Quiet
         \/ AcquireRenew(Run) \/ UpdateGrant(Run) \/ RegisterListener(Run) \/ AcquireCommit(Run)
         \/ \E l \in LeaseIDs : ReleaseBegin(l)
         \/ Unbind \/ ReleaseDrop \/ (\E d \in Devices : CloseUnbind(d)) \/ CloseGateway
         \/ \E c \in Conns : Authed(c) \/ ConnEnd(c)
         \/ Tick \/ Restart
<1>0. proc \in [Procs -> ProcRec] /\ Procs = {Run}
  BY GrantOfRun DEF IndInv, TypeOK
<1>1. ASSUME UNCHANGED <<leases, leaseOf, listeners>>,
             closer' \in {"none", "wait"} => closer \in {"none", "wait"},
             \/ proc' = proc
             \/ proc[Run].pc # "update" /\ proc'[Run].pc \notin {"commit", "update"}
      PROVE  Quiet
  BY <1>1 DEF Quiet, ActiveLease
<1>2. ASSUME Acquire(Run), ~AcquireRenew(Run), ~UpdateGrant(Run), ~RegisterListener(Run), ~AcquireCommit(Run)
      PROVE  Quiet
  <2>1. UNCHANGED <<leases, leaseOf, listeners, closer>>
    BY <1>2 DEF Acquire, AcquireResolve, AcquireConflict, AcquireClaim, CreateBinding, AllocateFails,
       SaveBinding, SaveBindingFails, Bind, BindFails, AcquireEnd, mgr, gate, closing
  <2>2. proc[Run].pc # "update" /\ proc'[Run].pc \notin {"commit", "update"}
    <3>1. CASE \E d \in Devices : AcquireResolve(Run, d)
      BY <1>0, <3>1 DEF AcquireResolve, AcquireReturn, At
    <3>2. CASE AcquireConflict(Run) \/ AcquireEnd(Run)
      BY <1>0, <3>2 DEF AcquireConflict, AcquireEnd, AcquireReturn, At
    <3>3. CASE AcquireClaim(Run) \/ CreateBinding(Run) \/ AllocateFails(Run) \/ SaveBinding(Run)
                 \/ SaveBindingFails(Run) \/ BindFails(Run)
      BY <1>0, <3>3 DEF AcquireClaim, CreateBinding, AllocateFails, SaveBinding, SaveBindingFails,
         BindFails, Goto, ProcRec
    <3>4. CASE Bind(Run)
      <4>1. PICK l \in LeaseIDs : Binds(Run, l)
        BY <3>4, BindEffect, RunIsProc
      <4>2. ~Bound(proc[Run].dev)
        BY <4>1, RunIsProc DEF Binds, IndInv, ListenerInv, UnboundBeforeCommit, Exposing
      <4> QED
        BY <4>1, <4>2 DEF Binds
    <3> QED
      BY <1>2, <3>1, <3>2, <3>3, <3>4 DEF Acquire
  <2> QED
    BY <1>1, <2>1, <2>2
<1>3. ASSUME Reconcile, ~Unbind, ~ReleaseDrop, \A l \in LeaseIDs : ~ReleaseBegin(l)
      PROVE  Quiet
  <2>1. UNCHANGED <<leases, leaseOf, listeners, closer>>
    BY <1>3 DEF Reconcile, TickBegin, RunStops, ReconcileKeeps, ReleaseSave, ReleaseEnd,
       ReconcileBindings, SaveStatus, TickEnd, mgr, gate, closing
  <2>2. \/ proc' = proc
        \/ proc[Run].pc # "update" /\ proc'[Run].pc \notin {"commit", "update"}
    BY <1>0, <1>3 DEF Reconcile, TickBegin, RunStops, ReconcileKeeps, ReleaseSave, ReleaseEnd,
       ReconcileBindings, SaveStatus, TickEnd, Goto, At, ProcRec
  <2> QED
    BY <1>1, <2>1, <2>2
<1>4. ASSUME Close, ~CloseGateway, \A d \in Devices : ~CloseUnbind(d)
      PROVE  Quiet
  BY <1>1, <1>4 DEF Close, CloseBegin, CloseCollect, CloseSave, mgr, gate
<1>5. ASSUME NEW c \in Conns, Connection(c), ~Authed(c), ~ConnEnd(c) PROVE Quiet
  BY <1>1, <1>5 DEF Connection, Accept, Kick, PeerGone, ConnRemove, mgr, closing
<1>6. ASSUME NEW d \in Devices, DeviceChanges(d) PROVE Quiet
  BY <1>1, <1>6 DEF DeviceChanges, mgr, gate, closing
<1>7. CASE UNCHANGED vars
  BY <1>1, <1>7 DEF vars, mgr, gate, closing
<1> QED
  BY <1>0, <1>2, <1>3, <1>4, <1>5, <1>6, <1>7 DEF Next

\* Every step keeps listeners, leases and grants in agreement.
LEMMA GrantNext ==
  ASSUME IndInv, GrantInv, [Next]_vars, Callers = {}
  PROVE  GrantInv'
<1>0. /\ proc \in [Procs -> ProcRec] /\ Procs = {Run} /\ leases \in [LeaseIDs -> LeaseRec]
      /\ listeners \in [Devices -> Grant] /\ leaseOf \in [Devices -> LeaseIDs \cup {None}]
      /\ LeaseInv /\ ListenerInv /\ ClaimInv /\ None \notin LeaseIDs
  BY GrantOfRun, RemoteAssumption DEF IndInv, TypeOK
<1>00. \A d \in Devices : ActiveLease(d) =>
         leaseOf[d] \in LeaseIDs /\ leases[leaseOf[d]].dev = d /\ leases[leaseOf[d]].status = "ACTIVE"
  BY <1>0 DEF ActiveLease, LeaseInv, IndexLeased
<1>1. CASE Quiet
  BY <1>1, QuietKeepsGrants
<1>2. CASE AcquireRenew(Run)
  <2>1. Renews(Run)
    BY <1>2, RenewEffect, RunIsProc
  <2>2. PICK d \in Devices : d = proc[Run].dev
    BY <1>0, <1>2, RunIsProc DEF AcquireRenew, ClaimInv
  <2>3. PICK l \in LeaseIDs : l = leaseOf[d]
    BY <1>0, <1>2, <2>2 DEF AcquireRenew, ActiveLease
  <2>4. /\ leases'[l].ttl = MaxTTL /\ \A k \in LeaseIDs \ {l} : leases'[k] = leases[k]
    BY <1>0, <1>2, <2>2, <2>3 DEF AcquireRenew, PutLease, LeaseRec
  <2>5. /\ proc'[Run].pc = "update" /\ proc'[Run].dev = d /\ proc'[Run].grant = [lease |-> l, ttl |-> MaxTTL]
        /\ proc[Run].pc = "lock"
    BY <1>0, <1>2, <2>2, <2>3, RunIsProc DEF AcquireRenew, ProcRec
  <2>6. /\ UNCHANGED <<listeners, closer>> /\ leaseOf' = leaseOf
        /\ \A k \in LeaseIDs : leases'[k].status = leases[k].status
    BY <2>1 DEF Renews, gate, closing
  <2>7. ActiveLease(d)' /\ ActiveLease(d)
    BY <1>2, <2>2, <2>3, <2>6 DEF AcquireRenew, ActiveLease
  <2>8. \A e \in Devices \ {d} : ActiveLease(e)' =>
          ActiveLease(e) /\ leases'[leaseOf[e]] = leases[leaseOf[e]]
    <3> TAKE e \in Devices \ {d}
    <3> HAVE ActiveLease(e)'
    <3>1. ActiveLease(e)
      BY <1>0, <2>6 DEF ActiveLease
    <3> QED
      BY <1>00, <2>3, <2>4, <2>7, <3>1
  <2>9. GrantFollowsLease'
    BY <2>5, <2>6, <2>8, GrantOfRun DEF GrantInv, GrantOf
  <2>10. ActiveLease(proc[Run].dev)'
    BY <2>5, <2>7
  <2> QED
    BY <2>3, <2>4, <2>5, <2>6, <2>9, <2>10 DEF GrantInv, GrantOf
<1>3. CASE UpdateGrant(Run)
  <2>1. PICK d \in Devices : d = proc[Run].dev
    BY <1>0, <1>3, RunIsProc DEF UpdateGrant, ClaimInv
  <2>2. ActiveLease(d) /\ proc[Run].grant = GrantOf(leaseOf[d])
    BY <1>3, <2>1 DEF UpdateGrant, GrantInv
  <2>3. /\ UNCHANGED <<leases, leaseOf, closer>> /\ proc'[Run].pc = "expose"
        /\ listeners' = IF Bound(d) THEN [listeners EXCEPT ![d] = proc[Run].grant] ELSE listeners
    BY <1>0, <1>3, <2>1 DEF UpdateGrant, AcquireReturn, At, mgr, closing
  <2>4. closer \in {"none", "wait"} => listeners'[d] = GrantOf(leaseOf[d])
    BY <1>0, <2>2, <2>3 DEF ListenerInv, ActiveIsBound
  <2>5. \A e \in Devices \ {d} : listeners'[e] = listeners[e]
    BY <1>0, <2>3
  <2>6. GrantFollowsLease'
    BY <2>1, <2>3, <2>4, <2>5, GrantOfRun DEF GrantInv, GrantOf, ActiveLease
  <2> QED
    BY <2>3, <2>6 DEF GrantInv
<1>4. CASE RegisterListener(Run)
  <2>1. PICK d \in Devices : d = proc[Run].dev
    BY <1>0, <1>4, RunIsProc, HasDevice DEF RegisterListener, Claims, Acquiring, Exposing
  <2>2. leaseOf[d] = None /\ ~Bound(d)
    BY <1>0, <1>4, <2>1, RunIsProc DEF RegisterListener, LeaseInv, ExposingUnleased, ListenerInv,
       UnboundBeforeCommit, Exposing
  <2>3. /\ UNCHANGED <<leases, leaseOf, closer>> /\ proc[Run].pc = "register"
        /\ listeners' = IF gwClosed THEN listeners ELSE [listeners EXCEPT ![d] = proc[Run].grant]
        /\ proc'[Run].pc = IF gwClosed THEN "acquired" ELSE "commit"
        /\ proc'[Run].dev = d /\ proc'[Run].grant = proc[Run].grant
    BY <1>0, <1>4, <2>1, <2>2, RunIsProc DEF RegisterListener, Goto, ProcRec, mgr, closing
  <2>4. /\ \A e \in Devices \ {d} : listeners'[e] = listeners[e]
        /\ ~gwClosed => listeners'[d] = proc[Run].grant
    BY <1>0, <2>3
  <2>5. GrantFollowsLease'
    BY <2>2, <2>3, <2>4, GrantOfRun DEF GrantInv, GrantOf, ActiveLease
  <2> QED
    BY <2>3, <2>4, <2>5 DEF GrantInv
<1>5. CASE AcquireCommit(Run)
  <2>1. Commits(Run)
    BY <1>5, CommitEffect, RunIsProc
  <2>2. PICK d \in Devices, l \in LeaseIDs : d = proc[Run].dev /\ l = proc[Run].grant.lease
    BY <2>1 DEF Commits
  <2>3. /\ UNCHANGED <<listeners, closer>> /\ proc[Run].pc = "commit" /\ proc'[Run].pc = "acquired"
        /\ leaseOf'[d] = l /\ leases[l].status = "NONE"
        /\ \A e \in Devices \ {d} : leaseOf'[e] = leaseOf[e]
        /\ \A k \in LeaseIDs \ {l} : leases'[k] = leases[k]
    BY <2>1, <2>2 DEF Commits, gate, closing
  <2>4. leases'[l].ttl = proc[Run].grant.ttl
    BY <1>0, <1>5, <2>2 DEF AcquireCommit, PutLease
  <2>5. proc[Run].grant = [lease |-> l, ttl |-> proc[Run].grant.ttl]
    <3>1. proc[Run].grant \in Grant
      BY <1>0, RunIsProc DEF ProcRec
    <3> QED
      BY <2>2, <3>1 DEF Grant
  <2>6. \A e \in Devices \ {d} : ActiveLease(e)' =>
          ActiveLease(e) /\ leases'[leaseOf[e]] = leases[leaseOf[e]] /\ leaseOf'[e] = leaseOf[e]
    <3> TAKE e \in Devices \ {d}
    <3> HAVE ActiveLease(e)'
    <3>1. leaseOf[e] \in LeaseIDs \ {l}
      BY <1>0, <2>3 DEF ActiveLease, LeaseInv, IndexLeased
    <3> QED
      BY <2>3, <3>1 DEF ActiveLease
  <2>7. closer \in {"none", "wait"} => listeners[d] = [lease |-> l, ttl |-> leases'[l].ttl]
    BY <2>2, <2>3, <2>4, <2>5 DEF GrantInv
  <2>8. GrantFollowsLease'
    BY <2>3, <2>6, <2>7, GrantOfRun DEF GrantInv, GrantOf
  <2> QED
    BY <2>3, <2>8 DEF GrantInv
<1>6. ASSUME NEW l \in LeaseIDs, ReleaseBegin(l) PROVE GrantInv'
  <2>1. CASE UNCHANGED <<mgr, proc, binds, disk, gate, closing, announced>>
    <3>1. Quiet
      BY <2>1 DEF Quiet, mgr, gate, closing, ActiveLease
    <3> QED
      BY <3>1, QuietKeepsGrants
  <2>2. CASE Releases(l)
    <3>1. /\ UNCHANGED <<listeners, closer>> /\ leaseOf' = leaseOf /\ leases'[l].status = "RELEASING"
          /\ \A k \in LeaseIDs \ {l} : leases'[k] = leases[k]
          /\ proc[Run].pc = "reconcile" /\ proc'[Run].pc = "unbind"
      BY <2>2 DEF Releases, gate, closing
    <3>2. \A e \in Devices : ActiveLease(e)' => leaseOf[e] \in LeaseIDs \ {l}
      BY <1>0, <3>1 DEF ActiveLease
    <3>3. \A e \in Devices : ActiveLease(e)' => ActiveLease(e) /\ leases'[leaseOf[e]] = leases[leaseOf[e]]
      BY <3>1, <3>2 DEF ActiveLease
    <3>4. Quiet
      BY <3>1, <3>3 DEF Quiet
    <3> QED
      BY <3>4, QuietKeepsGrants
  <2> QED
    BY <1>6, <2>1, <2>2, ReleaseBeginEffect
<1>7. CASE Unbind
  <2>1. PICK d \in Devices : d = proc[Run].dev
    BY <1>0, <1>7, RunIsProc, HasDevice DEF Unbind, Claims, Releasing
  <2>2. ~ActiveLease(d)
    BY <1>0, <1>7, <2>1 DEF Unbind, LeaseInv, RunReleases, LeaseIndexed, ActiveLease
  <2>3. /\ UNCHANGED <<leases, leaseOf, closer>> /\ proc[Run].pc = "unbind" /\ proc'[Run].pc = "drop"
        /\ \A e \in Devices \ {d} : listeners'[e] = listeners[e]
    BY <1>0, <1>7, <2>1, RunIsProc DEF Unbind, Goto, ProcRec, mgr, closing
  <2>4. GrantFollowsLease'
    BY <2>2, <2>3, GrantOfRun DEF GrantInv, GrantOf, ActiveLease
  <2> QED
    BY <2>3, <2>4 DEF GrantInv
<1>8. CASE ReleaseDrop
  <2>1. PICK d \in Devices, l \in LeaseIDs : d = proc[Run].dev /\ l = proc[Run].grant.lease
    BY <1>0, <1>8, RunIsProc, HasDevice DEF ReleaseDrop, Claims, Releasing, LeaseInv, RunReleases
  <2>2. leases[l].dev = d /\ leaseOf[d] = l
    BY <1>0, <1>8, <2>1 DEF ReleaseDrop, LeaseInv, RunReleases, LeaseIndexed
  <2>3. /\ UNCHANGED <<listeners, closer>> /\ proc[Run].pc = "drop" /\ proc'[Run].pc = "saveRelease"
        /\ leaseOf'[d] = None /\ \A e \in Devices \ {d} : leaseOf'[e] = leaseOf[e]
        /\ \A k \in LeaseIDs \ {l} : leases'[k] = leases[k]
    BY <1>0, <1>8, <2>1, <2>2, RunIsProc DEF ReleaseDrop, Goto, ProcRec, gate, closing
  <2>4. \A e \in Devices : ActiveLease(e)' =>
          ActiveLease(e) /\ leaseOf'[e] = leaseOf[e] /\ leases'[leaseOf[e]] = leases[leaseOf[e]]
    <3> TAKE e \in Devices
    <3> HAVE ActiveLease(e)'
    <3>1. e # d /\ leaseOf'[e] = leaseOf[e]
      BY <2>3 DEF ActiveLease
    <3>2. leaseOf[e] \in LeaseIDs \ {l}
      BY <1>0, <2>2, <3>1 DEF ActiveLease, LeaseInv, IndexLeased
    <3> QED
      BY <2>3, <3>1, <3>2 DEF ActiveLease
  <2>5. Quiet
    BY <2>3, <2>4 DEF Quiet
  <2> QED
    BY <2>5, QuietKeepsGrants
<1>9. CASE CloseGateway \/ \E d \in Devices : CloseUnbind(d)
  <2>1. UNCHANGED <<leases, leaseOf, proc>> /\ closer' \notin {"none", "wait"}
    BY <1>9 DEF CloseGateway, CloseUnbind, mgr
  <2> QED
    BY <2>1, GrantOfRun DEF GrantInv, GrantOf, ActiveLease
<1>10. ASSUME NEW c \in Conns, Authed(c) \/ ConnEnd(c) PROVE GrantInv'
  <2>1. OnlyCounts
    BY <1>10, CountEffect
  <2>2. conns[c].lease \in LeaseIDs
    BY <1>0, <1>10 DEF Authed, ConnEnd, ListenerInv, OpenHasLease
  <2>3. \/ leases' = leases
        \/ \E n : leases' = [leases EXCEPT ![conns[c].lease] = [leases[conns[c].lease] EXCEPT !.active = n]]
    BY <1>10 DEF Authed, ConnEnd, ConnectionOpened, ConnectionClosed, PutLease
  <2>4. \A l \in LeaseIDs : leases'[l].ttl = leases[l].ttl
    <3>1. PICK k \in LeaseIDs : k = conns[c].lease
      BY <2>2
    <3>2. CASE leases' = leases
      BY <3>2
    <3>3. ASSUME NEW n, leases' = [leases EXCEPT ![k] = [leases[k] EXCEPT !.active = n]]
          PROVE  \A l \in LeaseIDs : leases'[l].ttl = leases[l].ttl
      BY <1>0, <3>3 DEF LeaseRec
    <3> QED
      BY <2>3, <3>1, <3>2, <3>3
  <2>5. /\ UNCHANGED <<listeners, closer, proc>> /\ leaseOf' = leaseOf
        /\ \A l \in LeaseIDs : leases'[l].status = leases[l].status
    BY <2>1 DEF OnlyCounts, closing
  <2>6. \A d \in Devices : (ActiveLease(d)' <=> ActiveLease(d))
    BY <1>0, <2>5 DEF ActiveLease
  <2>7. Quiet
    <3>1. proc[Run].pc = "update" => proc[Run].dev \in Devices
      BY <1>0, RunIsProc DEF ClaimInv
    <3>2. ActiveLease(proc[Run].dev) /\ proc[Run].pc = "update" => ActiveLease(proc[Run].dev)'
      BY <2>5, <2>6, <3>1
    <3>3. ActiveLease(proc[Run].dev) /\ proc[Run].pc = "commit" => ActiveLease(proc[Run].dev)'
      <4>1. proc[Run].pc = "commit" => proc[Run].dev \in Devices
        BY RunIsProc, HasDevice DEF Claims, Acquiring, Exposing
      <4> QED
        BY <2>5, <2>6, <4>1
    <3> QED
      BY <1>0, <1>00, <2>4, <2>5, <2>6, <3>2, <3>3 DEF Quiet
  <2> QED
    BY <2>7, QuietKeepsGrants
<1>11. CASE Tick
  <2>1. Ages
    BY <1>11, TickEffect
  <2>2. /\ \A l \in LeaseIDs : leases'[l].ttl = Left(leases[l].ttl)
        /\ \A d \in Devices : listeners'[d].ttl = Left(listeners[d].ttl)
        /\ \A d \in Devices : listeners'[d] = [lease |-> listeners'[d].lease, ttl |-> listeners'[d].ttl]
    BY <1>0, <1>11 DEF Tick, LeaseRec, Grant
  <2>3. /\ proc'[Run].grant.ttl = Left(proc[Run].grant.ttl)
        /\ proc'[Run].grant = [lease |-> proc'[Run].grant.lease, ttl |-> proc'[Run].grant.ttl]
    BY <1>0, <1>11, RunIsProc DEF Tick, ProcRec, Grant
  <2>4. /\ leaseOf' = leaseOf /\ UNCHANGED closer
        /\ proc'[Run].pc = proc[Run].pc /\ proc'[Run].dev = proc[Run].dev
        /\ proc'[Run].grant.lease = proc[Run].grant.lease
        /\ \A l \in LeaseIDs : leases'[l].status = leases[l].status
        /\ \A d \in Devices : listeners'[d].lease = listeners[d].lease
    BY <2>1, RunIsProc DEF Ages, closing
  <2>5. \A d \in Devices : (ActiveLease(d)' <=> ActiveLease(d))
    BY <1>0, <2>4 DEF ActiveLease
  <2>6. GrantFollowsLease'
    <3> SUFFICES ASSUME NEW d \in Devices, closer' \in {"none", "wait"}, ActiveLease(d)',
                        ~(proc'[Run].pc = "update" /\ proc'[Run].dev = d)
                 PROVE  listeners'[d] = [lease |-> leaseOf'[d], ttl |-> leases'[leaseOf'[d]].ttl]
      BY GrantOfRun
    <3>1. listeners[d].lease = leaseOf[d] /\ listeners[d].ttl = leases[leaseOf[d]].ttl
      <4>1. ActiveLease(d) /\ closer \in {"none", "wait"} /\ ~(proc[Run].pc = "update" /\ proc[Run].dev = d)
        BY <2>4, <2>5
      <4>2. listeners[d] = GrantOf(leaseOf[d])
        BY <4>1, GrantOfRun DEF GrantInv
      <4> QED
        BY <4>2 DEF GrantOf
    <3>2. leaseOf[d] \in LeaseIDs
      BY <1>00, <2>5
    <3> QED
      BY <2>2, <2>4, <3>1, <3>2
  <2>7. proc'[Run].pc = "commit" /\ closer' \in {"none", "wait"} => listeners'[proc'[Run].dev] = proc'[Run].grant
    <3> HAVE proc'[Run].pc = "commit" /\ closer' \in {"none", "wait"}
    <3>1. PICK d \in Devices : d = proc[Run].dev
      BY <2>4, RunIsProc, HasDevice DEF Claims, Acquiring, Exposing
    <3>2. listeners[d] = proc[Run].grant
      BY <2>4, <3>1 DEF GrantInv
    <3> QED
      BY <2>2, <2>3, <2>4, <3>1, <3>2
  <2>8. proc'[Run].pc = "update" =>
          /\ ActiveLease(proc[Run].dev)'
          /\ proc'[Run].grant = [lease |-> leaseOf'[proc'[Run].dev], ttl |-> leases'[leaseOf'[proc'[Run].dev]].ttl]
    <3> HAVE proc'[Run].pc = "update"
    <3>1. PICK d \in Devices : d = proc[Run].dev
      BY <1>0, <2>4, RunIsProc DEF ClaimInv
    <3>2. ActiveLease(d) /\ proc[Run].grant = [lease |-> leaseOf[d], ttl |-> leases[leaseOf[d]].ttl]
      BY <2>4, <3>1 DEF GrantInv, GrantOf
    <3>3. ActiveLease(d)' /\ leaseOf[d] \in LeaseIDs
      BY <1>00, <2>5, <3>2
    <3>4. proc'[Run].grant.lease = leaseOf[d] /\ proc'[Run].grant.ttl = leases'[leaseOf[d]].ttl
      BY <2>2, <2>3, <2>4, <3>2, <3>3
    <3>5. proc'[Run].grant = [lease |-> leaseOf'[d], ttl |-> leases'[leaseOf'[d]].ttl] /\ proc'[Run].dev = d
      BY <2>3, <2>4, <3>1, <3>4
    <3> QED
      BY <3>3, <3>5 DEF ActiveLease
  <2> QED
    BY <2>6, <2>7, <2>8 DEF GrantInv, GrantOf
<1>12. CASE Restart
  <2>1. /\ \A d \in Devices : leaseOf'[d] = None
        /\ proc'[Run].pc = "idle"
    BY <1>0, <1>12, RunIsProc DEF Restart, At
  <2> QED
    BY <2>1, GrantOfRun DEF GrantInv, ActiveLease
<1> QED
  BY <1>1, <1>2, <1>3, <1>4, <1>5, <1>6, <1>7, <1>8, <1>9, <1>10, <1>11, <1>12, GrantSteps

\* Where the run loop is the only goroutine that acquires, as in the program's own main,
\* a listener admits by the expiry its lease has, except while a renewal is being pushed.
THEOREM RemoteGrantFollowsLease ==
  ASSUME Callers = {}
  PROVE  Spec => []GrantFollowsLease
<1>1. Init => GrantInv
  <2> HAVE Init
  <2>1. (\A d \in Devices : leaseOf[d] = None) /\ proc[Run].pc = "idle"
    BY RunIsProc DEF Init, At
  <2> QED
    BY <2>1, GrantOfRun DEF GrantInv, ActiveLease
<1>2. IndInv /\ GrantInv /\ [Next]_vars => GrantInv'
  BY GrantNext
<1>3. GrantInv => GrantFollowsLease
  BY DEF GrantInv
<1> QED
  BY <1>1, <1>2, <1>3, Inductive, PTL DEF Spec
=============================================================================
