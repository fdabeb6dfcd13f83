------------------------------ MODULE HostAuth ------------------------------
(***************************************************************************)
(* The host authorisation registry (internal/hostauth/registry.go and      *)
(* store.go): connection handlers block in Submit until the operator's     *)
(* console decides their request or the confirmation times out; "always    *)
(* allow" adds the fingerprint to the trusted hosts, which are kept in     *)
(* memory and in known_hosts.json.                                         *)
(*                                                                         *)
(* A request slot is one handler inside Submit; an operator is one HTTP    *)
(* request of the console inside Decide or Revoke.  A slot is used again   *)
(* once nobody mentions it, request IDs being random.                      *)
(***************************************************************************)
EXTENDS Naturals

CONSTANTS
  Requests,   \* slots for handlers inside Submit
  Hosts,      \* host key fingerprints
  Operators,  \* console requests being served
  None

Allowing == {"allow_once", "allow_forever"}
Decisions == Allowing \cup {"deny"}

ASSUME HostAuthAssumption == None \notin Requests \cup Hosts \cup Decisions \cup {"expired"}

VARIABLES
  hosts,    \* Registry.hosts, the trusted fingerprints
  file,     \* the fingerprints in known_hosts.json
  pending,  \* Registry.pending, the requests Decide can find
  req,      \* per slot: where Submit is, its result channel and what it returns
  op,       \* per operator: where Decide or Revoke is, and its local variables
  promised, \* history: hosts whose "always allow" succeeded, less those revoked
  revoked,  \* history: hosts whose revocation succeeded, less those allowed again
  allowed,  \* history: the allowing decisions taken on a request
  overlap   \* history: has a list been taken while another was still to be written?

kept == <<promised, revoked, overlap>>
vars == <<hosts, file, pending, req, op, kept, allowed>>

\* box is the channel of capacity one; out is what Submit returns.
ReqRec == [st: {"free", "waiting", "leaving", "returned"}, host: Hosts \cup {None},
           box: Decisions \cup {None}, out: Decisions \cup {"expired", None}]
NoReq == [st |-> "free", host |-> None, box |-> None, out |-> None]

OpRec == [pc: {"idle", "save", "deliver", "saveRevoke"}, req: Requests \cup {None},
          host: Hosts \cup {None}, decision: Decisions \cup {None}, list: SUBSET Hosts]
NoOp == [pc |-> "idle", req |-> None, host |-> None, decision |-> None, list |-> {}]

Init ==
  /\ hosts = {} /\ file = {} /\ pending = {}
  /\ req = [r \in Requests |-> NoReq]
  /\ op = [o \in Operators |-> NoOp]
  /\ promised = {} /\ revoked = {} /\ overlap = FALSE
  /\ allowed = [r \in Requests |-> {}]

-----------------------------------------------------------------------------
(* Submit *)

\* A trusted host passes at once, any other one is published as pending.
Submit(r, h) ==
  /\ req[r].st = "free"
  /\ IF h \in hosts
     THEN /\ req' = [req EXCEPT ![r] = [@ EXCEPT !.st = "returned", !.host = h,
                                                 !.out = "allow_forever"]]
          /\ allowed' = [allowed EXCEPT ![r] = {"allow_forever"}]
          /\ UNCHANGED pending
     ELSE /\ req' = [req EXCEPT ![r] = [@ EXCEPT !.st = "waiting", !.host = h]]
          /\ pending' = pending \cup {r}
          /\ UNCHANGED allowed
  /\ UNCHANGED <<hosts, file, op, kept>>

\* select: a decision has been delivered ...
SubmitDecided(r) ==
  /\ req[r].st = "waiting" /\ req[r].box # None
  /\ req' = [req EXCEPT ![r] = [@ EXCEPT !.st = "leaving", !.out = req[r].box, !.box = None]]
  /\ UNCHANGED <<hosts, file, pending, op, kept, allowed>>

\* Mutant: the confirmation fails open.
SubmitExpires_Allows(r) ==
  /\ req[r].st = "waiting"
  /\ req' = [req EXCEPT ![r] = [@ EXCEPT !.st = "leaving", !.out = "allow_once"]]
  /\ UNCHANGED <<hosts, file, pending, op, kept, allowed>>

\* ... or the timer fires, chosen at random when both are ready.
SubmitExpires(r) ==
  /\ req[r].st = "waiting"
  /\ req' = [req EXCEPT ![r] = [@ EXCEPT !.st = "leaving", !.out = "expired"]]
  /\ UNCHANGED <<hosts, file, pending, op, kept, allowed>>

\* ... or the caller's context ends, which no handler of the gateway does to
\* itself while it waits.
SubmitCancelled(r) ==
  /\ req[r].st = "waiting"
  /\ req' = [req EXCEPT ![r] = [@ EXCEPT !.st = "leaving", !.out = "deny"]]
  /\ UNCHANGED <<hosts, file, pending, op, kept, allowed>>

\* Lock again: withdraw the request.  Until then Decide can still find it.
SubmitReturns(r) ==
  /\ req[r].st = "leaving"
  /\ req' = [req EXCEPT ![r].st = "returned"]
  /\ pending' = pending \ {r}
  /\ UNCHANGED <<hosts, file, op, kept, allowed>>

\* The handler goes on with the decision; its waiter is garbage once no operator
\* holds a pointer to it.
HandlerGoesOn(r) ==
  /\ req[r].st = "returned" /\ \A o \in Operators : op[o].req # r
  /\ req' = [req EXCEPT ![r] = NoReq]
  /\ allowed' = [allowed EXCEPT ![r] = {}]
  /\ UNCHANGED <<hosts, file, pending, op, kept>>

-----------------------------------------------------------------------------
(* Decide and Revoke *)

\* A list is taken under mu, to be written under saveMu.
TakesList == overlap' = (overlap \/ \E o \in Operators : op[o].pc \in {"save", "saveRevoke"})

\* Find the request; "always allow" trusts its host before anything is saved.
Decide(o, r, decision) ==
  LET h == req[r].host  forever == decision = "allow_forever" IN
  /\ op[o].pc = "idle" /\ r \in pending
  /\ hosts' = IF forever THEN hosts \cup {h} ELSE hosts
  /\ op' = [op EXCEPT ![o] = [pc |-> IF forever THEN "save" ELSE "deliver", req |-> r, host |-> h,
                              decision |-> decision, list |-> IF forever THEN hosts' ELSE {}]]
  /\ allowed' = [allowed EXCEPT ![r] = @ \cup ({decision} \cap Allowing)]
  /\ revoked' = IF forever THEN revoked \ {h} ELSE revoked
  /\ IF forever THEN TakesList ELSE UNCHANGED overlap
  /\ UNCHANGED <<file, pending, req, promised>>

\* save under saveMu: the list taken under mu replaces the file.
DecideSaves(o) ==
  /\ op[o].pc = "save"
  /\ file' = op[o].list
  /\ promised' = IF op[o].host \in hosts THEN promised \cup {op[o].host} ELSE promised
  /\ op' = [op EXCEPT ![o].pc = "deliver"]
  /\ UNCHANGED <<hosts, pending, req, revoked, overlap, allowed>>

\* save fails: Decide returns the error, the host stays trusted in memory and
\* the request stays undecided.
DecideSaveFails(o) ==
  /\ op[o].pc = "save"
  /\ op' = [op EXCEPT ![o] = NoOp]
  /\ UNCHANGED <<hosts, file, pending, req, kept, allowed>>

\* The non-blocking send: a full channel drops the decision, and a waiter that
\* has left never reads it.
DecideDelivers(o) ==
  LET r == op[o].req IN
  /\ op[o].pc = "deliver"
  /\ req' = IF req[r].box = None THEN [req EXCEPT ![r].box = op[o].decision] ELSE req
  /\ op' = [op EXCEPT ![o] = NoOp]
  /\ UNCHANGED <<hosts, file, pending, kept, allowed>>

\* Distrust a host; connections of the host are left alone.
Revoke(o, h) ==
  /\ op[o].pc = "idle" /\ h \in hosts
  /\ hosts' = hosts \ {h}
  /\ promised' = promised \ {h}
  /\ op' = [op EXCEPT ![o] = [NoOp EXCEPT !.pc = "saveRevoke", !.host = h, !.list = hosts']]
  /\ TakesList
  /\ UNCHANGED <<file, pending, req, revoked, allowed>>

\* Mutant: the list of before the deletion is written.
RevokeSaves_Stale(o) ==
  /\ op[o].pc = "saveRevoke"
  /\ file' = op[o].list \cup {op[o].host}
  /\ revoked' = IF op[o].host \in hosts THEN revoked ELSE revoked \cup {op[o].host}
  /\ op' = [op EXCEPT ![o] = NoOp]
  /\ UNCHANGED <<hosts, pending, req, promised, overlap, allowed>>

RevokeSaves(o) ==
  /\ op[o].pc = "saveRevoke"
  /\ file' = op[o].list
  /\ revoked' = IF op[o].host \in hosts THEN revoked ELSE revoked \cup {op[o].host}
  /\ op' = [op EXCEPT ![o] = NoOp]
  /\ UNCHANGED <<hosts, pending, req, promised, overlap, allowed>>

\* save fails: the error is returned, the host is distrusted until the restart.
RevokeSaveFails(o) ==
  /\ op[o].pc = "saveRevoke"
  /\ op' = [op EXCEPT ![o] = NoOp]
  /\ UNCHANGED <<hosts, file, pending, req, kept, allowed>>

\* NewRegistry: only the file survives.
Restart ==
  /\ hosts' = file /\ pending' = {}
  /\ req' = [r \in Requests |-> NoReq]
  /\ op' = [o \in Operators |-> NoOp]
  /\ allowed' = [r \in Requests |-> {}]
  /\ UNCHANGED <<file, kept>>

Next ==
  \/ \E r \in Requests :
       \/ \E h \in Hosts : Submit(r, h)
       \/ SubmitDecided(r) \/ SubmitExpires(r) \/ SubmitCancelled(r)
       \/ SubmitReturns(r) \/ HandlerGoesOn(r)
  \/ \E o \in Operators :
       \/ \E r \in Requests, d \in Decisions : Decide(o, r, d)
       \/ DecideSaves(o) \/ DecideSaveFails(o) \/ DecideDelivers(o)
       \/ \E h \in Hosts : Revoke(o, h)
       \/ RevokeSaves(o) \/ RevokeSaveFails(o)
  \/ Restart

Spec == Init /\ [][Next]_vars

-----------------------------------------------------------------------------
\* Types; and Submit never returns without a decision.
TypeOK ==
  /\ hosts \in SUBSET Hosts /\ file \in SUBSET Hosts
  /\ pending \in SUBSET Requests
  /\ req \in [Requests -> ReqRec]
  /\ \A r \in Requests : req[r].st = "returned" => req[r].out # None
  /\ op \in [Operators -> OpRec]
  /\ promised \in SUBSET Hosts /\ revoked \in SUBSET Hosts
  /\ allowed \in [Requests -> SUBSET Allowing]
  /\ overlap \in BOOLEAN

\* No host gets through unless it was trusted when it asked or an operator allowed
\* this very request, in the way Submit returns, whatever the timer, a second
\* operator or a revocation does meanwhile.
OnlyAllowedPass ==
  \A r \in Requests :
    req[r].st \in {"leaving", "returned"} /\ req[r].out \in Allowing => req[r].out \in allowed[r]

\* "Always allow is written to known_hosts.json, next time it passes directly"
\* (README.md:33): a host whose "always allow" has succeeded and that was not
\* revoked since is in the file, and a host whose revocation has succeeded and that
\* was not allowed again is not, so that a restart does not trust it again: through
\* crashes and failed saves, as long as no list is taken while another waits.
DecisionsAreDurable == ~overlap => promised \subseteq file /\ revoked \cap file = {}
=============================================================================
