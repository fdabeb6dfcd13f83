--------------------------- MODULE HostAuthProofs ---------------------------
(***************************************************************************)
(* Host authorisation for any number of requests, hosts and operators: who *)
(* passes was allowed to, and what the operator decided for good outlives  *)
(* failed saves and restarts as long as saves do not overlap.              *)
(***************************************************************************)
EXTENDS HostAuth, TLAPS

\* Everybody who is between taking a list and writing it.
Saving == {o \in Operators : op[o].pc \in {"save", "saveRevoke"}}

-----------------------------------------------------------------------------
(* Requests *)

\* A free slot is empty, a request that can be found is in Submit, and a handler
\* that has left the select has something to return.
SlotForm ==
  \A r \in Requests :
    /\ req[r].st = "free" => req[r] = NoReq
    /\ req[r].st # "free" => req[r].host \in Hosts
    /\ r \in pending => req[r].st \in {"waiting", "leaving"}
    /\ req[r].st \in {"leaving", "returned"} => req[r].out # None

\* An operator's decision is about a request whose slot is not used again before
\* the operator is done with it.
OperatorHolds ==
  \A o \in Operators :
    /\ op[o].pc \in {"save", "deliver"} => op[o].req \in Requests /\ op[o].decision \in Decisions
    /\ op[o].req # None => req[op[o].req].st # "free"
    /\ op[o].pc # "idle" => op[o].host \in Hosts

\* What may come out of Submit was allowed: the decision an operator carries to the
\* channel, and the decision in the channel.
AllowedOnItsWay ==
  /\ \A o \in Operators : op[o].pc \in {"save", "deliver"} /\ op[o].decision \in Allowing
       => op[o].decision \in allowed[op[o].req]
  /\ \A r \in Requests : req[r].box \in Allowing => req[r].box \in allowed[r]

ReqInv == SlotForm /\ OperatorHolds /\ AllowedOnItsWay /\ OnlyAllowedPass

-----------------------------------------------------------------------------
(* The file *)

\* While saves do not overlap, one operator at most is saving, the list it writes
\* is what the registry trusts, and the registry agrees with what was promised.
FileInv ==
  ~overlap =>
    /\ \A o, p \in Saving : o = p
    /\ \A o \in Saving : op[o].list = hosts
    /\ promised \subseteq hosts /\ revoked \cap hosts = {}
    /\ promised \subseteq file /\ revoked \cap file = {}

Inv == TypeOK /\ ReqInv /\ FileInv

-----------------------------------------------------------------------------
(* Every step keeps the invariant *)

\* The empty slot and the idle operator.
LEMMA Empty ==
  /\ NoReq \in ReqRec /\ NoReq.st = "free" /\ NoReq.box = None /\ NoReq.out = None
  /\ NoOp \in OpRec /\ NoOp.pc = "idle" /\ NoOp.req = None
BY DEF NoReq, ReqRec, NoOp, OpRec

\* What a decision is not.
LEMMA NoneDecided == "expired" \notin Allowing /\ "deny" \notin Allowing /\ Allowing \subseteq Decisions
BY DEF Allowing, Decisions

\* The types after a step of Submit.
LEMMA SubmitTypes ==
  ASSUME TypeOK, SlotForm, NEW r \in Requests, NEW h,
         \/ h \in Hosts /\ Submit(r, h)
         \/ SubmitDecided(r) \/ SubmitExpires(r) \/ SubmitCancelled(r)
         \/ SubmitReturns(r) \/ HandlerGoesOn(r)
  PROVE  TypeOK'
<1>0. /\ req \in [Requests -> ReqRec] /\ allowed \in [Requests -> SUBSET Allowing]
      /\ \A q \in Requests : req[q].st = "returned" => req[q].out # None
      /\ pending \in SUBSET Requests
  BY DEF TypeOK
<1>1. req' \in [Requests -> ReqRec]
  <2>1. CASE HandlerGoesOn(r)
    BY <1>0, <2>1, Empty DEF HandlerGoesOn
  <2>2. CASE SubmitDecided(r)
    BY <1>0, <2>2 DEF SubmitDecided, ReqRec
  <2>3. CASE h \in Hosts /\ Submit(r, h)
    <3>1. [req[r] EXCEPT !.st = "returned", !.host = h, !.out = "allow_forever"] \in ReqRec
      BY <1>0, <2>3 DEF ReqRec, Decisions, Allowing
    <3>2. [req[r] EXCEPT !.st = "waiting", !.host = h] \in ReqRec
      BY <1>0, <2>3 DEF ReqRec
    <3> QED
      BY <1>0, <2>3, <3>1, <3>2 DEF Submit
  <2>4. CASE SubmitExpires(r) \/ SubmitCancelled(r) \/ SubmitReturns(r)
    <3>1. /\ [req[r] EXCEPT !.st = "leaving", !.out = "expired"] \in ReqRec
          /\ [req[r] EXCEPT !.st = "leaving", !.out = "deny"] \in ReqRec
          /\ [req[r] EXCEPT !.st = "returned"] \in ReqRec
      BY <1>0 DEF ReqRec, Decisions
    <3> QED
      BY <1>0, <2>4, <3>1 DEF SubmitExpires, SubmitCancelled, SubmitReturns
  <2> QED
    BY <2>1, <2>2, <2>3, <2>4
<1>2. \A q \in Requests : req'[q].st = "returned" => req'[q].out # None
  <2>1. \A q \in Requests \ {r} : req'[q] = req[q]
    BY <1>0 DEF Submit, SubmitDecided, SubmitExpires, SubmitCancelled, SubmitReturns, HandlerGoesOn
  <2>2. req'[r].st = "returned" => req'[r].out # None
    <3>1. CASE h \in Hosts /\ Submit(r, h)
      <4>1. \/ req'[r] = [req[r] EXCEPT !.st = "returned", !.host = h, !.out = "allow_forever"]
            \/ req'[r] = [req[r] EXCEPT !.st = "waiting", !.host = h]
        BY <1>0, <3>1 DEF Submit
      <4> QED
        BY <1>0, <4>1, HostAuthAssumption DEF ReqRec, Decisions, Allowing
    <3>2. CASE SubmitReturns(r)
      <4>1. req'[r] = [req[r] EXCEPT !.st = "returned"] /\ req[r].st = "leaving"
        BY <1>0, <3>2 DEF SubmitReturns
      <4> QED
        BY <1>0, <4>1 DEF SlotForm, ReqRec
    <3>3. CASE SubmitDecided(r) \/ SubmitExpires(r) \/ SubmitCancelled(r)
      BY <1>0, <3>3 DEF SubmitDecided, SubmitExpires, SubmitCancelled, ReqRec
    <3>4. CASE HandlerGoesOn(r)
      BY <1>0, <3>4, Empty DEF HandlerGoesOn
    <3> QED
      BY <3>1, <3>2, <3>3, <3>4
  <2> QED
    BY <1>0, <2>1, <2>2
<1>3. pending' \in SUBSET Requests /\ allowed' \in [Requests -> SUBSET Allowing]
  BY <1>0 DEF Submit, SubmitDecided, SubmitExpires, SubmitCancelled, SubmitReturns, HandlerGoesOn,
       Allowing
<1>4. UNCHANGED <<hosts, file, op, kept>>
  BY DEF Submit, SubmitDecided, SubmitExpires, SubmitCancelled, SubmitReturns, HandlerGoesOn
<1> QED
  BY <1>1, <1>2, <1>3, <1>4 DEF TypeOK, kept

\* The types after a step of an operator, and after a restart.
LEMMA OperatorTypes ==
  ASSUME TypeOK, SlotForm, OperatorHolds, NEW o \in Operators,
         \/ \E r \in Requests, d \in Decisions : Decide(o, r, d)
         \/ DecideSaves(o) \/ DecideSaveFails(o) \/ DecideDelivers(o)
         \/ \E h \in Hosts : Revoke(o, h)
         \/ RevokeSaves(o) \/ RevokeSaveFails(o)
  PROVE  TypeOK'
<1>0. /\ req \in [Requests -> ReqRec] /\ allowed \in [Requests -> SUBSET Allowing]
      /\ \A q \in Requests : req[q].st = "returned" => req[q].out # None
      /\ pending \in SUBSET Requests /\ op \in [Operators -> OpRec] /\ op[o] \in OpRec
      /\ hosts \in SUBSET Hosts /\ file \in SUBSET Hosts /\ promised \in SUBSET Hosts
      /\ revoked \in SUBSET Hosts /\ overlap \in BOOLEAN
  BY DEF TypeOK
<1>1. ASSUME NEW r \in Requests, NEW d \in Decisions, Decide(o, r, d) PROVE TypeOK'
  <2> DEFINE rec == [pc |-> IF d = "allow_forever" THEN "save" ELSE "deliver", req |-> r,
                     host |-> req[r].host, decision |-> d,
                     list |-> IF d = "allow_forever" THEN hosts' ELSE {}]
  <2>1. req[r].host \in Hosts
    BY <1>1 DEF Decide, SlotForm
  <2>2. hosts' \in SUBSET Hosts /\ revoked' \in SUBSET Hosts /\ overlap' \in BOOLEAN
    BY <1>0, <1>1, <2>1 DEF Decide, TakesList
  <2>3. rec \in OpRec
    BY <2>1, <2>2 DEF OpRec
  <2>4. op' = [op EXCEPT ![o] = rec]
    BY <1>1 DEF Decide
  <2> HIDE DEF rec
  <2>5. op' \in [Operators -> OpRec] /\ allowed' \in [Requests -> SUBSET Allowing]
    BY <1>0, <1>1, <2>3, <2>4 DEF Decide
  <2> QED
    BY <1>0, <1>1, <2>2, <2>5 DEF Decide, TypeOK
<1>2. ASSUME NEW h \in Hosts, Revoke(o, h) PROVE TypeOK'
  <2>1. hosts' \in SUBSET Hosts /\ promised' \in SUBSET Hosts /\ overlap' \in BOOLEAN
    BY <1>0, <1>2 DEF Revoke, TakesList
  <2>2. op' \in [Operators -> OpRec]
    <3>1. [NoOp EXCEPT !.pc = "saveRevoke", !.host = h, !.list = hosts'] \in OpRec
      BY <2>1 DEF NoOp, OpRec
    <3> QED
      BY <1>0, <1>2, <3>1 DEF Revoke
  <2> QED
    BY <1>0, <1>2, <2>1, <2>2 DEF Revoke, TypeOK
<1>3. CASE DecideSaves(o)
  <2>1. op' \in [Operators -> OpRec]
    BY <1>0, <1>3 DEF DecideSaves, OpRec
  <2>2. file' \in SUBSET Hosts
    BY <1>0, <1>3 DEF DecideSaves, OpRec
  <2>3. promised' \in SUBSET Hosts
    BY <1>0, <1>3 DEF DecideSaves, OperatorHolds
  <2> QED
    BY <1>0, <1>3, <2>1, <2>2, <2>3 DEF DecideSaves, TypeOK
<1>4. CASE DecideDelivers(o)
  <2>1. op[o].req \in Requests /\ op[o].decision \in Decisions
    BY <1>4 DEF DecideDelivers, OperatorHolds
  <2>2. /\ req' \in [Requests -> ReqRec]
        /\ \A q \in Requests : req'[q].st = req[q].st /\ req'[q].out = req[q].out
    BY <1>0, <1>4, <2>1 DEF DecideDelivers, ReqRec
  <2>3. op' \in [Operators -> OpRec]
    BY <1>0, <1>4, Empty DEF DecideDelivers
  <2> QED
    BY <1>0, <1>4, <2>2, <2>3 DEF DecideDelivers, TypeOK, kept
<1>5. CASE RevokeSaves(o)
  <2>1. op' \in [Operators -> OpRec]
    BY <1>0, <1>5, Empty DEF RevokeSaves
  <2>2. file' \in SUBSET Hosts
    BY <1>0, <1>5 DEF RevokeSaves, OpRec
  <2>3. revoked' \in SUBSET Hosts
    BY <1>0, <1>5 DEF RevokeSaves, OperatorHolds
  <2> QED
    BY <1>0, <1>5, <2>1, <2>2, <2>3 DEF RevokeSaves, TypeOK
<1>6. CASE DecideSaveFails(o) \/ RevokeSaveFails(o)
  <2>1. op' \in [Operators -> OpRec]
    BY <1>0, <1>6, Empty DEF DecideSaveFails, RevokeSaveFails
  <2> QED
    BY <1>0, <1>6, <2>1 DEF DecideSaveFails, RevokeSaveFails, TypeOK, kept
<1> QED
  BY <1>1, <1>2, <1>3, <1>4, <1>5, <1>6

\* A step of Submit: only the slot it works in changes, and no operator's.
LEMMA SubmitReq ==
  ASSUME TypeOK, ReqInv, NEW r \in Requests, NEW h,
         \/ h \in Hosts /\ Submit(r, h)
         \/ SubmitDecided(r) \/ SubmitExpires(r) \/ SubmitCancelled(r)
         \/ SubmitReturns(r) \/ HandlerGoesOn(r)
  PROVE  ReqInv'
<1>0. /\ req \in [Requests -> ReqRec] /\ allowed \in [Requests -> SUBSET Allowing]
      /\ op \in [Operators -> OpRec] /\ UNCHANGED op /\ req[r] \in ReqRec
      /\ SlotForm /\ OperatorHolds /\ AllowedOnItsWay /\ OnlyAllowedPass
  BY DEF TypeOK, ReqInv, Submit, SubmitDecided, SubmitExpires, SubmitCancelled, SubmitReturns, HandlerGoesOn
<1>9. \A p \in Operators : op[p].req \in Requests \cup {None}
  BY <1>0 DEF OpRec
<1>1. \A q \in Requests \ {r} : req'[q] = req[q] /\ allowed'[q] = allowed[q] /\ (q \in pending' <=> q \in pending)
  BY <1>0 DEF Submit, SubmitDecided, SubmitExpires, SubmitCancelled, SubmitReturns, HandlerGoesOn
<1>2. CASE h \in Hosts /\ Submit(r, h)
  <2>1. req[r] = NoReq /\ \A o \in Operators : op[o].req # r
    BY <1>0, <1>2, HostAuthAssumption DEF Submit, SlotForm, OperatorHolds
  <2>2. /\ req'[r].host = h /\ req'[r].box = None
        /\ \/ /\ req'[r].st = "returned" /\ req'[r].out = "allow_forever"
              /\ allowed'[r] = {"allow_forever"} /\ UNCHANGED pending
           \/ req'[r].st = "waiting" /\ req'[r].out = None /\ UNCHANGED allowed
    <3>1. \/ /\ req'[r] = [NoReq EXCEPT !.st = "returned", !.host = h, !.out = "allow_forever"]
             /\ allowed'[r] = {"allow_forever"} /\ UNCHANGED pending
          \/ req'[r] = [NoReq EXCEPT !.st = "waiting", !.host = h] /\ UNCHANGED allowed
      BY <1>0, <1>2, <2>1 DEF Submit
    <3> QED
      BY <3>1 DEF NoReq
  <2>3. r \notin pending
    BY <1>0, <1>2 DEF Submit, SlotForm
  <2>4. SlotForm'
    BY <1>0, <1>1, <1>2, <2>2, <2>3, HostAuthAssumption DEF SlotForm, Decisions, Allowing
  <2>5. OperatorHolds'
    BY <1>0, <1>1, <1>9, <2>1, <2>2 DEF OperatorHolds
  <2>6. AllowedOnItsWay'
    BY <1>0, <1>1, <2>1, <2>2, HostAuthAssumption DEF AllowedOnItsWay, OperatorHolds, Decisions
  <2>7. OnlyAllowedPass'
    BY <1>0, <1>1, <2>2 DEF OnlyAllowedPass
  <2> QED
    BY <2>4, <2>5, <2>6, <2>7 DEF ReqInv
<1>3. CASE SubmitDecided(r) \/ SubmitExpires(r) \/ SubmitCancelled(r)
  <2>1. /\ req[r].st = "waiting" /\ req'[r].st = "leaving" /\ req'[r].host = req[r].host
        /\ UNCHANGED <<pending, allowed>>
        /\ \/ req'[r].out = req[r].box /\ req[r].box # None /\ req'[r].box = None
           \/ req'[r].out \in {"expired", "deny"} /\ req'[r].box = req[r].box
    <3>1. /\ req[r].st = "waiting" /\ UNCHANGED <<pending, allowed>>
          /\ \/ req'[r] = [req[r] EXCEPT !.st = "leaving", !.out = req[r].box, !.box = None] /\ req[r].box # None
             \/ req'[r] = [req[r] EXCEPT !.st = "leaving", !.out = "expired"]
             \/ req'[r] = [req[r] EXCEPT !.st = "leaving", !.out = "deny"]
      BY <1>0, <1>3 DEF SubmitDecided, SubmitExpires, SubmitCancelled
    <3> QED
      BY <1>0, <3>1 DEF ReqRec
  <2>2. SlotForm'
    BY <1>0, <1>1, <2>1, HostAuthAssumption DEF SlotForm, Decisions
  <2>3. OperatorHolds'
    BY <1>0, <1>1, <1>9, <2>1 DEF OperatorHolds
  <2>4. AllowedOnItsWay'
    BY <1>0, <1>1, <2>1, HostAuthAssumption DEF AllowedOnItsWay, OperatorHolds, Decisions
  <2>5. OnlyAllowedPass'
    BY <1>0, <1>1, <2>1, NoneDecided DEF OnlyAllowedPass, AllowedOnItsWay
  <2> QED
    BY <2>2, <2>3, <2>4, <2>5 DEF ReqInv
<1>4. CASE SubmitReturns(r)
  <2>1. /\ req[r].st = "leaving" /\ req'[r].st = "returned" /\ req'[r].host = req[r].host
        /\ req'[r].box = req[r].box /\ req'[r].out = req[r].out
        /\ pending' = pending \ {r} /\ UNCHANGED allowed
    BY <1>0, <1>4 DEF SubmitReturns, ReqRec
  <2>2. SlotForm'
    BY <1>0, <1>1, <2>1 DEF SlotForm
  <2>3. OperatorHolds'
    BY <1>0, <1>1, <1>9, <2>1 DEF OperatorHolds
  <2>4. AllowedOnItsWay'
    BY <1>0, <1>1, <2>1 DEF AllowedOnItsWay
  <2>5. OnlyAllowedPass'
    BY <1>0, <1>1, <2>1 DEF OnlyAllowedPass
  <2> QED
    BY <2>2, <2>3, <2>4, <2>5 DEF ReqInv
<1>5. CASE HandlerGoesOn(r)
  <2>1. /\ req[r].st = "returned" /\ req'[r] = NoReq /\ allowed'[r] = {} /\ UNCHANGED pending
        /\ \A o \in Operators : op[o].req # r
    BY <1>0, <1>5 DEF HandlerGoesOn
  <2>2. r \notin pending
    BY <1>0, <2>1 DEF SlotForm
  <2>3. SlotForm'
    BY <1>0, <1>1, <2>1, <2>2, Empty DEF SlotForm
  <2>4. OperatorHolds'
    BY <1>0, <1>1, <1>9, <2>1 DEF OperatorHolds
  <2>5. AllowedOnItsWay'
    BY <1>0, <1>1, <2>1, Empty, HostAuthAssumption DEF AllowedOnItsWay, OperatorHolds, Decisions
  <2>6. OnlyAllowedPass'
    BY <1>0, <1>1, <2>1, Empty DEF OnlyAllowedPass
  <2> QED
    BY <2>3, <2>4, <2>5, <2>6 DEF ReqInv
<1> QED
  BY <1>2, <1>3, <1>4, <1>5

\* A step of an operator: what it delivers was allowed on that very request.
LEMMA OperatorReq ==
  ASSUME TypeOK, ReqInv, NEW o \in Operators,
         \/ \E r \in Requests, d \in Decisions : Decide(o, r, d)
         \/ DecideSaves(o) \/ DecideSaveFails(o) \/ DecideDelivers(o)
         \/ \E h \in Hosts : Revoke(o, h)
         \/ RevokeSaves(o) \/ RevokeSaveFails(o)
  PROVE  ReqInv'
<1>0. /\ req \in [Requests -> ReqRec] /\ allowed \in [Requests -> SUBSET Allowing]
      /\ op \in [Operators -> OpRec] /\ op[o] \in OpRec /\ UNCHANGED pending
      /\ SlotForm /\ OperatorHolds /\ AllowedOnItsWay /\ OnlyAllowedPass
  BY DEF TypeOK, ReqInv, Decide, DecideSaves, DecideSaveFails, DecideDelivers, Revoke, RevokeSaves,
       RevokeSaveFails
<1>9. \A p \in Operators : op[p].req \in Requests \cup {None}
  BY <1>0 DEF OpRec
<1>1. \A p \in Operators \ {o} : op'[p] = op[p]
  BY <1>0 DEF Decide, DecideSaves, DecideSaveFails, DecideDelivers, Revoke, RevokeSaves, RevokeSaveFails
<1>2. ASSUME NEW r \in Requests, NEW d \in Decisions, Decide(o, r, d) PROVE ReqInv'
  <2>1. /\ op'[o].req = r /\ op'[o].decision = d /\ op'[o].host = req[r].host /\ r \in pending
        /\ UNCHANGED req
    BY <1>0, <1>2 DEF Decide
  <2>2. /\ allowed'[r] = allowed[r] \cup ({d} \cap Allowing)
        /\ \A q \in Requests \ {r} : allowed'[q] = allowed[q]
    BY <1>0, <1>2 DEF Decide
  <2>3. SlotForm'
    BY <1>0, <2>1 DEF SlotForm
  <2>4. OperatorHolds'
    BY <1>0, <1>1, <2>1 DEF OperatorHolds, SlotForm
  <2>5. AllowedOnItsWay'
    BY <1>0, <1>1, <2>1, <2>2 DEF AllowedOnItsWay, OperatorHolds
  <2>6. OnlyAllowedPass'
    BY <1>0, <2>1, <2>2 DEF OnlyAllowedPass
  <2> QED
    BY <2>3, <2>4, <2>5, <2>6 DEF ReqInv
<1>3. ASSUME UNCHANGED <<req, allowed>>,
             \/ op'[o].pc \in {"idle", "saveRevoke"} /\ op'[o].req = None
             \/ /\ op[o].pc = "save" /\ op'[o].pc = "deliver" /\ op'[o].req = op[o].req
                /\ op'[o].decision = op[o].decision,
             op'[o].pc # "idle" => op'[o].host \in Hosts
      PROVE  ReqInv'
  <2>1. SlotForm'
    BY <1>0, <1>3 DEF SlotForm
  <2>2. OperatorHolds'
    BY <1>0, <1>1, <1>3 DEF OperatorHolds
  <2>3. AllowedOnItsWay'
    BY <1>0, <1>1, <1>3 DEF AllowedOnItsWay
  <2>4. OnlyAllowedPass'
    BY <1>0, <1>3 DEF OnlyAllowedPass
  <2> QED
    BY <2>1, <2>2, <2>3, <2>4 DEF ReqInv
<1>4. CASE DecideSaves(o)
  <2>1. /\ op[o].pc = "save" /\ op'[o].pc = "deliver" /\ op'[o].req = op[o].req
        /\ op'[o].decision = op[o].decision /\ op'[o].host = op[o].host /\ UNCHANGED <<req, allowed>>
    BY <1>0, <1>4 DEF DecideSaves, OpRec
  <2> QED
    BY <1>0, <1>3, <2>1 DEF OperatorHolds
<1>5. CASE DecideSaveFails(o) \/ RevokeSaves(o) \/ RevokeSaveFails(o)
  <2>1. op'[o] = NoOp /\ UNCHANGED <<req, allowed>>
    BY <1>0, <1>5 DEF DecideSaveFails, RevokeSaves, RevokeSaveFails
  <2> QED
    BY <1>3, <2>1, Empty
<1>6. ASSUME NEW h \in Hosts, Revoke(o, h) PROVE ReqInv'
  <2>1. /\ op'[o].pc = "saveRevoke" /\ op'[o].req = None /\ op'[o].host = h
        /\ UNCHANGED <<req, allowed>>
    BY <1>0, <1>6 DEF Revoke, NoOp
  <2> QED
    BY <1>3, <2>1
<1>7. CASE DecideDelivers(o)
  <2> DEFINE r == op[o].req
  <2>1. /\ r \in Requests /\ op'[o] = NoOp /\ UNCHANGED allowed /\ req[r].st # "free"
        /\ op[o].decision \in Decisions
        /\ (op[o].decision \in Allowing => op[o].decision \in allowed[r])
    BY <1>0, <1>7, HostAuthAssumption DEF DecideDelivers, OperatorHolds, AllowedOnItsWay
  <2>2. /\ \A q \in Requests \ {r} : req'[q] = req[q]
        /\ req'[r].st = req[r].st /\ req'[r].host = req[r].host /\ req'[r].out = req[r].out
        /\ req'[r].box \in {req[r].box, op[o].decision}
    BY <1>0, <1>7, <2>1 DEF DecideDelivers, ReqRec
  <2> HIDE DEF r
  <2>3. SlotForm'
    BY <1>0, <2>1, <2>2 DEF SlotForm
  <2>4. OperatorHolds'
    BY <1>0, <1>1, <1>9, <2>1, <2>2, Empty DEF OperatorHolds
  <2>5. AllowedOnItsWay'
    BY <1>0, <1>1, <2>1, <2>2, Empty DEF AllowedOnItsWay
  <2>6. OnlyAllowedPass'
    BY <1>0, <2>1, <2>2 DEF OnlyAllowedPass
  <2> QED
    BY <2>3, <2>4, <2>5, <2>6 DEF ReqInv
<1> QED
  BY <1>2, <1>4, <1>5, <1>6, <1>7

\* The file follows: only a save writes it, and overlap remembers when two lists
\* were under way at once.
LEMMA FileNext ==
  ASSUME Inv, [Next]_vars
  PROVE  FileInv'
<1>0. /\ op \in [Operators -> OpRec] /\ hosts \in SUBSET Hosts /\ FileInv /\ overlap \in BOOLEAN
      /\ OperatorHolds /\ SlotForm
  BY DEF Inv, TypeOK, ReqInv
<1>1. ASSUME UNCHANGED <<hosts, file, op, kept>> PROVE FileInv'
  BY <1>0, <1>1 DEF FileInv, Saving, kept
<1>2. ASSUME NEW o \in Operators, UNCHANGED <<hosts, file, kept>>, op'[o].pc \in {"idle", "deliver"},
             \A p \in Operators \ {o} : op'[p] = op[p]
      PROVE  FileInv'
  <2>1. Saving' \subseteq Saving /\ \A p \in Saving' : op'[p] = op[p]
    BY <1>2 DEF Saving
  <2> QED
    BY <1>0, <1>2, <2>1 DEF FileInv, kept
<1>3. ASSUME NEW o \in Operators, TakesList, op[o].pc = "idle",
             \A p \in Operators \ {o} : op'[p] = op[p], op'[o].list = hosts', ~overlap'
      PROVE  /\ ~overlap
             /\ \A p, q \in Saving' : p = q
             /\ \A p \in Saving' : op'[p].list = hosts'
  <2>1. ~overlap /\ Saving = {}
    BY <1>3 DEF TakesList, Saving
  <2>2. Saving' \subseteq {o}
    BY <1>3, <2>1 DEF Saving
  <2> QED
    BY <1>3, <2>1, <2>2
<1>4. ASSUME NEW o \in Operators, NEW r \in Requests, NEW d \in Decisions, Decide(o, r, d)
      PROVE  FileInv'
  <2>1. \A p \in Operators \ {o} : op'[p] = op[p]
    BY <1>0, <1>4 DEF Decide
  <2>2. CASE d = "allow_forever"
    <3>1. /\ op[o].pc = "idle" /\ TakesList /\ op'[o].list = hosts' /\ UNCHANGED <<file, promised>>
          /\ hosts' = hosts \cup {req[r].host} /\ revoked' = revoked \ {req[r].host}
      BY <1>0, <1>4, <2>2 DEF Decide
    <3> QED
      BY <1>0, <1>3, <2>1, <3>1 DEF FileInv
  <2>3. CASE d # "allow_forever"
    <3>1. UNCHANGED <<hosts, file, kept>> /\ op'[o].pc = "deliver"
      BY <1>0, <1>4, <2>3 DEF Decide, kept
    <3> QED
      BY <1>2, <2>1, <3>1
  <2> QED
    BY <2>2, <2>3
<1>5. ASSUME NEW o \in Operators, NEW h \in Hosts, Revoke(o, h) PROVE FileInv'
  <2>1. /\ op[o].pc = "idle" /\ TakesList /\ op'[o].list = hosts' /\ UNCHANGED <<file, revoked>>
        /\ hosts' = hosts \ {h} /\ promised' = promised \ {h}
        /\ \A p \in Operators \ {o} : op'[p] = op[p]
    BY <1>0, <1>5 DEF Revoke, NoOp
  <2> QED
    BY <1>0, <1>3, <2>1 DEF FileInv
<1>6. ASSUME NEW o \in Operators, DecideSaves(o) \/ RevokeSaves(o) PROVE FileInv'
  <2>1. /\ o \in Saving /\ file' = op[o].list /\ UNCHANGED <<hosts, overlap>>
        /\ op'[o].pc \in {"idle", "deliver"} /\ \A p \in Operators \ {o} : op'[p] = op[p]
    BY <1>0, <1>6, Empty DEF DecideSaves, RevokeSaves, Saving, OpRec
  <2>2. \/ UNCHANGED <<promised, revoked>>
        \/ op[o].host \in hosts /\ promised' = promised \cup {op[o].host} /\ UNCHANGED revoked
        \/ op[o].host \notin hosts /\ revoked' = revoked \cup {op[o].host} /\ UNCHANGED promised
    BY <1>6 DEF DecideSaves, RevokeSaves
  <2>3. Saving' \subseteq Saving /\ \A p \in Saving' : op'[p] = op[p]
    BY <2>1 DEF Saving
  <2> QED
    BY <1>0, <2>1, <2>2, <2>3 DEF FileInv
<1>7. ASSUME NEW o \in Operators, DecideSaveFails(o) \/ RevokeSaveFails(o) \/ DecideDelivers(o)
      PROVE  FileInv'
  <2>1. /\ op'[o] = NoOp /\ \A p \in Operators \ {o} : op'[p] = op[p]
        /\ UNCHANGED <<hosts, file, kept>>
    BY <1>0, <1>7 DEF DecideSaveFails, RevokeSaveFails, DecideDelivers
  <2> QED
    BY <1>2, <2>1, Empty
<1>8. CASE Restart
  <2>1. Saving' = {}
    BY <1>8, Empty DEF Restart, Saving
  <2> QED
    BY <1>0, <1>8, <2>1 DEF Restart, FileInv, kept
<1>9. ASSUME \/ \E r \in Requests :
                  \/ \E h \in Hosts : Submit(r, h)
                  \/ SubmitDecided(r) \/ SubmitExpires(r) \/ SubmitCancelled(r)
                  \/ SubmitReturns(r) \/ HandlerGoesOn(r)
             \/ UNCHANGED vars
      PROVE  FileInv'
  <2>1. UNCHANGED <<hosts, file, op, kept>>
    BY <1>9 DEF Submit, SubmitDecided, SubmitExpires, SubmitCancelled, SubmitReturns, HandlerGoesOn, vars
  <2> QED
    BY <1>1, <2>1
<1> QED
  BY <1>4, <1>5, <1>6, <1>7, <1>8, <1>9 DEF Next

\* At first nobody is trusted and nobody asks.
LEMMA InitInv == Init => Inv
<1> SUFFICES ASSUME Init PROVE Inv
  OBVIOUS
<1>1. TypeOK
  BY Empty DEF Init, TypeOK
<1>2. ReqInv
  BY Empty, HostAuthAssumption DEF Init, ReqInv, SlotForm, OperatorHolds, AllowedOnItsWay, OnlyAllowedPass,
       Decisions
<1>3. FileInv
  BY Empty DEF Init, FileInv, Saving
<1> QED
  BY <1>1, <1>2, <1>3 DEF Inv

\* The invariant is inductive.
LEMMA NextInv == Inv /\ [Next]_vars => Inv'
<1> SUFFICES ASSUME Inv, [Next]_vars PROVE TypeOK' /\ ReqInv'
  BY FileNext DEF Inv
<1>0. TypeOK /\ ReqInv /\ SlotForm /\ OperatorHolds
  BY DEF Inv, ReqInv
<1>1. ASSUME NEW r \in Requests, NEW h,
             \/ h \in Hosts /\ Submit(r, h)
             \/ SubmitDecided(r) \/ SubmitExpires(r) \/ SubmitCancelled(r)
             \/ SubmitReturns(r) \/ HandlerGoesOn(r)
      PROVE  TypeOK' /\ ReqInv'
  BY <1>0, <1>1, SubmitTypes, SubmitReq
<1>2. ASSUME NEW o \in Operators,
             \/ \E r \in Requests, d \in Decisions : Decide(o, r, d)
             \/ DecideSaves(o) \/ DecideSaveFails(o) \/ DecideDelivers(o)
             \/ \E h \in Hosts : Revoke(o, h)
             \/ RevokeSaves(o) \/ RevokeSaveFails(o)
      PROVE  TypeOK' /\ ReqInv'
  BY <1>0, <1>2, OperatorTypes, OperatorReq
<1>3. CASE Restart
  <2>1. TypeOK'
    BY <1>0, <1>3, Empty DEF Restart, TypeOK, kept
  <2>2. ReqInv'
    BY <1>3, Empty, HostAuthAssumption DEF Restart, ReqInv, SlotForm, OperatorHolds, AllowedOnItsWay,
         OnlyAllowedPass, Decisions
  <2> QED
    BY <2>1, <2>2
<1>4. CASE UNCHANGED vars
  BY <1>0, <1>4 DEF vars, kept, TypeOK, ReqInv, SlotForm, OperatorHolds, AllowedOnItsWay, OnlyAllowedPass
<1> QED
  BY <1>1, <1>2, <1>3, <1>4 DEF Next

\* It holds at every step of every behaviour.
LEMMA Invariance == Spec => []Inv
<1> QED
  BY InitInv, NextInv, PTL DEF Spec

-----------------------------------------------------------------------------
(* The theorems *)

\* The state of the registry is well-formed, and Submit never returns empty-handed.
THEOREM HostAuthTypes == Spec => []TypeOK
<1>1. Inv => TypeOK
  BY DEF Inv
<1> QED
  BY <1>1, Invariance, PTL

\* Nobody passes who was not trusted when it asked and was not allowed on this very
\* request: the channel, which outlives the select, never carries a decision over to
\* a later request.
THEOREM HostAuthOnlyAllowedPass == Spec => []OnlyAllowedPass
<1>1. Inv => OnlyAllowedPass
  BY DEF Inv, ReqInv
<1> QED
  BY <1>1, Invariance, PTL

\* Trust that was given for good, and revocation, are in the file through failed
\* saves and restarts, as long as no list is taken while another is to be written.
THEOREM HostAuthDecisionsAreDurable == Spec => []DecisionsAreDurable
<1>1. Inv => DecisionsAreDurable
  BY DEF Inv, FileInv, DecisionsAreDurable
<1> QED
  BY <1>1, Invariance, PTL

=============================================================================
