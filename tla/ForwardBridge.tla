--------------------------- MODULE ForwardBridge ---------------------------
(***************************************************************************)
(* The forward family of one connection (internal/bridge/forward.go and    *)
(* forward_reverse.go).  A rule is an fport binding (the peer forwards a   *)
(* port to the device) or an rport one (the device forwards a port to the  *)
(* peer); its goroutine sets it up through the host HDC, waits until it is *)
(* closed and removes it from the device again.  A ready rport rule has an *)
(* accept loop and a timer besides.  A connection under a rule is a socket *)
(* of a context ID, with a read loop once it is active.                    *)
(*                                                                         *)
(* The main loop handles one frame at a time and is blocked while it dials *)
(* the host HDC.  Taking a connection out of its map and closing it is one *)
(* step here: only its own read loop and dial, which see it closed, know   *)
(* it after that.  Endpoints, ports and data are left out; a write, to the *)
(* peer or to a socket, ends.                                              *)
(***************************************************************************)
EXTENDS Integers, FiniteSets

CONSTANTS
  Channels,  \* channel IDs the peer uses
  Contexts,  \* context IDs: the peer's for fport, random ones for rport
  Rules,     \* pool of forwardBinding and reverseBinding
  Conns,     \* pool of forwardTCPContext and reverseConn
  None

ASSUME ForwardAssumption ==
  /\ None \notin Rules \cup Conns \cup Channels \cup Contexts
  /\ {"off", "wait"} \cap Conns = {}   \* accept is one of these or a connection
  /\ IsFiniteSet(Rules) /\ IsFiniteSet(Conns)

VARIABLES
  bindings,  \* bindings and reverseBindings: the rule of a channel, or None
  contexts,  \* contexts and reverseConns: the connection of a context, or None
  rules,     \* the rules, their goroutines, accept loops and timers
  conns,     \* the connections and their read loops
  wg,        \* closeWg
  main       \* the main loop

vars == <<bindings, contexts, rules, conns, wg, main>>

Kinds == {"fport", "rport"}

\* closed stands for done and, of an rport rule, for the closed listener too.
RuleRec == [kind: Kinds \cup {None}, ch: Channels \cup {None}, ctx: Contexts \cup {None},
            pc: {"open", "read", "finish", "fail", "serve", "done"},
            target: {"none", "open"}, closed: BOOLEAN, ready: BOOLEAN, resolved: BOOLEAN,
            accept: {"off", "wait"} \cup Conns, timer: {"off", "armed", "fail"}]
NoRule == [kind |-> None, ch |-> None, ctx |-> None, pc |-> "done", target |-> "none",
           closed |-> TRUE, ready |-> FALSE, resolved |-> FALSE,
           accept |-> "off", timer |-> "off"]

\* An idle connection waits for ACTIVE_MASTER; a dead one was closed and its
\* dial or read loop has still to see it.
ConnRec == [key: (Kinds \X Channels \X Contexts) \cup {None}, sock: BOOLEAN, dead: BOOLEAN,
            pc: {"none", "dial", "accepted", "idle", "read"}]
NoConn == [key |-> None, sock |-> FALSE, dead |-> FALSE, pc |-> "none"]

\* conn is the connection it dials for; todo the rules it has still to close.
MainRec == [pc: {"idle", "dial", "closing", "cancel", "drop", "wait", "closed"},
            conn: Conns \cup {None}, todo: SUBSET Rules]
Idle == [pc |-> "idle", conn |-> None, todo |-> {}]

Init ==
  /\ bindings = [i \in Kinds \X Channels |-> None]
  /\ contexts = [key \in Kinds \X Channels \X Contexts |-> None]
  /\ rules = [r \in Rules |-> NoRule]
  /\ conns = [c \in Conns |-> NoConn]
  /\ wg = 0
  /\ main = Idle

FreeRule(r) == rules[r] = NoRule /\ r \notin main.todo
FreeConn(c) == conns[c] = NoConn

-----------------------------------------------------------------------------
(* What several steps do *)

\* Take the connections S out of the maps and close them.
DropConns(S) ==
  /\ contexts' = [key \in DOMAIN contexts |-> IF contexts[key] \in S THEN None ELSE contexts[key]]
  /\ conns' = [c \in Conns |->
                 IF c \notin S THEN conns[c]
                 ELSE IF conns[c].pc \in {"dial", "read"}
                      THEN [conns[c] EXCEPT !.sock = FALSE, !.dead = TRUE] ELSE NoConn]

\* takeContextsLocked and takeReverseConnsLocked.
ConnsOf(k, ch) == {contexts[<<k, ch, x>>] : x \in Contexts} \ {None}

DropRules(R) ==
  bindings' = [i \in DOMAIN bindings |-> IF bindings[i] \in R THEN None ELSE bindings[i]]

\* removeBinding and removeReverseBinding: the rule, if it is still the channel's,
\* and every connection of the channel, whichever rule it belongs to.
RemoveRule(r) ==
  /\ DropRules({r})
  /\ DropConns(ConnsOf(rules[r].kind, rules[r].ch))

\* close of a rule: closeOnce, its target, its listener and done.
CloseRule(r) == [rules[r] EXCEPT !.closed = TRUE, !.target = "none"]

\* A record is free again when the last goroutine of the rule has ended.
Retire(rec) == IF rec.pc = "done" /\ rec.accept = "off" /\ rec.timer = "off" THEN NoRule ELSE rec

Set(r, rec) == rules' = [rules EXCEPT ![r] = Retire(rec)]

-----------------------------------------------------------------------------
(* The main loop: frames.  A frame that is refused changes nothing. *)

StartRule(k, ch, x, r) ==
  /\ FreeRule(r)
  /\ bindings' = [bindings EXCEPT ![<<k, ch>>] = r]
  /\ rules' = [rules EXCEPT ![r] = [NoRule EXCEPT !.kind = k, !.ch = ch, !.ctx = x,
                                                  !.pc = "open", !.closed = FALSE]]
  /\ wg' = wg + 1
  /\ UNCHANGED <<contexts, conns, main>>

\* CHECK: an fport rule, on a channel that has none; an rport rule does not matter.
HandleCheck(ch, x, r) ==
  main.pc = "idle" /\ bindings[<<"fport", ch>>] = None /\ StartRule("fport", ch, x, r)

\* INIT: an rport rule, with its listener, on a channel that has neither.
HandleReverseInit(ch, x, r) ==
  /\ main.pc = "idle" /\ \A k \in Kinds : bindings[<<k, ch>>] = None
  /\ StartRule("rport", ch, x, r)

\* ACTIVE_SLAVE: a connection of a ready fport rule is registered, then dialled.
HandleActiveSlave(ch, x, c) ==
  LET r == bindings[<<"fport", ch>>] IN
  /\ main.pc = "idle" /\ r # None /\ rules[r].ready /\ ~rules[r].closed
  /\ contexts[<<"fport", ch, x>>] = None /\ FreeConn(c)
  /\ contexts' = [contexts EXCEPT ![<<"fport", ch, x>>] = c]
  /\ conns' = [conns EXCEPT ![c] = [NoConn EXCEPT !.key = <<"fport", ch, x>>, !.pc = "dial"]]
  /\ wg' = wg + 1
  /\ main' = [Idle EXCEPT !.pc = "dial", !.conn = c]
  /\ UNCHANGED <<bindings, rules>>

\* connect: the read loop starts, if nobody has closed the connection meanwhile.
DialSucceeds ==
  LET c == main.conn IN
  /\ main.pc = "dial" /\ ~conns[c].dead
  /\ conns' = [conns EXCEPT ![c] = [@ EXCEPT !.sock = TRUE, !.pc = "read"]]
  /\ main' = Idle
  /\ UNCHANGED <<bindings, contexts, rules, wg>>

\* The dial fails, or the connection was closed under it.
DialFails ==
  LET c == main.conn IN
  /\ main.pc = "dial"
  /\ wg' = wg - 1
  /\ contexts' = [key \in DOMAIN contexts |-> IF contexts[key] = c THEN None ELSE contexts[key]]
  /\ conns' = [conns EXCEPT ![c] = NoConn]
  /\ main' = Idle
  /\ UNCHANGED <<bindings, rules>>

\* ACTIVE_MASTER: the read loop of an rport connection starts, once.
HandleReverseActiveMaster(ch, x) ==
  LET c == contexts[<<"rport", ch, x>>] IN
  /\ main.pc = "idle" /\ c # None /\ conns[c].pc = "idle"
  /\ conns' = [conns EXCEPT ![c].pc = "read"]
  /\ wg' = wg + 1
  /\ UNCHANGED <<bindings, contexts, rules, main>>

\* DATA that cannot be written; an rport connection goes before an fport one.
HandleDataFails(ch, x) ==
  LET k == IF contexts[<<"rport", ch, x>>] # None THEN "rport" ELSE "fport" IN
  /\ main.pc = "idle" /\ contexts[<<k, ch, x>>] # None
  /\ DropConns({contexts[<<k, ch, x>>]})
  /\ UNCHANGED <<bindings, rules, wg, main>>

\* FREE_CONTEXT: the connections of that ID, and the rules whose check ID it is.
HandleFreeContext(ch, x) ==
  LET freed == {bindings[<<k, ch>>] : k \in {j \in Kinds : bindings[<<j, ch>>] # None
                                                       /\ rules[bindings[<<j, ch>>]].ctx = x}}
  IN
  /\ main.pc = "idle"
  /\ DropRules(freed)
  /\ DropConns(({contexts[<<k, ch, x>>] : k \in Kinds} \ {None})
                 \cup UNION {ConnsOf(rules[r].kind, ch) : r \in freed})
  /\ main' = IF freed = {} THEN main ELSE [Idle EXCEPT !.pc = "closing", !.todo = freed]
  /\ UNCHANGED <<rules, wg>>

\* CHECK_RESULT: the rport rule is resolved; one the peer cannot reach is removed.
HandleReverseCheckResult(ch, ok) ==
  LET r == bindings[<<"rport", ch>>] IN
  /\ main.pc = "idle" /\ r # None
  /\ rules' = [rules EXCEPT ![r].resolved = TRUE]
  /\ IF ok THEN UNCHANGED <<bindings, contexts, conns, main>>
     ELSE RemoveRule(r) /\ main' = [Idle EXCEPT !.pc = "closing", !.todo = {r}]
  /\ UNCHANGED wg

\* CloseChannel: both rules and all connections of the channel.
CloseChannel(ch) ==
  LET R == {bindings[<<k, ch>>] : k \in Kinds} \ {None} IN
  /\ main.pc = "idle"
  /\ DropRules(R)
  /\ DropConns(UNION {ConnsOf(k, ch) : k \in Kinds})
  /\ main' = IF R = {} THEN main ELSE [Idle EXCEPT !.pc = "closing", !.todo = R]
  /\ UNCHANGED <<rules, wg>>

\* The main loop closes the rules it has taken out of the map.
CloseTaken(r) ==
  /\ main.pc \in {"closing", "drop"} /\ r \in main.todo
  /\ Set(r, CloseRule(r))
  /\ main' = IF main.pc = "closing" /\ main.todo = {r} THEN Idle ELSE [main EXCEPT !.todo = @ \ {r}]
  /\ UNCHANGED <<bindings, contexts, conns, wg>>

\* The connection ends: its context is cancelled ...
Cancel ==
  /\ main.pc = "idle"
  /\ main' = [main EXCEPT !.pc = "cancel"]
  /\ UNCHANGED <<bindings, contexts, rules, conns, wg>>

\* Mutant: Close does not think of the connections of rport rules.
CloseAll_FportOnly ==
  LET R == {bindings[i] : i \in DOMAIN bindings} \ {None} IN
  /\ main.pc = "cancel"
  /\ DropRules(R)
  /\ DropConns(UNION {ConnsOf("fport", ch) : ch \in Channels})
  /\ main' = [Idle EXCEPT !.pc = "drop", !.todo = R]
  /\ UNCHANGED <<rules, wg>>

\* ... Close empties the maps and closes what was in them ...
CloseAll ==
  LET R == {bindings[i] : i \in DOMAIN bindings} \ {None} IN
  /\ main.pc = "cancel"
  /\ DropRules(R)
  /\ DropConns({contexts[key] : key \in DOMAIN contexts} \ {None})
  /\ main' = [Idle EXCEPT !.pc = "drop", !.todo = R]
  /\ UNCHANGED <<rules, wg>>

\* ... and waits for every goroutine.
CloseWaits ==
  /\ main.pc = "drop" /\ main.todo = {}
  /\ main' = [main EXCEPT !.pc = "wait"]
  /\ UNCHANGED <<bindings, contexts, rules, conns, wg>>

CloseReturns ==
  /\ main.pc = "wait" /\ wg = 0
  /\ main' = [main EXCEPT !.pc = "closed"]
  /\ UNCHANGED <<bindings, contexts, rules, conns, wg>>

-----------------------------------------------------------------------------
(* The goroutine of a rule: runBinding and runReverse *)

\* openTarget, and attachTarget: a rule that was closed meanwhile does not get it.
OpenTarget(r) ==
  /\ rules[r].pc = "open"
  /\ rules' = [rules EXCEPT ![r] = IF @.closed THEN [@ EXCEPT !.pc = "serve"]
                                   ELSE [@ EXCEPT !.pc = "read", !.target = "open"]]
  /\ UNCHANGED <<bindings, contexts, conns, wg, main>>

OpenTargetFails(r) ==
  /\ rules[r].pc = "open"
  /\ rules' = [rules EXCEPT ![r].pc = "fail"]
  /\ UNCHANGED <<bindings, contexts, conns, wg, main>>

\* The set-up times out or the connection ends: the watchdog closes the target.
WatchdogCloses(r) ==
  /\ rules[r].pc = "read" /\ rules[r].target = "open"
  /\ rules' = [rules EXCEPT ![r].target = "none"]
  /\ UNCHANGED <<bindings, contexts, conns, wg, main>>

\* The read loop ends; the output says whether the device has taken the rule.
ReadEnds(r) ==
  /\ rules[r].pc = "read"
  /\ \E pc \in {"finish", "fail"} : rules' = [rules EXCEPT ![r] = [@ EXCEPT !.pc = pc, !.target = "none"]]
  /\ UNCHANGED <<bindings, contexts, conns, wg, main>>

\* Mutant: no timer waits for the peer's CHECK_RESULT.
FinishSetup_NoTimer(r) ==
  /\ rules[r].pc = "finish"
  /\ IF rules[r].closed THEN rules' = [rules EXCEPT ![r].pc = "serve"] /\ UNCHANGED wg
     ELSE IF rules[r].kind = "fport"
     THEN rules' = [rules EXCEPT ![r] = [@ EXCEPT !.pc = "serve", !.ready = TRUE]] /\ UNCHANGED wg
     ELSE /\ rules' = [rules EXCEPT ![r] = [@ EXCEPT !.pc = "serve", !.ready = TRUE, !.accept = "wait"]]
          /\ wg' = wg + 1
  /\ UNCHANGED <<bindings, contexts, conns, main>>

\* markReady, unless the rule was closed.  An rport rule then starts its accept
\* loop, asks the peer with a CHECK and starts the timer for the answer.
FinishSetup(r) ==
  /\ rules[r].pc = "finish"
  /\ IF rules[r].closed THEN rules' = [rules EXCEPT ![r].pc = "serve"] /\ UNCHANGED wg
     ELSE IF rules[r].kind = "fport"
     THEN rules' = [rules EXCEPT ![r] = [@ EXCEPT !.pc = "serve", !.ready = TRUE]] /\ UNCHANGED wg
     ELSE /\ rules' = [rules EXCEPT ![r] = [@ EXCEPT !.pc = "serve", !.ready = TRUE,
                                                     !.accept = "wait", !.timer = "armed"]]
          /\ wg' = wg + 2
  /\ UNCHANGED <<bindings, contexts, conns, main>>

\* Mutant: the failed rule keeps its place in the map.
FailSetup_KeepsEntry(r) ==
  /\ rules[r].pc = "fail"
  /\ DropConns(ConnsOf(rules[r].kind, rules[r].ch))
  /\ rules' = [rules EXCEPT ![r] = [CloseRule(r) EXCEPT !.pc = "serve"]]
  /\ UNCHANGED <<bindings, wg, main>>

\* finishSetup after a failure, and failReverseSetup: remove the rule, close it
\* and tell the peer.
FailSetup(r) ==
  /\ rules[r].pc = "fail"
  /\ RemoveRule(r)
  /\ rules' = [rules EXCEPT ![r] = [CloseRule(r) EXCEPT !.pc = "serve"]]
  /\ UNCHANGED <<wg, main>>

\* done: cleanupTargetForward sends the removal to the device and reads the answer
\* to its end, or until its own timeout closes the target.
Cleanup(r) ==
  /\ rules[r].pc = "serve" /\ rules[r].closed
  /\ Set(r, [rules[r] EXCEPT !.pc = "done"])
  /\ wg' = wg - 1
  /\ UNCHANGED <<bindings, contexts, conns, main>>

-----------------------------------------------------------------------------
(* The timer of an rport rule: CHECK_RESULT has not come *)

\* done goes first, or the timer fires and the rule is found resolved.
TimerEnds(r) ==
  /\ rules[r].timer = "armed" /\ (rules[r].closed \/ rules[r].resolved)
  /\ Set(r, [rules[r] EXCEPT !.timer = "off"])
  /\ wg' = wg - 1
  /\ UNCHANGED <<bindings, contexts, conns, main>>

\* The timer fires and the rule is not resolved: it is going to fail.
TimerFires(r) ==
  /\ rules[r].timer = "armed" /\ ~rules[r].resolved
  /\ rules' = [rules EXCEPT ![r].timer = "fail"]
  /\ UNCHANGED <<bindings, contexts, conns, wg, main>>

\* failReverseSetup; an answer that came since the timer fired does not count.
TimerFails(r) ==
  /\ rules[r].timer = "fail"
  /\ RemoveRule(r)
  /\ Set(r, [CloseRule(r) EXCEPT !.timer = "off"])
  /\ wg' = wg - 1
  /\ UNCHANGED main

-----------------------------------------------------------------------------
(* The accept loop of an rport rule, and the read loops *)

\* The host HDC connects back.
Accept(r, c) ==
  /\ rules[r].accept = "wait" /\ ~rules[r].closed /\ FreeConn(c)
  /\ conns' = [conns EXCEPT ![c] = [NoConn EXCEPT !.sock = TRUE, !.pc = "accepted"]]
  /\ rules' = [rules EXCEPT ![r].accept = c]
  /\ UNCHANGED <<bindings, contexts, wg, main>>

\* The listener is closed.
AcceptFails(r) ==
  /\ rules[r].accept = "wait" /\ rules[r].closed
  /\ Set(r, [rules[r] EXCEPT !.accept = "off"])
  /\ wg' = wg - 1
  /\ UNCHANGED <<bindings, contexts, conns, main>>

\* Mutant: a random context ID that is in use is taken over.
RegisterConn_Overwrites(r, x) ==
  LET c == rules[r].accept  ch == rules[r].ch IN
  /\ c \in Conns /\ bindings[<<"rport", ch>>] = r
  /\ contexts' = [contexts EXCEPT ![<<"rport", ch, x>>] = c]
  /\ conns' = [conns EXCEPT ![c] = [@ EXCEPT !.key = <<"rport", ch, x>>, !.pc = "idle"]]
  /\ rules' = [rules EXCEPT ![r].accept = "wait"]
  /\ UNCHANGED <<bindings, wg, main>>

\* The connection gets a random context ID and the peer is asked to connect.
RegisterConn(r, x) ==
  LET c == rules[r].accept  ch == rules[r].ch IN
  /\ c \in Conns /\ bindings[<<"rport", ch>>] = r /\ contexts[<<"rport", ch, x>>] = None
  /\ contexts' = [contexts EXCEPT ![<<"rport", ch, x>>] = c]
  /\ conns' = [conns EXCEPT ![c] = [@ EXCEPT !.key = <<"rport", ch, x>>, !.pc = "idle"]]
  /\ rules' = [rules EXCEPT ![r].accept = "wait"]
  /\ UNCHANGED <<bindings, wg, main>>

\* The ID is taken: close the connection and accept the next.
RegisterCollides(r, x) ==
  LET c == rules[r].accept  ch == rules[r].ch IN
  /\ c \in Conns /\ bindings[<<"rport", ch>>] = r /\ contexts[<<"rport", ch, x>>] # None
  /\ conns' = [conns EXCEPT ![c] = NoConn]
  /\ rules' = [rules EXCEPT ![r].accept = "wait"]
  /\ UNCHANGED <<bindings, contexts, wg, main>>

\* The rule is no longer the channel's, or the peer cannot be written to: the
\* connection is closed and the loop returns.
RegisterFails(r) ==
  LET c == rules[r].accept IN
  /\ c \in Conns
  /\ conns' = [conns EXCEPT ![c] = NoConn]
  /\ Set(r, [rules[r] EXCEPT !.accept = "off"])
  /\ wg' = wg - 1
  /\ UNCHANGED <<bindings, contexts, main>>

\* readLoop ends: the socket or the write to the peer fails, or it was closed.
ReadLoopEnds(c) ==
  /\ conns[c].pc = "read"
  /\ contexts' = [key \in DOMAIN contexts |-> IF contexts[key] = c THEN None ELSE contexts[key]]
  /\ conns' = [conns EXCEPT ![c] = NoConn]
  /\ wg' = wg - 1
  /\ UNCHANGED <<bindings, rules, main>>

-----------------------------------------------------------------------------
RuleGoesOn(r) ==
  OpenTarget(r) \/ OpenTargetFails(r) \/ ReadEnds(r) \/ FinishSetup(r) \/ FailSetup(r) \/ Cleanup(r)

TimerGoesOn(r) == TimerEnds(r) \/ TimerFires(r) \/ TimerFails(r)

AcceptGoesOn(r) ==
  AcceptFails(r) \/ RegisterFails(r) \/ \E x \in Contexts : RegisterConn(r, x) \/ RegisterCollides(r, x)

MainGoesOn ==
  \/ DialSucceeds \/ DialFails \/ (\E r \in Rules : CloseTaken(r))
  \/ CloseAll \/ CloseWaits \/ CloseReturns

Frame ==
  \E ch \in Channels :
    \/ CloseChannel(ch)
    \/ \E ok \in BOOLEAN : HandleReverseCheckResult(ch, ok)
    \/ \E x \in Contexts :
         \/ HandleReverseActiveMaster(ch, x) \/ HandleDataFails(ch, x) \/ HandleFreeContext(ch, x)
         \/ \E r \in Rules : HandleCheck(ch, x, r) \/ HandleReverseInit(ch, x, r)
         \/ \E c \in Conns : HandleActiveSlave(ch, x, c)

Next ==
  \/ Frame \/ Cancel \/ MainGoesOn
  \/ \E r \in Rules : \/ RuleGoesOn(r) \/ WatchdogCloses(r) \/ TimerGoesOn(r) \/ AcceptGoesOn(r)
                      \/ \E c \in Conns : Accept(r, c)
  \/ \E c \in Conns : ReadLoopEnds(c)

Spec == Init /\ [][Next]_vars

-----------------------------------------------------------------------------
TypeOK ==
  /\ bindings \in [Kinds \X Channels -> Rules \cup {None}]
  /\ contexts \in [Kinds \X Channels \X Contexts -> Conns \cup {None}]
  /\ rules \in [Rules -> RuleRec] /\ conns \in [Conns -> ConnRec]
  /\ wg \in Nat /\ main \in MainRec

\* An open socket can be found: it is in the map under its own key, or in the
\* hands of the accept loop that is about to put it there.  So a context ID that
\* comes up twice, a rule that is removed while a dial is under way and a rule that
\* fails after its channel was taken over leave no socket that nobody can close.
NoSocketLost ==
  \A c \in Conns : conns[c].sock => conns[c].pc = "accepted" \/ contexts[conns[c].key] = c

\* The rule of a channel is alive: whoever closes a rule, its failing set-up, its
\* timer or the main loop, has taken it out of the map before, and never another
\* one with it.
CurrentRuleLives ==
  \A k \in Kinds, ch \in Channels : bindings[<<k, ch>>] # None =>
    LET r == rules[bindings[<<k, ch>>]] IN r.kind = k /\ r.ch = ch /\ ~r.closed /\ r.pc # "done"

\* A rule that waits for its end can be found by whoever ends it: it is in the map,
\* or the main loop or its timer is about to close it; and the timer of an rport
\* rule runs until the peer has answered the CHECK.  A rule that nobody finds would
\* keep its listener, its goroutine and the forward on the device for ever.
NoRuleLost ==
  \A r \in Rules : rules[r].pc = "serve" /\ ~rules[r].closed =>
    /\ bindings[<<rules[r].kind, rules[r].ch>>] = r \/ r \in main.todo
    /\ rules[r].kind = "rport" /\ ~rules[r].resolved => rules[r].timer # "off"

\* Close neither returns early nor hangs: closeWg counts exactly the goroutines
\* that are left, and once Close waits every one of them has its rule or its socket
\* closed, so that nothing it is blocked on lasts.
CloseWaitsExactly ==
  /\ wg = Cardinality({r \in Rules : rules[r].pc # "done"})
          + Cardinality({r \in Rules : rules[r].accept # "off"})
          + Cardinality({r \in Rules : rules[r].timer # "off"})
          + Cardinality({c \in Conns : conns[c].pc \in {"dial", "read"}})
  /\ main.pc \in {"wait", "closed"} =>
       /\ \A r \in Rules : rules[r].closed
       /\ \A c \in Conns : conns[c] # NoConn => conns[c].dead \/ conns[c].pc = "accepted"
=============================================================================
