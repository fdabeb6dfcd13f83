------------------------ MODULE ForwardBridgeProofs ------------------------
(***************************************************************************)
(* The forward family for any number of channels, contexts, rules and      *)
(* connections: no rule and no socket is ever lost, the entry of a channel *)
(* names a live rule, and Close waits for exactly the goroutines there are.*)
(***************************************************************************)
EXTENDS ForwardBridge, FiniteSetTheorems, TLAPS

Keys == Kinds \X Channels \X Contexts

\* The types of everything but the counter, which is at least zero because of
\* what it counts.
Shape ==
  /\ bindings \in [Kinds \X Channels -> Rules \cup {None}]
  /\ contexts \in [Keys -> Conns \cup {None}]
  /\ rules \in [Rules -> RuleRec] /\ conns \in [Conns -> ConnRec]
  /\ wg \in Int /\ main \in MainRec

-----------------------------------------------------------------------------
(* The rules *)

\* A rule that anything still runs for knows its kind and its channel.
RuleKnown ==
  \A r \in Rules : rules[r] # NoRule => rules[r].kind \in Kinds /\ rules[r].ch \in Channels

\* A rule the main loop is about to close is no longer in the map.
EntryTaken == \A k \in Kinds, ch \in Channels : bindings[<<k, ch>>] \notin main.todo

\* A rule that is not closed, however far its set-up is, is in the map or about to
\* be closed by the main loop.
RuleFound ==
  \A r \in Rules : ~rules[r].closed =>
    /\ rules[r].pc # "done"
    /\ bindings[<<rules[r].kind, rules[r].ch>>] = r \/ r \in main.todo

\* The accept loop and the timer start when the set-up has ended.
SetupAlone ==
  \A r \in Rules : rules[r].pc \in {"open", "read", "finish", "fail"} =>
    rules[r].accept = "off" /\ rules[r].timer = "off"

\* The timer of an rport rule runs until the rule is closed or resolved.
TimerRuns ==
  \A r \in Rules :
    rules[r].pc = "serve" /\ ~rules[r].closed /\ rules[r].kind = "rport" /\ ~rules[r].resolved
      => rules[r].timer # "off"

\* Only a main loop that closes rules has rules to close.
TodoWhen == main.pc \notin {"closing", "drop"} => main.todo = {}

RuleInv ==
  /\ CurrentRuleLives /\ RuleKnown /\ EntryTaken /\ RuleFound
  /\ SetupAlone /\ TimerRuns /\ TodoWhen

-----------------------------------------------------------------------------
(* The connections *)

\* The entry of a context names a connection of that context that is not closed.
ContextLives ==
  \A key \in Keys : contexts[key] # None =>
    LET c == conns[contexts[key]] IN c.key = key /\ ~c.dead /\ c.pc \in {"dial", "idle", "read"}

\* A registered connection that is not closed is in the map under its own key.
ConnFound ==
  \A c \in Conns : conns[c].pc \in {"dial", "idle", "read"} /\ ~conns[c].dead =>
    conns[c].key \in Keys /\ contexts[conns[c].key] = c

\* A connection nobody works for is free, and a closed one has no socket.
ConnForm ==
  \A c \in Conns : /\ conns[c].pc = "none" => conns[c] = NoConn
                   /\ conns[c].dead => ~conns[c].sock /\ conns[c].pc \in {"dial", "read"}

\* An accept loop alone holds the connection it has accepted.
AcceptOwns ==
  /\ \A r \in Rules : rules[r].accept \in Conns => conns[rules[r].accept].pc = "accepted"
  /\ \A r, q \in Rules : rules[r].accept \in Conns /\ rules[r].accept = rules[q].accept => r = q

\* The connection being dialled is the main loop's.
DialKnown ==
  /\ main.pc = "dial" => main.conn \in Conns /\ conns[main.conn].pc = "dial"
  /\ \A c \in Conns : conns[c].pc = "dial" => main.pc = "dial" /\ main.conn = c

ConnInv == ContextLives /\ ConnFound /\ ConnForm /\ AcceptOwns /\ DialKnown

-----------------------------------------------------------------------------
(* The end *)

\* Close leaves both maps empty, and nothing enters them again.
EmptyAfterClose ==
  main.pc \in {"drop", "wait", "closed"} =>
    /\ \A k \in Kinds, ch \in Channels : bindings[<<k, ch>>] = None
    /\ \A key \in Keys : contexts[key] = None

\* The goroutines closeWg is meant to count.
RuleLoops   == {r \in Rules : rules[r].pc # "done"}
AcceptLoops == {r \in Rules : rules[r].accept # "off"}
Timers      == {r \in Rules : rules[r].timer # "off"}
ConnLoops   == {c \in Conns : conns[c].pc \in {"dial", "read"}}

Counted ==
  wg = Cardinality(RuleLoops) + Cardinality(AcceptLoops) + Cardinality(Timers)
       + Cardinality(ConnLoops)

Inv == Shape /\ RuleInv /\ ConnInv /\ EmptyAfterClose

-----------------------------------------------------------------------------
\* A step that changes one rule and no map keeps the rules in order if the rule keeps
\* its place and its end, or is free again after it was closed.
LEMMA OneRule ==
  ASSUME Shape, RuleInv, NEW r \in Rules,
         UNCHANGED <<bindings, main>>, \A q \in Rules \ {r} : rules'[q] = rules[q],
         \/ rules'[r] = NoRule /\ rules[r].closed
         \/ /\ rules[r] # NoRule
            /\ rules'[r].kind = rules[r].kind /\ rules'[r].ch = rules[r].ch
            /\ rules'[r].closed = rules[r].closed /\ (rules'[r].pc = "done" => rules[r].closed)
            /\ rules'[r].pc \in {"open", "read", "finish", "fail"} =>
                 rules'[r].accept = "off" /\ rules'[r].timer = "off"
            /\ /\ rules'[r].pc = "serve" /\ ~rules[r].closed /\ rules[r].kind = "rport"
               /\ ~rules'[r].resolved
               => rules'[r].timer # "off"
  PROVE  RuleInv'
<1>1. NoRule.closed /\ NoRule.pc = "done" /\ NoRule.accept = "off" /\ NoRule.timer = "off"
  BY DEF NoRule
<1>2. CurrentRuleLives'
  BY ForwardAssumption DEF RuleInv, CurrentRuleLives, Shape
<1>3. RuleKnown'
  BY DEF RuleInv, RuleKnown
<1>4. EntryTaken' /\ TodoWhen'
  BY DEF RuleInv, EntryTaken, TodoWhen
<1>5. RuleFound'
  BY <1>1 DEF RuleInv, RuleFound
<1>6. SetupAlone' /\ TimerRuns'
  BY <1>1 DEF RuleInv, SetupAlone, TimerRuns
<1> QED
  BY <1>2, <1>3, <1>4, <1>5, <1>6 DEF RuleInv

\* A step that leaves the rules and their map alone keeps them in order.
LEMMA NoRuleChanges ==
  ASSUME RuleInv, UNCHANGED <<bindings, rules>>, main'.todo = main.todo, TodoWhen'
  PROVE  RuleInv'
BY DEF RuleInv, CurrentRuleLives, RuleKnown, EntryTaken, RuleFound, SetupAlone, TimerRuns

\* The main loop takes the rules R out of the map, to close them.
LEMMA RulesTaken ==
  ASSUME Shape, RuleInv, main.todo = {}, NEW R \in SUBSET Rules, DropRules(R), main'.todo = R,
         \A q \in Rules : \/ rules'[q] = rules[q]
                          \/ rules'[q] = [rules[q] EXCEPT !.resolved = TRUE] /\ rules[q] # NoRule,
         TodoWhen'
  PROVE  RuleInv'
<1>0. \A q \in Rules : /\ rules'[q].kind = rules[q].kind /\ rules'[q].ch = rules[q].ch
                       /\ rules'[q].closed = rules[q].closed /\ rules'[q].pc = rules[q].pc
                       /\ rules'[q].accept = rules[q].accept /\ rules'[q].timer = rules[q].timer
                       /\ rules'[q].resolved = rules[q].resolved \/ rules'[q].resolved
  <2> SUFFICES ASSUME NEW q \in Rules, rules'[q] = [rules[q] EXCEPT !.resolved = TRUE]
               PROVE  /\ rules'[q].kind = rules[q].kind /\ rules'[q].ch = rules[q].ch
                      /\ rules'[q].closed = rules[q].closed /\ rules'[q].pc = rules[q].pc
                      /\ rules'[q].accept = rules[q].accept /\ rules'[q].timer = rules[q].timer
                      /\ rules'[q].resolved
    OBVIOUS
  <2>1. rules[q] \in RuleRec
    BY DEF Shape
  <2> QED
    BY <2>1 DEF RuleRec
<1>1. \A k \in Kinds, ch \in Channels :
        /\ bindings'[<<k, ch>>] = IF bindings[<<k, ch>>] \in R THEN None ELSE bindings[<<k, ch>>]
        /\ bindings[<<k, ch>>] \in Rules \cup {None}
  BY DEF DropRules, Shape
<1>2. CurrentRuleLives'
  BY <1>0, <1>1, ForwardAssumption DEF RuleInv, CurrentRuleLives
<1>3. RuleKnown'
  BY <1>0 DEF RuleInv, RuleKnown
<1>4. EntryTaken'
  BY <1>1, ForwardAssumption DEF EntryTaken
<1>5. RuleFound'
  <2> SUFFICES ASSUME NEW q \in Rules, ~rules'[q].closed
               PROVE  /\ rules'[q].pc # "done"
                      /\ bindings'[<<rules'[q].kind, rules'[q].ch>>] = q \/ q \in R
    BY DEF RuleFound
  <2>1. rules[q].pc # "done" /\ bindings[<<rules[q].kind, rules[q].ch>>] = q
    BY <1>0 DEF RuleInv, RuleFound
  <2>2. rules[q].kind \in Kinds /\ rules[q].ch \in Channels
    BY <1>0 DEF RuleInv, RuleKnown, NoRule
  <2> QED
    BY <1>0, <1>1, <2>1, <2>2
<1>6. SetupAlone' /\ TimerRuns'
  BY <1>0 DEF RuleInv, SetupAlone, TimerRuns
<1> QED
  BY <1>2, <1>3, <1>4, <1>5, <1>6 DEF RuleInv

\* A rule that fails takes itself out of the map and closes itself, in one step.
LEMMA RuleRemoved ==
  ASSUME Shape, RuleInv, NEW r \in Rules, rules[r] # NoRule, UNCHANGED main, DropRules({r}),
         \A q \in Rules \ {r} : rules'[q] = rules[q],
         \/ rules'[r] = NoRule
         \/ /\ rules'[r].kind = rules[r].kind /\ rules'[r].ch = rules[r].ch /\ rules'[r].closed
            /\ rules'[r].pc \in {"open", "read", "finish", "fail"} =>
                 rules'[r].accept = "off" /\ rules'[r].timer = "off"
  PROVE  RuleInv'
<1>1. NoRule.closed /\ NoRule.pc = "done" /\ NoRule.accept = "off" /\ NoRule.timer = "off"
  BY DEF NoRule
<1>2. \A k \in Kinds, ch \in Channels :
        bindings'[<<k, ch>>] = IF bindings[<<k, ch>>] = r THEN None ELSE bindings[<<k, ch>>]
  BY DEF DropRules, Shape
<1>3. \A k \in Kinds, ch \in Channels : bindings[<<k, ch>>] \in Rules \cup {None}
  BY DEF Shape
<1>4. CurrentRuleLives'
  BY <1>2, <1>3, ForwardAssumption DEF RuleInv, CurrentRuleLives
<1>5. RuleKnown'
  BY DEF RuleInv, RuleKnown
<1>6. EntryTaken' /\ TodoWhen'
  <2>1. None \notin main.todo
    BY ForwardAssumption DEF Shape, MainRec
  <2> QED
    BY <1>2, <2>1 DEF RuleInv, EntryTaken, TodoWhen
<1>7. RuleFound'
  <2> SUFFICES ASSUME NEW q \in Rules \ {r}, ~rules[q].closed
               PROVE  /\ rules[q].pc # "done"
                      /\ bindings'[<<rules[q].kind, rules[q].ch>>] = q \/ q \in main.todo
    BY <1>1 DEF RuleFound
  <2>1. rules[q].kind \in Kinds /\ rules[q].ch \in Channels
    BY <1>1 DEF RuleInv, RuleKnown
  <2> QED
    BY <1>2, <2>1 DEF RuleInv, RuleFound
<1>8. SetupAlone' /\ TimerRuns'
  BY <1>1 DEF RuleInv, SetupAlone, TimerRuns
<1> QED
  BY <1>4, <1>5, <1>6, <1>7, <1>8 DEF RuleInv

\* The rules stay in order under every step.
LEMMA RuleNext == Inv /\ [Next]_vars => RuleInv'
<1> SUFFICES ASSUME Shape, RuleInv, [Next]_vars PROVE RuleInv'
  BY DEF Inv
<1>0. /\ \A r \in Rules : rules[r] \in RuleRec
      /\ NoRule.closed /\ NoRule.pc = "done" /\ NoRule.accept = "off" /\ NoRule.timer = "off"
  BY DEF Shape, NoRule
<1>1. ASSUME NEW k \in Kinds, NEW ch \in Channels, NEW x \in Contexts, NEW r \in Rules,
             main.pc = "idle", bindings[<<k, ch>>] = None, StartRule(k, ch, x, r)
      PROVE  RuleInv'
  <2> DEFINE rec == [NoRule EXCEPT !.kind = k, !.ch = ch, !.ctx = x, !.pc = "open", !.closed = FALSE]
  <2>1. /\ rec.kind = k /\ rec.ch = ch /\ ~rec.closed /\ rec.pc = "open"
        /\ rec.accept = "off" /\ rec.timer = "off"
    BY DEF NoRule
  <2>2. /\ rules'[r] = rec /\ \A q \in Rules \ {r} : rules'[q] = rules[q]
        /\ bindings'[<<k, ch>>] = r /\ main' = main /\ main.todo = {}
        /\ \A j \in Kinds, h \in Channels :
             <<j, h>> # <<k, ch>> => bindings'[<<j, h>>] = bindings[<<j, h>>]
    BY <1>1 DEF StartRule, Shape, RuleInv, TodoWhen
  <2>3. rules[r] = NoRule /\ \A j \in Kinds, h \in Channels : bindings[<<j, h>>] # r
    BY <1>0, <1>1, ForwardAssumption DEF StartRule, FreeRule, RuleInv, CurrentRuleLives
  <2> HIDE DEF rec
  <2>4. CurrentRuleLives'
    <3>1. \A j \in Kinds, h \in Channels : bindings[<<j, h>>] \in Rules \cup {None}
      BY DEF Shape
    <3> QED
      BY <2>1, <2>2, <2>3, <3>1 DEF RuleInv, CurrentRuleLives
  <2>5. RuleKnown' /\ EntryTaken' /\ TodoWhen'
    BY <2>1, <2>2, <2>3 DEF RuleInv, RuleKnown, EntryTaken, TodoWhen
  <2>6. RuleFound'
    <3> SUFFICES ASSUME NEW q \in Rules \ {r}, ~rules[q].closed
                 PROVE  /\ rules[q].pc # "done"
                        /\ bindings'[<<rules[q].kind, rules[q].ch>>] = q
      BY <2>1, <2>2 DEF RuleFound
    <3>1. rules[q].kind \in Kinds /\ rules[q].ch \in Channels
      BY <1>0 DEF RuleInv, RuleKnown
    <3>2. rules[q].pc # "done" /\ bindings[<<rules[q].kind, rules[q].ch>>] = q
      BY <2>2 DEF RuleInv, RuleFound
    <3> QED
      BY <1>1, <2>2, <3>1, <3>2, ForwardAssumption
  <2>7. SetupAlone' /\ TimerRuns'
    BY <2>1, <2>2 DEF RuleInv, SetupAlone, TimerRuns
  <2> QED
    BY <2>4, <2>5, <2>6, <2>7 DEF RuleInv
<1>2. ASSUME NEW ch \in Channels, NEW x \in Contexts,
             \/ \E c \in Conns : HandleActiveSlave(ch, x, c)
             \/ HandleReverseActiveMaster(ch, x) \/ HandleDataFails(ch, x)
      PROVE  RuleInv'
  <2>1. UNCHANGED <<bindings, rules>> /\ (main' = main \/ main'.todo = {}) /\ main.pc = "idle"
    BY <1>2 DEF HandleActiveSlave, HandleReverseActiveMaster, HandleDataFails, Idle
  <2> QED
    BY <2>1, NoRuleChanges DEF RuleInv, TodoWhen
<1>3. ASSUME DialSucceeds \/ DialFails PROVE RuleInv'
  <2>1. UNCHANGED <<bindings, rules>> /\ main'.todo = {} /\ main.pc = "dial"
    BY <1>3 DEF DialSucceeds, DialFails, Idle
  <2> QED
    BY <2>1, NoRuleChanges DEF RuleInv, TodoWhen
<1>4. ASSUME Cancel \/ CloseWaits \/ CloseReturns PROVE RuleInv'
  <2>1. UNCHANGED <<bindings, rules>> /\ main'.todo = main.todo /\ main.todo = {}
    BY <1>4 DEF Cancel, CloseWaits, CloseReturns, Shape, MainRec, RuleInv, TodoWhen
  <2> QED
    BY <2>1, NoRuleChanges DEF TodoWhen
<1>5. ASSUME NEW c \in Conns, ReadLoopEnds(c) PROVE RuleInv'
  <2>1. UNCHANGED <<bindings, rules, main>>
    BY <1>5 DEF ReadLoopEnds
  <2> QED
    BY <2>1, NoRuleChanges DEF RuleInv, TodoWhen
<1>6. ASSUME NEW ch \in Channels, NEW x \in Contexts, HandleFreeContext(ch, x) PROVE RuleInv'
  <2> DEFINE freed == {bindings[<<k, ch>>] : k \in {j \in Kinds : /\ bindings[<<j, ch>>] # None
                                                  /\ rules[bindings[<<j, ch>>]].ctx = x}}
  <2>1. freed \in SUBSET Rules
    BY DEF Shape
  <2>2. /\ main.pc = "idle" /\ main.todo = {} /\ DropRules(freed) /\ UNCHANGED rules
        /\ main' = IF freed = {} THEN main ELSE [Idle EXCEPT !.pc = "closing", !.todo = freed]
    BY <1>6 DEF HandleFreeContext, RuleInv, TodoWhen
  <2> HIDE DEF freed
  <2>3. main'.todo = freed /\ TodoWhen'
    BY <2>2 DEF Idle, TodoWhen
  <2> QED
    BY <2>1, <2>2, <2>3, RulesTaken
<1>7. ASSUME NEW ch \in Channels, NEW ok \in BOOLEAN, HandleReverseCheckResult(ch, ok) PROVE RuleInv'
  <2> DEFINE r == bindings[<<"rport", ch>>]
  <2>1. r \in Rules /\ rules[r] # NoRule
    BY <1>0, <1>7 DEF HandleReverseCheckResult, RuleInv, CurrentRuleLives, Shape, Kinds
  <2>2. rules' = [rules EXCEPT ![r].resolved = TRUE] /\ main.todo = {}
    BY <1>7 DEF HandleReverseCheckResult, RuleInv, TodoWhen
  <2>3. CASE ok
    <3>1. UNCHANGED <<bindings, main>>
      BY <1>7, <2>3 DEF HandleReverseCheckResult
    <3>2. /\ rules'[r].kind = rules[r].kind /\ rules'[r].ch = rules[r].ch
          /\ rules'[r].closed = rules[r].closed /\ rules'[r].pc = rules[r].pc
          /\ rules'[r].accept = rules[r].accept /\ rules'[r].timer = rules[r].timer
          /\ rules'[r].resolved
      BY <1>0, <2>1, <2>2 DEF Shape, RuleRec
    <3>3. \A q \in Rules \ {r} : rules'[q] = rules[q]
      BY <2>2 DEF Shape
    <3>4. /\ rules[r].pc = "done" => rules[r].closed
          /\ rules[r].pc \in {"open", "read", "finish", "fail"} =>
               rules[r].accept = "off" /\ rules[r].timer = "off"
      BY <2>1 DEF RuleInv, RuleFound, SetupAlone
    <3> HIDE DEF r
    <3> QED
      BY <2>1, <3>1, <3>2, <3>3, <3>4, OneRule
  <2>4. CASE ~ok
    <3>1. DropRules({r}) /\ main' = [Idle EXCEPT !.pc = "closing", !.todo = {r}]
      BY <1>7, <2>4 DEF HandleReverseCheckResult, RemoveRule
    <3>2. main'.todo = {r} /\ TodoWhen'
      BY <3>1 DEF Idle, TodoWhen
    <3>3. \A q \in Rules : \/ rules'[q] = rules[q]
                           \/ rules'[q] = [rules[q] EXCEPT !.resolved = TRUE] /\ rules[q] # NoRule
      BY <2>1, <2>2 DEF Shape
    <3> HIDE DEF r
    <3> QED
      BY <2>1, <2>2, <3>1, <3>2, <3>3, RulesTaken
  <2> QED
    BY <2>3, <2>4
<1>8. ASSUME NEW ch \in Channels, CloseChannel(ch) PROVE RuleInv'
  <2> DEFINE R == {bindings[<<k, ch>>] : k \in Kinds} \ {None}
  <2>1. R \in SUBSET Rules
    BY DEF Shape
  <2>2. /\ main.todo = {} /\ DropRules(R) /\ UNCHANGED rules /\ main.pc = "idle"
        /\ main' = IF R = {} THEN main ELSE [Idle EXCEPT !.pc = "closing", !.todo = R]
    BY <1>8 DEF CloseChannel, RuleInv, TodoWhen
  <2> HIDE DEF R
  <2>3. main'.todo = R /\ TodoWhen'
    BY <2>2 DEF Idle, TodoWhen
  <2> QED
    BY <2>1, <2>2, <2>3, RulesTaken
<1>9. CASE CloseAll
  <2> DEFINE R == {bindings[i] : i \in DOMAIN bindings} \ {None}
  <2>1. R \in SUBSET Rules
    BY DEF Shape
  <2>2. /\ main.todo = {} /\ DropRules(R) /\ UNCHANGED rules
        /\ main' = [Idle EXCEPT !.pc = "drop", !.todo = R]
    BY <1>9 DEF CloseAll, RuleInv, TodoWhen
  <2> HIDE DEF R
  <2>3. main'.todo = R /\ TodoWhen'
    BY <2>2 DEF Idle, TodoWhen
  <2> QED
    BY <2>1, <2>2, <2>3, RulesTaken
<1>10. ASSUME NEW r \in Rules, CloseTaken(r) PROVE RuleInv'
  <2>1. /\ rules'[r] = Retire(CloseRule(r)) /\ \A q \in Rules \ {r} : rules'[q] = rules[q]
        /\ bindings' = bindings /\ r \in main.todo
    BY <1>10 DEF CloseTaken, Set, Shape
  <2>2. main'.todo = main.todo \ {r} /\ TodoWhen'
    BY <1>10 DEF CloseTaken, Idle, Shape, MainRec, TodoWhen
  <2>3. \/ rules'[r] = NoRule
        \/ /\ rules'[r].kind = rules[r].kind /\ rules'[r].ch = rules[r].ch /\ rules'[r].closed
           /\ rules'[r].pc = rules[r].pc /\ rules'[r].accept = rules[r].accept
           /\ rules'[r].timer = rules[r].timer
    BY <1>0, <2>1 DEF Retire, CloseRule, RuleRec
  <2>4. rules[r] = NoRule => rules'[r] = NoRule
    <3>1. /\ CloseRule(r).pc = rules[r].pc /\ CloseRule(r).accept = rules[r].accept
          /\ CloseRule(r).timer = rules[r].timer
      BY <1>0 DEF CloseRule, RuleRec
    <3> QED
      BY <1>0, <2>1, <3>1 DEF Retire
  <2>5. \A k \in Kinds, ch \in Channels : bindings[<<k, ch>>] # r
    BY <2>1 DEF RuleInv, EntryTaken
  <2>6. CurrentRuleLives' /\ EntryTaken'
    <3>1. \A k \in Kinds, ch \in Channels : bindings[<<k, ch>>] \in Rules \cup {None}
      BY DEF Shape
    <3>2. CurrentRuleLives'
      BY <2>1, <2>5, <3>1 DEF RuleInv, CurrentRuleLives
    <3> QED
      BY <2>1, <2>2, <3>2 DEF RuleInv, EntryTaken
  <2>7. RuleKnown' /\ RuleFound'
    <3>1. RuleKnown'
      BY <2>1, <2>3, <2>4 DEF RuleInv, RuleKnown
    <3> QED
      BY <1>0, <2>1, <2>2, <2>3, <3>1 DEF RuleInv, RuleFound
  <2>8. SetupAlone' /\ TimerRuns'
    BY <1>0, <2>1, <2>3 DEF RuleInv, SetupAlone, TimerRuns
  <2> QED
    BY <2>2, <2>6, <2>7, <2>8 DEF RuleInv
<1>11. ASSUME NEW r \in Rules,
              OpenTarget(r) \/ OpenTargetFails(r) \/ WatchdogCloses(r) \/ ReadEnds(r)
       PROVE  RuleInv'
  <2>1. /\ rules[r].pc \in {"open", "read"} /\ UNCHANGED <<bindings, main>>
        /\ \A q \in Rules \ {r} : rules'[q] = rules[q]
    BY <1>11 DEF OpenTarget, OpenTargetFails, WatchdogCloses, ReadEnds, Shape
  <2>2. /\ rules'[r].kind = rules[r].kind /\ rules'[r].ch = rules[r].ch
        /\ rules'[r].closed = rules[r].closed /\ rules'[r].accept = rules[r].accept
        /\ rules'[r].timer = rules[r].timer
        /\ \/ rules'[r].pc \in {"read", "finish", "fail"}
           \/ (rules'[r].pc = "serve" /\ rules[r].closed)
    <3>1. rules[r] \in RuleRec /\ r \in DOMAIN rules
      BY DEF Shape
    <3>2. CASE OpenTarget(r)
      BY <3>1, <3>2 DEF OpenTarget, RuleRec
    <3>3. CASE OpenTargetFails(r)
      BY <3>1, <3>3 DEF OpenTargetFails, RuleRec
    <3>4. CASE WatchdogCloses(r)
      BY <3>1, <3>4 DEF WatchdogCloses, RuleRec
    <3>5. CASE ReadEnds(r)
      BY <3>1, <3>5 DEF ReadEnds, RuleRec
    <3> QED
      BY <1>11, <3>2, <3>3, <3>4, <3>5
  <2>3. rules[r].accept = "off" /\ rules[r].timer = "off" /\ rules[r] # NoRule
    BY <1>0, <2>1 DEF RuleInv, SetupAlone
  <2> QED
    BY <2>1, <2>2, <2>3, OneRule
<1>12. ASSUME NEW r \in Rules, FinishSetup(r) PROVE RuleInv'
  <2>1. /\ rules[r].pc = "finish" /\ UNCHANGED <<bindings, main>>
        /\ \A q \in Rules \ {r} : rules'[q] = rules[q]
    BY <1>12 DEF FinishSetup, Shape
  <2>2. rules[r].accept = "off" /\ rules[r].timer = "off" /\ rules[r] # NoRule
    BY <1>0, <2>1 DEF RuleInv, SetupAlone
  <2>3. rules[r].kind \in Kinds
    BY <2>2 DEF RuleInv, RuleKnown
  <2>4. /\ rules'[r].kind = rules[r].kind /\ rules'[r].ch = rules[r].ch
        /\ rules'[r].closed = rules[r].closed /\ rules'[r].pc = "serve"
        /\ rules'[r].closed \/ rules'[r].kind = "fport" \/ rules'[r].timer = "armed"
    <3>1. rules[r] \in RuleRec /\ r \in DOMAIN rules
      BY DEF Shape
    <3> QED
      BY <1>12, <3>1 DEF FinishSetup, RuleRec
  <2> QED
    BY <2>1, <2>2, <2>4, OneRule
<1>13. ASSUME NEW r \in Rules, FailSetup(r) PROVE RuleInv'
  <2>1. /\ rules[r].pc = "fail" /\ DropRules({r}) /\ UNCHANGED main
        /\ rules'[r] = [CloseRule(r) EXCEPT !.pc = "serve"]
        /\ \A q \in Rules \ {r} : rules'[q] = rules[q]
    BY <1>13 DEF FailSetup, RemoveRule, Shape
  <2>2. /\ rules'[r].kind = rules[r].kind /\ rules'[r].ch = rules[r].ch
        /\ rules'[r].closed /\ rules'[r].pc = "serve"
    BY <1>0, <2>1 DEF CloseRule, RuleRec
  <2> QED
    BY <1>0, <2>1, <2>2, RuleRemoved
<1>14. ASSUME NEW r \in Rules, Cleanup(r) PROVE RuleInv'
  <2> DEFINE rec == [rules[r] EXCEPT !.pc = "done"]
  <2>1. /\ rules[r].pc = "serve" /\ rules[r].closed /\ rules'[r] = Retire(rec)
        /\ UNCHANGED <<bindings, main>> /\ \A q \in Rules \ {r} : rules'[q] = rules[q]
    BY <1>14 DEF Cleanup, Set, Shape
  <2>2. /\ rec.kind = rules[r].kind /\ rec.ch = rules[r].ch /\ rec.closed = rules[r].closed
        /\ rec.pc = "done"
    BY <1>0 DEF RuleRec
  <2> HIDE DEF rec
  <2>3. rules'[r] = rec \/ rules'[r] = NoRule
    BY <2>1 DEF Retire
  <2> QED
    BY <1>0, <2>1, <2>2, <2>3, OneRule
<1>15. ASSUME NEW r \in Rules, TimerEnds(r) PROVE RuleInv'
  <2> DEFINE rec == [rules[r] EXCEPT !.timer = "off"]
  <2>1. /\ rules[r].timer = "armed" /\ (rules[r].closed \/ rules[r].resolved)
        /\ rules'[r] = Retire(rec)
        /\ UNCHANGED <<bindings, main>> /\ \A q \in Rules \ {r} : rules'[q] = rules[q]
    BY <1>15 DEF TimerEnds, Set, Shape
  <2>2. /\ rec.kind = rules[r].kind /\ rec.ch = rules[r].ch /\ rec.closed = rules[r].closed
        /\ rec.pc = rules[r].pc /\ rec.accept = rules[r].accept /\ rec.timer = "off"
        /\ rec.resolved = rules[r].resolved
    BY <1>0 DEF RuleRec
  <2> HIDE DEF rec
  <2>3. rules'[r] = rec \/ (rules'[r] = NoRule /\ rec.pc = "done")
    BY <2>1 DEF Retire
  <2>4. /\ rules[r].pc = "done" => rules[r].closed
        /\ rules[r].pc \notin {"open", "read", "finish", "fail"} /\ rules[r] # NoRule
    BY <1>0, <2>1 DEF RuleInv, RuleFound, SetupAlone
  <2> QED
    BY <1>0, <2>1, <2>2, <2>3, <2>4, OneRule
<1>16. ASSUME NEW r \in Rules, TimerFires(r) PROVE RuleInv'
  <2>1. /\ rules[r].timer = "armed" /\ rules'[r] = [rules[r] EXCEPT !.timer = "fail"]
        /\ UNCHANGED <<bindings, main>> /\ \A q \in Rules \ {r} : rules'[q] = rules[q]
    BY <1>16 DEF TimerFires, Shape
  <2>2. /\ rules'[r].kind = rules[r].kind /\ rules'[r].ch = rules[r].ch
        /\ rules'[r].closed = rules[r].closed /\ rules'[r].pc = rules[r].pc
        /\ rules'[r].timer = "fail"
    BY <1>0, <2>1 DEF RuleRec
  <2>3. /\ rules[r].pc = "done" => rules[r].closed
        /\ rules[r].pc \notin {"open", "read", "finish", "fail"} /\ rules[r] # NoRule
    BY <1>0, <2>1 DEF RuleInv, RuleFound, SetupAlone
  <2> QED
    BY <2>1, <2>2, <2>3, OneRule
<1>17. ASSUME NEW r \in Rules, TimerFails(r) PROVE RuleInv'
  <2> DEFINE rec == [CloseRule(r) EXCEPT !.timer = "off"]
  <2>1. /\ rules[r].timer = "fail" /\ DropRules({r}) /\ UNCHANGED main
        /\ rules'[r] = Retire(rec) /\ \A q \in Rules \ {r} : rules'[q] = rules[q]
    BY <1>17 DEF TimerFails, RemoveRule, Set, Shape
  <2>2. /\ rec.kind = rules[r].kind /\ rec.ch = rules[r].ch /\ rec.closed /\ rec.pc = rules[r].pc
    BY <1>0 DEF CloseRule, RuleRec
  <2> HIDE DEF rec
  <2>3. rules'[r] = rec \/ rules'[r] = NoRule
    BY <2>1 DEF Retire
  <2>4. rules[r].pc \notin {"open", "read", "finish", "fail"} /\ rules[r] # NoRule
    BY <1>0, <2>1 DEF RuleInv, SetupAlone
  <2> QED
    BY <2>1, <2>2, <2>3, <2>4, RuleRemoved
<1>18. ASSUME NEW r \in Rules,
              \/ \E c \in Conns : Accept(r, c)
              \/ \E x \in Contexts : RegisterConn(r, x) \/ RegisterCollides(r, x)
       PROVE  RuleInv'
  <2>1. /\ rules[r].accept \in {"wait"} \cup Conns
        /\ \E a \in {"wait"} \cup Conns : rules'[r] = [rules[r] EXCEPT !.accept = a]
        /\ UNCHANGED <<bindings, main>> /\ \A q \in Rules \ {r} : rules'[q] = rules[q]
    BY <1>18 DEF Accept, RegisterConn, RegisterCollides, Shape
  <2>2. /\ rules'[r].kind = rules[r].kind /\ rules'[r].ch = rules[r].ch
        /\ rules'[r].closed = rules[r].closed /\ rules'[r].pc = rules[r].pc
        /\ rules'[r].timer = rules[r].timer /\ rules'[r].resolved = rules[r].resolved
    BY <1>0, <2>1 DEF RuleRec
  <2>3. /\ rules[r].pc = "done" => rules[r].closed
        /\ rules[r].pc \notin {"open", "read", "finish", "fail"} /\ rules[r] # NoRule
    BY <1>0, <2>1, ForwardAssumption DEF RuleInv, RuleFound, SetupAlone
  <2> QED
    BY <2>1, <2>2, <2>3, OneRule DEF RuleInv, TimerRuns
<1>19. ASSUME NEW r \in Rules, AcceptFails(r) \/ RegisterFails(r) PROVE RuleInv'
  <2> DEFINE rec == [rules[r] EXCEPT !.accept = "off"]
  <2>1. /\ rules[r].accept \in {"wait"} \cup Conns /\ rules'[r] = Retire(rec)
        /\ UNCHANGED <<bindings, main>> /\ \A q \in Rules \ {r} : rules'[q] = rules[q]
    BY <1>19 DEF AcceptFails, RegisterFails, Set, Shape
  <2>2. /\ rec.kind = rules[r].kind /\ rec.ch = rules[r].ch /\ rec.closed = rules[r].closed
        /\ rec.pc = rules[r].pc /\ rec.timer = rules[r].timer /\ rec.resolved = rules[r].resolved
    BY <1>0 DEF RuleRec
  <2> HIDE DEF rec
  <2>3. rules'[r] = rec \/ (rules'[r] = NoRule /\ rec.pc = "done")
    BY <2>1 DEF Retire
  <2>4. /\ rules[r].pc = "done" => rules[r].closed
        /\ rules[r].pc \notin {"open", "read", "finish", "fail"} /\ rules[r] # NoRule
    BY <1>0, <2>1, ForwardAssumption DEF RuleInv, RuleFound, SetupAlone
  <2> QED
    BY <1>0, <2>1, <2>2, <2>3, <2>4, OneRule DEF RuleInv, TimerRuns
<1>20. CASE UNCHANGED vars
  BY <1>20, NoRuleChanges DEF vars, RuleInv, TodoWhen
<1> QED
  BY <1>1, <1>2, <1>3, <1>4, <1>5, <1>6, <1>7, <1>8, <1>9, <1>10, <1>11, <1>12, <1>13, <1>14,
     <1>15, <1>16, <1>17, <1>18, <1>19, <1>20
  DEF Next, Frame, MainGoesOn, RuleGoesOn, TimerGoesOn, AcceptGoesOn, HandleCheck, HandleReverseInit,
      Kinds

-----------------------------------------------------------------------------
(* How the connections change *)

\* No accept loop gets hold of another connection.
AcceptsKept == \A r \in Rules : rules'[r].accept = rules[r].accept \/ rules'[r].accept \notin Conns

\* The main loop neither begins nor ends a dial.
DialKept == main' = main \/ (main.pc # "dial" /\ main'.pc # "dial")

\* A step that leaves the connections and their map alone keeps them in order.
LEMMA NoConnChanges ==
  ASSUME ConnInv, UNCHANGED <<contexts, conns>>, AcceptsKept, DialKept
  PROVE  ConnInv'
BY DEF ConnInv, ContextLives, ConnFound, ConnForm, AcceptOwns, DialKnown, AcceptsKept, DialKept

\* What DropConns does to one entry and to one connection.
LEMMA DropEffect ==
  ASSUME Shape, NEW S, DropConns(S)
  PROVE  /\ \A key \in Keys : contexts'[key] = IF contexts[key] \in S THEN None ELSE contexts[key]
         /\ \A c \in Conns : c \notin S => conns'[c] = conns[c]
         /\ \A c \in Conns \cap S :
              \/ conns[c].pc \notin {"dial", "read"} /\ conns'[c] = NoConn
              \/ /\ conns[c].pc \in {"dial", "read"} /\ conns'[c].pc = conns[c].pc
                 /\ conns'[c].dead /\ ~conns'[c].sock
<1>1. \A c \in Conns : conns[c] \in ConnRec
  BY DEF Shape
<1>2. \A key \in Keys : contexts'[key] = IF contexts[key] \in S THEN None ELSE contexts[key]
  BY DEF Shape, DropConns
<1>3. \A c \in Conns : c \notin S => conns'[c] = conns[c]
  BY DEF DropConns
<1>4. ASSUME NEW c \in Conns, c \in S
      PROVE  \/ conns[c].pc \notin {"dial", "read"} /\ conns'[c] = NoConn
             \/ /\ conns[c].pc \in {"dial", "read"} /\ conns'[c].pc = conns[c].pc
                /\ conns'[c].dead /\ ~conns'[c].sock
  <2>1. CASE conns[c].pc \in {"dial", "read"}
    <3>1. conns'[c] = [conns[c] EXCEPT !.sock = FALSE, !.dead = TRUE]
      BY <1>4, <2>1 DEF DropConns
    <3> QED
      BY <1>1, <2>1, <3>1 DEF ConnRec
  <2>2. CASE conns[c].pc \notin {"dial", "read"}
    BY <1>4, <2>2 DEF DropConns
  <2> QED
    BY <2>1, <2>2
<1> QED
  BY <1>2, <1>3, <1>4

\* Registered connections are taken out of the map and closed.
LEMMA ConnsDropped ==
  ASSUME Shape, ConnInv, NEW S, DropConns(S), AcceptsKept, DialKept,
         \A c \in S : \E key \in Keys : contexts[key] = c /\ c # None
  PROVE  ConnInv'
<1>1. NoConn.pc = "none" /\ ~NoConn.dead
  BY DEF NoConn
<1>2. S \subseteq Conns /\ \A key \in Keys : contexts[key] \in Conns \cup {None}
  BY DEF Shape
<1>3. \A c \in S : conns[c].pc \in {"dial", "idle", "read"}
  BY DEF ConnInv, ContextLives
<1>4. ContextLives'
  BY <1>2, DropEffect, ForwardAssumption DEF ConnInv, ContextLives
<1>5. ConnFound'
  BY <1>1, <1>2, DropEffect DEF ConnInv, ConnFound
<1>6. ConnForm'
  BY <1>1, <1>2, DropEffect DEF ConnInv, ConnForm
<1>7. AcceptOwns'
  BY <1>2, <1>3, DropEffect DEF ConnInv, AcceptOwns, AcceptsKept
<1>8. DialKnown'
  BY <1>1, <1>2, <1>3, DropEffect DEF ConnInv, DialKnown, DialKept
<1> QED
  BY <1>4, <1>5, <1>6, <1>7, <1>8 DEF ConnInv

\* A connection is taken out of the map and is free again.
LEMMA ConnFreed ==
  ASSUME Shape, ConnInv, NEW c \in Conns,
         \A key \in Keys : contexts'[key] = IF contexts[key] = c THEN None ELSE contexts[key],
         conns' = [conns EXCEPT ![c] = NoConn],
         AcceptsKept, \A r \in Rules : rules'[r].accept # c,
         \/ DialKept /\ conns[c].pc # "dial"
         \/ main.pc = "dial" /\ main.conn = c /\ main'.pc # "dial"
  PROVE  ConnInv'
<1>1. NoConn.pc = "none" /\ ~NoConn.dead
  BY DEF NoConn
<1>2. conns'[c] = NoConn /\ \A e \in Conns \ {c} : conns'[e] = conns[e]
  BY DEF Shape
<1>3. \A key \in Keys : contexts[key] \in Conns \cup {None}
  BY DEF Shape
<1>4. ContextLives'
  BY <1>2, <1>3 DEF ConnInv, ContextLives
<1>5. ConnFound' /\ ConnForm'
  BY <1>1, <1>2 DEF ConnInv, ConnFound, ConnForm
<1>6. AcceptOwns'
  BY <1>2 DEF ConnInv, AcceptOwns, AcceptsKept
<1>7. DialKnown'
  BY <1>1, <1>2 DEF ConnInv, DialKnown, DialKept
<1> QED
  BY <1>4, <1>5, <1>6, <1>7 DEF ConnInv

\* Only Accept gives an accept loop a connection.
LEMMA AcceptsStay ==
  ASSUME Shape, NEW r \in Rules,
         \/ \E k \in Kinds, ch \in Channels, x \in Contexts : StartRule(k, ch, x, r)
         \/ CloseTaken(r) \/ RuleGoesOn(r) \/ WatchdogCloses(r) \/ TimerGoesOn(r)
         \/ AcceptFails(r) \/ RegisterFails(r)
         \/ \E x \in Contexts : RegisterConn(r, x) \/ RegisterCollides(r, x)
  PROVE  AcceptsKept
<1>1. rules[r] \in RuleRec
  BY DEF Shape
<1>2. NoRule.accept = "off" /\ \A rec : Retire(rec) \in {NoRule, rec}
  BY DEF NoRule, Retire
<1> SUFFICES /\ \A q \in Rules \ {r} : rules'[q] = rules[q]
             /\ rules'[r].accept \in {rules[r].accept, "off", "wait"}
  BY ForwardAssumption DEF AcceptsKept
<1>3. CASE \E k \in Kinds, ch \in Channels, x \in Contexts : StartRule(k, ch, x, r)
  BY <1>3 DEF StartRule, Shape, NoRule
<1>4. CASE CloseTaken(r)
  <2>1. CloseRule(r).accept = rules[r].accept
    BY <1>1 DEF CloseRule, RuleRec
  <2> QED
    BY <1>2, <1>4, <2>1 DEF CloseTaken, Set, Shape
<1>5. CASE OpenTarget(r) \/ OpenTargetFails(r) \/ WatchdogCloses(r) \/ ReadEnds(r) \/ TimerFires(r)
  <2>1. CASE OpenTarget(r)
    BY <1>1, <2>1 DEF OpenTarget, RuleRec, Shape
  <2>2. CASE OpenTargetFails(r)
    BY <1>1, <2>2 DEF OpenTargetFails, RuleRec, Shape
  <2>3. CASE WatchdogCloses(r)
    BY <1>1, <2>3 DEF WatchdogCloses, RuleRec, Shape
  <2>4. CASE ReadEnds(r)
    BY <1>1, <2>4 DEF ReadEnds, RuleRec, Shape
  <2>5. CASE TimerFires(r)
    BY <1>1, <2>5 DEF TimerFires, RuleRec, Shape
  <2> QED
    BY <1>5, <2>1, <2>2, <2>3, <2>4, <2>5
<1>6. CASE FinishSetup(r)
  <2>1. /\ \A q \in Rules \ {r} : rules'[q] = rules[q]
        /\ \/ rules'[r] = [rules[r] EXCEPT !.pc = "serve"]
           \/ rules'[r] = [rules[r] EXCEPT !.pc = "serve", !.ready = TRUE]
           \/ rules'[r] = [rules[r] EXCEPT !.pc = "serve", !.ready = TRUE,
                                           !.accept = "wait", !.timer = "armed"]
    BY <1>6 DEF FinishSetup, Shape
  <2> QED
    BY <1>1, <2>1 DEF RuleRec
<1>7. CASE FailSetup(r)
  BY <1>1, <1>7 DEF FailSetup, CloseRule, RuleRec, Shape
<1>8. CASE Cleanup(r)
  <2>1. [rules[r] EXCEPT !.pc = "done"].accept = rules[r].accept
    BY <1>1 DEF RuleRec
  <2> QED
    BY <1>2, <1>8, <2>1 DEF Cleanup, Set, Shape
<1>9. CASE TimerEnds(r)
  <2>1. [rules[r] EXCEPT !.timer = "off"].accept = rules[r].accept
    BY <1>1 DEF RuleRec
  <2>2. /\ \A q \in Rules \ {r} : rules'[q] = rules[q]
        /\ rules'[r] = Retire([rules[r] EXCEPT !.timer = "off"])
    BY <1>9 DEF TimerEnds, Set, Shape
  <2> QED
    BY <1>2, <2>1, <2>2
<1>10. CASE TimerFails(r)
  <2>1. [CloseRule(r) EXCEPT !.timer = "off"].accept = rules[r].accept
    BY <1>1 DEF CloseRule, RuleRec
  <2> QED
    BY <1>2, <1>10, <2>1 DEF TimerFails, Set, Shape
<1>11. CASE AcceptFails(r) \/ RegisterFails(r)
  <2>1. [rules[r] EXCEPT !.accept = "off"].accept = "off"
    BY <1>1 DEF RuleRec
  <2> QED
    BY <1>2, <1>11, <2>1 DEF AcceptFails, RegisterFails, Set, Shape
<1>12. CASE \E x \in Contexts : RegisterConn(r, x) \/ RegisterCollides(r, x)
  <2>1. /\ \A q \in Rules \ {r} : rules'[q] = rules[q]
        /\ rules'[r] = [rules[r] EXCEPT !.accept = "wait"]
    BY <1>12 DEF RegisterConn, RegisterCollides, Shape
  <2> QED
    BY <1>1, <2>1 DEF RuleRec
<1> QED
  BY <1>3, <1>4, <1>5, <1>6, <1>7, <1>8, <1>9, <1>10, <1>11, <1>12 DEF RuleGoesOn, TimerGoesOn

\* The connections stay in order under every step.
LEMMA ConnNext == Inv /\ [Next]_vars => ConnInv'
<1> SUFFICES ASSUME Shape, RuleInv, ConnInv, [Next]_vars PROVE ConnInv'
  BY DEF Inv
<1>0. /\ NoConn.pc = "none" /\ ~NoConn.dead /\ ~NoConn.sock /\ "off" \notin Conns
      /\ \A c \in Conns : conns[c] \in ConnRec
      /\ \A key \in Keys : contexts[key] \in Conns \cup {None}
  BY ForwardAssumption DEF NoConn, Shape
<1>1. ASSUME NEW k \in Kinds, NEW ch \in Channels, NEW x \in Contexts, NEW r \in Rules,
             StartRule(k, ch, x, r)
      PROVE  ConnInv'
  <2>1. UNCHANGED <<contexts, conns, main>>
    BY <1>1 DEF StartRule
  <2> QED
    BY <1>1, <2>1, AcceptsStay, NoConnChanges DEF DialKept
<1>2. ASSUME NEW ch \in Channels, NEW x \in Contexts, NEW c \in Conns, HandleActiveSlave(ch, x, c)
      PROVE  ConnInv'
  <2> DEFINE key == <<"fport", ch, x>>
             rec == [NoConn EXCEPT !.key = key, !.pc = "dial"]
  <2>1. key \in Keys /\ rec.key = key /\ rec.pc = "dial" /\ ~rec.dead
    BY DEF Keys, Kinds, NoConn
  <2>2. /\ contexts'[key] = c /\ \A i \in Keys \ {key} : contexts'[i] = contexts[i]
        /\ conns'[c] = rec /\ \A e \in Conns \ {c} : conns'[e] = conns[e]
        /\ main.pc = "idle" /\ main'.pc = "dial" /\ main'.conn = c /\ rules' = rules
        /\ conns[c] = NoConn /\ contexts[key] = None
    BY <1>2, <2>1 DEF HandleActiveSlave, FreeConn, Shape, Idle
  <2>3. \A i \in Keys : contexts[i] # c
    BY <1>0, <2>2, ForwardAssumption DEF ConnInv, ContextLives
  <2> HIDE DEF key, rec
  <2>4. ContextLives'
    BY <1>0, <2>1, <2>2, <2>3 DEF ConnInv, ContextLives
  <2>5. ConnFound' /\ ConnForm'
    BY <2>1, <2>2, ForwardAssumption DEF ConnInv, ConnFound, ConnForm
  <2>6. AcceptOwns' /\ DialKnown'
    BY <1>0, <2>1, <2>2 DEF ConnInv, AcceptOwns, DialKnown
  <2> QED
    BY <2>4, <2>5, <2>6 DEF ConnInv
<1>3. CASE DialSucceeds
  <2> DEFINE c == main.conn
             rec == [conns[c] EXCEPT !.sock = TRUE, !.pc = "read"]
  <2>1. /\ c \in Conns /\ conns[c].pc = "dial" /\ ~conns[c].dead /\ main.pc = "dial"
        /\ UNCHANGED <<contexts, rules>> /\ main'.pc = "idle"
        /\ conns'[c] = rec /\ \A e \in Conns \ {c} : conns'[e] = conns[e]
    BY <1>3 DEF DialSucceeds, ConnInv, DialKnown, Shape, Idle
  <2>2. rec.key = conns[c].key /\ rec.pc = "read" /\ ~rec.dead
    BY <1>0, <2>1 DEF ConnRec
  <2> HIDE DEF c, rec
  <2>3. ContextLives' /\ ConnFound'
    BY <1>0, <2>1, <2>2 DEF ConnInv, ContextLives, ConnFound
  <2>4. ConnForm' /\ AcceptOwns'
    BY <2>1, <2>2 DEF ConnInv, ConnForm, AcceptOwns
  <2>5. DialKnown'
    BY <2>1, <2>2 DEF c, ConnInv, DialKnown
  <2> QED
    BY <2>3, <2>4, <2>5 DEF ConnInv
<1>4. CASE DialFails
  <2>1. /\ main.conn \in Conns /\ conns[main.conn].pc = "dial" /\ main.pc = "dial"
        /\ \A key \in Keys : contexts'[key] = IF contexts[key] = main.conn THEN None ELSE contexts[key]
        /\ conns' = [conns EXCEPT ![main.conn] = NoConn] /\ rules' = rules /\ main'.pc = "idle"
    BY <1>4 DEF DialFails, ConnInv, DialKnown, Shape, Idle
  <2>2. \A r \in Rules : rules[r].accept # main.conn
    BY <2>1 DEF ConnInv, AcceptOwns
  <2> QED
    BY <2>1, <2>2, ConnFreed DEF AcceptsKept
<1>5. ASSUME NEW ch \in Channels, NEW x \in Contexts, HandleReverseActiveMaster(ch, x) PROVE ConnInv'
  <2> DEFINE c == contexts[<<"rport", ch, x>>]
             rec == [conns[c] EXCEPT !.pc = "read"]
  <2>1. c \in Conns
    BY <1>5, <1>0 DEF HandleReverseActiveMaster, Keys, Kinds
  <2>2. /\ conns[c].pc = "idle" /\ UNCHANGED <<contexts, rules, main>>
        /\ conns'[c] = rec /\ \A e \in Conns \ {c} : conns'[e] = conns[e]
    BY <1>5, <2>1 DEF HandleReverseActiveMaster, Shape
  <2>3. /\ rec.key = conns[c].key /\ rec.pc = "read" /\ rec.dead = conns[c].dead
        /\ rec.sock = conns[c].sock
    BY <1>0, <2>1 DEF ConnRec
  <2> HIDE DEF c, rec
  <2>4. ContextLives' /\ ConnFound'
    BY <1>0, <2>1, <2>2, <2>3 DEF ConnInv, ContextLives, ConnFound
  <2>5. ConnForm' /\ AcceptOwns' /\ DialKnown'
    BY <2>1, <2>2, <2>3 DEF ConnInv, ConnForm, AcceptOwns, DialKnown
  <2> QED
    BY <2>4, <2>5 DEF ConnInv
<1>6. ASSUME NEW ch \in Channels, NEW x \in Contexts, HandleDataFails(ch, x) PROVE ConnInv'
  <2>1. PICK key \in Keys : contexts[key] # None /\ DropConns({contexts[key]})
    BY <1>6 DEF HandleDataFails, Keys, Kinds
  <2>2. UNCHANGED <<rules, main>>
    BY <1>6 DEF HandleDataFails
  <2> QED
    BY <2>1, <2>2, ConnsDropped DEF AcceptsKept, DialKept
<1>7. ASSUME NEW ch \in Channels, NEW x \in Contexts, HandleFreeContext(ch, x) PROVE ConnInv'
  <2> DEFINE freed == {bindings[<<k, ch>>] : k \in {j \in Kinds : /\ bindings[<<j, ch>>] # None
                                                  /\ rules[bindings[<<j, ch>>]].ctx = x}}
             S == ({contexts[<<k, ch, x>>] : k \in Kinds} \ {None})
                    \cup UNION {ConnsOf(rules[r].kind, ch) : r \in freed}
  <2>1. \A r \in freed : rules[r].kind \in Kinds
    <3>1. \A k \in Kinds : bindings[<<k, ch>>] # None => rules[bindings[<<k, ch>>]].kind = k
      BY DEF RuleInv, CurrentRuleLives
    <3> QED
      BY <3>1
  <2>2. \A c \in S : \E key \in Keys : contexts[key] = c /\ c # None
    <3> HIDE DEF freed
    <3> QED
      BY <2>1 DEF ConnsOf, Keys
  <2>3. DropConns(S) /\ UNCHANGED rules /\ DialKept
    BY <1>7 DEF HandleFreeContext, Idle, DialKept
  <2> HIDE DEF S
  <2> QED
    BY <2>2, <2>3, ConnsDropped DEF AcceptsKept
<1>8. ASSUME NEW ch \in Channels, NEW ok \in BOOLEAN, HandleReverseCheckResult(ch, ok) PROVE ConnInv'
  <2> DEFINE r == bindings[<<"rport", ch>>]
  <2>1. r \in Rules /\ rules[r].kind \in Kinds /\ rules[r].ch \in Channels
    BY <1>8 DEF HandleReverseCheckResult, RuleInv, CurrentRuleLives, Shape, Kinds
  <2>2. AcceptsKept
    BY <1>8 DEF HandleReverseCheckResult, AcceptsKept, Shape, RuleRec
  <2>3. CASE ok
    BY <1>8, <2>2, <2>3, NoConnChanges DEF HandleReverseCheckResult, DialKept
  <2>4. CASE ~ok
    <3>1. DropConns(ConnsOf(rules[r].kind, rules[r].ch)) /\ DialKept
      BY <1>8, <2>4 DEF HandleReverseCheckResult, RemoveRule, DialKept, Idle
    <3>2. \A c \in ConnsOf(rules[r].kind, rules[r].ch) : \E key \in Keys : contexts[key] = c /\ c # None
      BY <2>1 DEF ConnsOf, Keys
    <3> QED
      BY <2>2, <3>1, <3>2, ConnsDropped
  <2> QED
    BY <2>3, <2>4
<1>9. ASSUME NEW ch \in Channels, CloseChannel(ch) PROVE ConnInv'
  <2> DEFINE S == UNION {ConnsOf(k, ch) : k \in Kinds}
  <2>1. \A c \in S : \E key \in Keys : contexts[key] = c /\ c # None
    BY DEF ConnsOf, Keys
  <2>2. DropConns(S) /\ UNCHANGED rules /\ DialKept
    BY <1>9 DEF CloseChannel, DialKept, Idle
  <2> HIDE DEF S
  <2> QED
    BY <2>1, <2>2, ConnsDropped DEF AcceptsKept
<1>10. CASE CloseAll
  <2> DEFINE S == {contexts[key] : key \in DOMAIN contexts} \ {None}
  <2>1. \A c \in S : \E key \in Keys : contexts[key] = c /\ c # None
    BY DEF Shape
  <2>2. DropConns(S) /\ UNCHANGED rules /\ DialKept
    BY <1>10 DEF CloseAll, DialKept, Idle
  <2> HIDE DEF S
  <2> QED
    BY <2>1, <2>2, ConnsDropped DEF AcceptsKept
<1>11. ASSUME Cancel \/ CloseWaits \/ CloseReturns PROVE ConnInv'
  BY <1>11, NoConnChanges DEF Cancel, CloseWaits, CloseReturns, Shape, MainRec, AcceptsKept, DialKept
<1>12. ASSUME NEW r \in Rules,
              \/ CloseTaken(r) \/ OpenTarget(r) \/ OpenTargetFails(r) \/ WatchdogCloses(r)
              \/ ReadEnds(r) \/ FinishSetup(r) \/ Cleanup(r) \/ TimerEnds(r) \/ TimerFires(r)
              \/ AcceptFails(r)
       PROVE  ConnInv'
  <2>1. AcceptsKept
    BY <1>12, AcceptsStay DEF RuleGoesOn, TimerGoesOn
  <2>2. UNCHANGED <<contexts, conns>>
    BY <1>12 DEF CloseTaken, OpenTarget, OpenTargetFails, WatchdogCloses, ReadEnds, FinishSetup,
      Cleanup, TimerEnds, TimerFires, AcceptFails
  <2>3. DialKept
    <3>1. CASE CloseTaken(r)
      BY <3>1 DEF CloseTaken, DialKept, Idle, Shape, MainRec
    <3>2. CASE ~CloseTaken(r)
      BY <1>12, <3>2 DEF OpenTarget, OpenTargetFails, WatchdogCloses, ReadEnds, FinishSetup,
        Cleanup, TimerEnds, TimerFires, AcceptFails, DialKept
    <3> QED
      BY <3>1, <3>2
  <2> QED
    BY <2>1, <2>2, <2>3, NoConnChanges
<1>13. ASSUME NEW r \in Rules, FailSetup(r) \/ TimerFails(r) PROVE ConnInv'
  <2>1. AcceptsKept
    BY <1>13, AcceptsStay DEF RuleGoesOn, TimerGoesOn
  <2>2. DropConns(ConnsOf(rules[r].kind, rules[r].ch)) /\ DialKept /\ rules[r] # NoRule
    BY <1>13 DEF FailSetup, TimerFails, RemoveRule, DialKept, NoRule
  <2>3. \A c \in ConnsOf(rules[r].kind, rules[r].ch) : \E key \in Keys : contexts[key] = c /\ c # None
    BY <2>2 DEF ConnsOf, Keys, RuleInv, RuleKnown
  <2> QED
    BY <2>1, <2>2, <2>3, ConnsDropped
<1>14. ASSUME NEW r \in Rules, NEW c \in Conns, Accept(r, c) PROVE ConnInv'
  <2> DEFINE rec == [NoConn EXCEPT !.sock = TRUE, !.pc = "accepted"]
  <2>1. rec.pc = "accepted" /\ ~rec.dead
    BY DEF NoConn
  <2>2. /\ UNCHANGED <<contexts, main>> /\ conns[c] = NoConn
        /\ conns'[c] = rec /\ \A e \in Conns \ {c} : conns'[e] = conns[e]
        /\ \A q \in Rules \ {r} : rules'[q] = rules[q]
        /\ rules'[r] = [rules[r] EXCEPT !.accept = c] /\ rules[r] \in RuleRec
    BY <1>14 DEF Accept, FreeConn, Shape
  <2>3. rules'[r].accept = c
    BY <2>2 DEF RuleRec
  <2> HIDE DEF rec
  <2>4. ContextLives' /\ ConnFound'
    BY <1>0, <2>1, <2>2 DEF ConnInv, ContextLives, ConnFound
  <2>5. ConnForm' /\ DialKnown'
    BY <1>0, <2>1, <2>2 DEF ConnInv, ConnForm, DialKnown
  <2>6. AcceptOwns'
    <3>1. \A q \in Rules : rules[q].accept # c
      BY <1>0, <2>2 DEF ConnInv, AcceptOwns
    <3>2. /\ \A q \in Rules : rules'[q].accept = IF q = r THEN c ELSE rules[q].accept
          /\ \A e \in Conns : conns'[e].pc = IF e = c THEN "accepted" ELSE conns[e].pc
      BY <2>1, <2>2, <2>3
    <3> QED
      BY <3>1, <3>2 DEF ConnInv, AcceptOwns
  <2> QED
    BY <2>4, <2>5, <2>6 DEF ConnInv
<1>15. ASSUME NEW r \in Rules, NEW x \in Contexts, RegisterConn(r, x) PROVE ConnInv'
  <2> DEFINE c == rules[r].accept
             key == <<"rport", rules[r].ch, x>>
             rec == [conns[c] EXCEPT !.key = key, !.pc = "idle"]
  <2>1. c \in Conns /\ conns[c].pc = "accepted"
    BY <1>15 DEF RegisterConn, ConnInv, AcceptOwns
  <2>2. key \in Keys
    BY <2>1, ForwardAssumption DEF Keys, Kinds, RuleInv, RuleKnown, NoRule
  <2>3. rec.key = key /\ rec.pc = "idle" /\ rec.dead = conns[c].dead /\ rec.sock = conns[c].sock
    BY <1>0, <2>1 DEF ConnRec
  <2>4. /\ contexts'[key] = c /\ \A i \in Keys \ {key} : contexts'[i] = contexts[i]
        /\ conns'[c] = rec /\ \A e \in Conns \ {c} : conns'[e] = conns[e]
        /\ main' = main /\ contexts[key] = None
        /\ \A q \in Rules \ {r} : rules'[q] = rules[q]
        /\ rules'[r] = [rules[r] EXCEPT !.accept = "wait"]
    BY <1>15, <2>1, <2>2 DEF RegisterConn, Shape
  <2>5. rules'[r].accept = "wait" /\ "wait" \notin Conns
    BY <2>4, ForwardAssumption DEF Shape, RuleRec
  <2>6. \A q \in Rules \ {r} : rules[q].accept # c
    BY <2>1 DEF ConnInv, AcceptOwns
  <2>7. ~conns[c].dead
    BY <2>1 DEF ConnInv, ConnForm
  <2> HIDE DEF c, key, rec
  <2>8. ContextLives' /\ ConnFound'
    <3>1. ContextLives'
      BY <1>0, <2>1, <2>2, <2>3, <2>4, <2>7 DEF ConnInv, ContextLives
    <3> QED
      BY <2>1, <2>2, <2>3, <2>4, <3>1, ForwardAssumption DEF ConnInv, ConnFound
  <2>9. ConnForm' /\ DialKnown'
    BY <2>1, <2>3, <2>4, <2>7 DEF ConnInv, ConnForm, DialKnown
  <2>10. AcceptOwns'
    <3>1. /\ \A q \in Rules : rules'[q].accept = IF q = r THEN "wait" ELSE rules[q].accept
          /\ \A e \in Conns \ {c} : conns'[e].pc = conns[e].pc
      BY <2>4, <2>5
    <3> QED
      BY <2>5, <2>6, <3>1 DEF ConnInv, AcceptOwns
  <2> QED
    BY <2>8, <2>9, <2>10 DEF ConnInv
<1>16. ASSUME NEW r \in Rules,
              RegisterFails(r) \/ \E x \in Contexts : RegisterCollides(r, x)
       PROVE  ConnInv'
  <2> DEFINE c == rules[r].accept
  <2>1. c \in Conns /\ conns[c].pc = "accepted" /\ \A q \in Rules \ {r} : rules[q].accept # c
    BY <1>16 DEF RegisterFails, RegisterCollides, ConnInv, AcceptOwns
  <2>2. AcceptsKept
    BY <1>16, AcceptsStay
  <2>3. /\ UNCHANGED <<contexts, main>> /\ conns' = [conns EXCEPT ![c] = NoConn]
        /\ \A q \in Rules \ {r} : rules'[q] = rules[q]
        /\ rules'[r] = [rules[r] EXCEPT !.accept = "wait"]
             \/ rules'[r] = Retire([rules[r] EXCEPT !.accept = "off"])
    BY <1>16 DEF RegisterFails, RegisterCollides, Set, Shape
  <2>4. rules'[r].accept # c
    <3>1. /\ [rules[r] EXCEPT !.accept = "wait"].accept = "wait"
          /\ [rules[r] EXCEPT !.accept = "off"].accept = "off"
      BY DEF Shape, RuleRec
    <3>2. NoRule.accept = "off" /\ \A rec : Retire(rec) \in {NoRule, rec}
      BY DEF NoRule, Retire
    <3> QED
      BY <2>1, <2>3, <3>1, <3>2, ForwardAssumption
  <2>5. \A key \in Keys : contexts[key] # c
    BY <2>1, ForwardAssumption DEF ConnInv, ContextLives
  <2> HIDE DEF c
  <2> QED
    BY <2>1, <2>2, <2>3, <2>4, <2>5, ConnFreed DEF DialKept
<1>17. ASSUME NEW c \in Conns, ReadLoopEnds(c) PROVE ConnInv'
  <2>1. /\ \A key \in Keys : contexts'[key] = IF contexts[key] = c THEN None ELSE contexts[key]
        /\ conns' = [conns EXCEPT ![c] = NoConn] /\ UNCHANGED <<rules, main>> /\ conns[c].pc = "read"
    BY <1>17 DEF ReadLoopEnds, Shape
  <2>2. \A r \in Rules : rules[r].accept # c
    BY <2>1 DEF ConnInv, AcceptOwns
  <2> QED
    BY <2>1, <2>2, ConnFreed DEF AcceptsKept, DialKept
<1>18. CASE UNCHANGED vars
  BY <1>18, NoConnChanges DEF vars, AcceptsKept, DialKept
<1> QED
  BY <1>1, <1>2, <1>3, <1>4, <1>5, <1>6, <1>7, <1>8, <1>9, <1>10, <1>11, <1>12, <1>13, <1>14,
     <1>15, <1>16, <1>17, <1>18
  DEF Next, Frame, MainGoesOn, RuleGoesOn, TimerGoesOn, AcceptGoesOn, HandleCheck, HandleReverseInit,
      Kinds

-----------------------------------------------------------------------------
(* Types *)

RulePCs == {"open", "read", "finish", "fail", "serve", "done"}

\* The records nobody uses have their types.
LEMMA EmptyTypes == NoRule \in RuleRec /\ NoConn \in ConnRec /\ Idle \in MainRec
BY DEF NoRule, RuleRec, NoConn, ConnRec, Idle, MainRec

\* What the goroutines of a rule change in its record.
LEMMA RuleFieldTypes ==
  ASSUME NEW rec \in RuleRec, NEW pc \in RulePCs, NEW t \in {"none", "open"},
         NEW a \in {"off", "wait"} \cup Conns, NEW w \in {"off", "armed", "fail"}
  PROVE  /\ [rec EXCEPT !.pc = pc] \in RuleRec
         /\ [rec EXCEPT !.target = t] \in RuleRec
         /\ [rec EXCEPT !.pc = pc, !.target = t] \in RuleRec
         /\ [rec EXCEPT !.closed = TRUE, !.target = "none"] \in RuleRec
         /\ [rec EXCEPT !.accept = a] \in RuleRec
         /\ [rec EXCEPT !.timer = w] \in RuleRec
         /\ [rec EXCEPT !.resolved = TRUE] \in RuleRec
<1>1. [rec EXCEPT !.pc = pc] \in RuleRec
  BY DEF RuleRec, RulePCs
<1>2. [rec EXCEPT !.target = t] \in RuleRec
  BY DEF RuleRec
<1>3. [rec EXCEPT !.pc = pc, !.target = t] \in RuleRec
  BY DEF RuleRec, RulePCs
<1>4. [rec EXCEPT !.closed = TRUE, !.target = "none"] \in RuleRec
  BY DEF RuleRec
<1>5. [rec EXCEPT !.accept = a] \in RuleRec
  BY DEF RuleRec
<1>6. [rec EXCEPT !.timer = w] \in RuleRec
  BY DEF RuleRec
<1>7. [rec EXCEPT !.resolved = TRUE] \in RuleRec
  BY DEF RuleRec
<1> QED
  BY <1>1, <1>2, <1>3, <1>4, <1>5, <1>6, <1>7

\* The rules keep their types.
LEMMA RulesType == Inv /\ [Next]_vars => rules' \in [Rules -> RuleRec]
<1> SUFFICES ASSUME Shape, RuleInv, [Next]_vars PROVE rules' \in [Rules -> RuleRec]
  BY DEF Inv
<1>0. rules \in [Rules -> RuleRec]
  BY DEF Shape
<1>1. \A rec \in RuleRec : Retire(rec) \in RuleRec
  BY EmptyTypes DEF Retire
<1>2. \A r \in Rules : CloseRule(r) \in RuleRec
  BY <1>0, RuleFieldTypes DEF CloseRule, RulePCs
<1>3. ASSUME NEW k \in Kinds, NEW ch \in Channels, NEW x \in Contexts, NEW r \in Rules,
             StartRule(k, ch, x, r)
      PROVE  rules' \in [Rules -> RuleRec]
  <2>1. [NoRule EXCEPT !.kind = k, !.ch = ch, !.ctx = x, !.pc = "open", !.closed = FALSE] \in RuleRec
    BY DEF NoRule, RuleRec
  <2> QED
    BY <1>0, <1>3, <2>1 DEF StartRule
<1>4. ASSUME NEW ch \in Channels, NEW ok \in BOOLEAN, HandleReverseCheckResult(ch, ok)
      PROVE  rules' \in [Rules -> RuleRec]
  <2>1. bindings[<<"rport", ch>>] \in Rules
    BY <1>4 DEF HandleReverseCheckResult, Shape, Kinds
  <2>2. [rules[bindings[<<"rport", ch>>]] EXCEPT !.resolved = TRUE] \in RuleRec
    BY <1>0, <2>1, RuleFieldTypes DEF RulePCs
  <2> QED
    BY <1>0, <1>4, <2>1, <2>2 DEF HandleReverseCheckResult
<1>5. ASSUME NEW r \in Rules, CloseTaken(r) PROVE rules' \in [Rules -> RuleRec]
  BY <1>0, <1>1, <1>2, <1>5 DEF CloseTaken, Set
<1>6. ASSUME NEW r \in Rules,
             \/ OpenTarget(r) \/ OpenTargetFails(r) \/ WatchdogCloses(r) \/ ReadEnds(r)
             \/ TimerFires(r) \/ (\E c \in Conns : Accept(r, c))
             \/ \E x \in Contexts : RegisterConn(r, x) \/ RegisterCollides(r, x)
      PROVE  rules' \in [Rules -> RuleRec]
  <2>1. /\ [rules[r] EXCEPT !.pc = "serve"] \in RuleRec
        /\ [rules[r] EXCEPT !.pc = "fail"] \in RuleRec
        /\ [rules[r] EXCEPT !.target = "none"] \in RuleRec
        /\ [rules[r] EXCEPT !.pc = "read", !.target = "open"] \in RuleRec
        /\ \A pc \in {"finish", "fail"} : [rules[r] EXCEPT !.pc = pc, !.target = "none"] \in RuleRec
        /\ [rules[r] EXCEPT !.timer = "fail"] \in RuleRec
        /\ [rules[r] EXCEPT !.accept = "wait"] \in RuleRec
        /\ \A c \in Conns : [rules[r] EXCEPT !.accept = c] \in RuleRec
    BY <1>0, RuleFieldTypes DEF RulePCs
  <2>2. \E rec \in RuleRec : rules' = [rules EXCEPT ![r] = rec]
    <3>1. CASE OpenTarget(r)
      BY <2>1, <3>1 DEF OpenTarget
    <3>2. CASE OpenTargetFails(r)
      BY <2>1, <3>2 DEF OpenTargetFails
    <3>3. CASE WatchdogCloses(r)
      BY <2>1, <3>3 DEF WatchdogCloses
    <3>4. CASE ReadEnds(r)
      BY <2>1, <3>4 DEF ReadEnds
    <3>5. CASE TimerFires(r)
      BY <2>1, <3>5 DEF TimerFires
    <3>6. CASE \E c \in Conns : Accept(r, c)
      BY <2>1, <3>6 DEF Accept
    <3>7. CASE \E x \in Contexts : RegisterConn(r, x) \/ RegisterCollides(r, x)
      BY <2>1, <3>7 DEF RegisterConn, RegisterCollides
    <3> QED
      BY <1>6, <3>1, <3>2, <3>3, <3>4, <3>5, <3>6, <3>7
  <2> QED
    BY <1>0, <2>2
<1>7. ASSUME NEW r \in Rules, FinishSetup(r) PROVE rules' \in [Rules -> RuleRec]
  <2>1. rules[r] \in RuleRec
    BY <1>0
  <2>2. [rules[r] EXCEPT !.pc = "serve"] \in RuleRec
    BY <2>1, RuleFieldTypes DEF RulePCs
  <2>3. [rules[r] EXCEPT !.pc = "serve", !.ready = TRUE] \in RuleRec
    BY <2>1 DEF RuleRec
  <2>4. [rules[r] EXCEPT !.pc = "serve", !.ready = TRUE, !.accept = "wait", !.timer = "armed"] \in RuleRec
    BY <2>1 DEF RuleRec
  <2>5. \E rec \in RuleRec : rules' = [rules EXCEPT ![r] = rec]
    BY <1>7, <2>2, <2>3, <2>4 DEF FinishSetup
  <2> QED
    BY <1>0, <2>5
<1>8. ASSUME NEW r \in Rules, FailSetup(r) PROVE rules' \in [Rules -> RuleRec]
  <2>1. [CloseRule(r) EXCEPT !.pc = "serve"] \in RuleRec
    BY <1>2, RuleFieldTypes DEF RulePCs
  <2> QED
    BY <1>0, <1>8, <2>1 DEF FailSetup
<1>9. ASSUME NEW r \in Rules, Cleanup(r) \/ TimerEnds(r) \/ TimerFails(r) \/ AcceptFails(r) \/ RegisterFails(r)
      PROVE  rules' \in [Rules -> RuleRec]
  <2>1. /\ [rules[r] EXCEPT !.pc = "done"] \in RuleRec
        /\ [rules[r] EXCEPT !.timer = "off"] \in RuleRec
        /\ [CloseRule(r) EXCEPT !.timer = "off"] \in RuleRec
        /\ [rules[r] EXCEPT !.accept = "off"] \in RuleRec
    BY <1>0, <1>2, RuleFieldTypes DEF RulePCs
  <2>2. \E rec \in RuleRec : rules' = [rules EXCEPT ![r] = Retire(rec)]
    BY <1>9, <2>1 DEF Cleanup, TimerEnds, TimerFails, AcceptFails, RegisterFails, Set
  <2> QED
    BY <1>0, <1>1, <2>2
<1>10. ASSUME \/ UNCHANGED vars \/ DialSucceeds \/ DialFails \/ Cancel \/ CloseAll
              \/ CloseWaits \/ CloseReturns
              \/ \E ch \in Channels, x \in Contexts :
                   \/ HandleReverseActiveMaster(ch, x) \/ HandleDataFails(ch, x)
                   \/ HandleFreeContext(ch, x) \/ \E c \in Conns : HandleActiveSlave(ch, x, c)
              \/ \E ch \in Channels : CloseChannel(ch)
              \/ \E c \in Conns : ReadLoopEnds(c)
       PROVE  rules' \in [Rules -> RuleRec]
  <2>1. UNCHANGED rules
    BY <1>10 DEF vars, DialSucceeds, DialFails, Cancel, CloseAll, CloseWaits, CloseReturns,
      HandleReverseActiveMaster, HandleDataFails, HandleFreeContext, HandleActiveSlave, CloseChannel,
      ReadLoopEnds
  <2> QED
    BY <1>0, <2>1
<1> QED
  BY <1>3, <1>4, <1>5, <1>6, <1>7, <1>8, <1>9, <1>10
  DEF Next, Frame, MainGoesOn, RuleGoesOn, TimerGoesOn, AcceptGoesOn, HandleCheck, HandleReverseInit,
      Kinds

\* The connections and both maps keep their types.
LEMMA MapsType ==
  Inv /\ [Next]_vars =>
    /\ bindings' \in [Kinds \X Channels -> Rules \cup {None}]
    /\ contexts' \in [Keys -> Conns \cup {None}] /\ conns' \in [Conns -> ConnRec]
<1> DEFINE Maps == /\ bindings \in [Kinds \X Channels -> Rules \cup {None}]
                   /\ contexts \in [Keys -> Conns \cup {None}] /\ conns \in [Conns -> ConnRec]
<1> SUFFICES ASSUME Shape, RuleInv, ConnInv, [Next]_vars PROVE Maps'
  BY DEF Inv
<1>0. Maps
  BY DEF Shape
<1>1. ASSUME NEW R, DropRules(R) PROVE bindings' \in [Kinds \X Channels -> Rules \cup {None}]
  BY <1>0, <1>1 DEF DropRules
<1>2. ASSUME NEW S, DropConns(S)
      PROVE  contexts' \in [Keys -> Conns \cup {None}] /\ conns' \in [Conns -> ConnRec]
  <2>1. \A c \in Conns : [conns[c] EXCEPT !.sock = FALSE, !.dead = TRUE] \in ConnRec
    BY <1>0 DEF ConnRec
  <2> QED
    BY <1>0, <1>2, <2>1, EmptyTypes DEF DropConns
<1>3. ASSUME NEW k \in Kinds, NEW ch \in Channels, NEW x \in Contexts, NEW r \in Rules,
             StartRule(k, ch, x, r)
      PROVE  Maps'
  BY <1>0, <1>3 DEF StartRule
<1>4. ASSUME NEW ch \in Channels, NEW x \in Contexts, NEW c \in Conns, HandleActiveSlave(ch, x, c)
      PROVE  Maps'
  <2>1. [NoConn EXCEPT !.key = <<"fport", ch, x>>, !.pc = "dial"] \in ConnRec
    BY DEF NoConn, ConnRec, Kinds
  <2> QED
    BY <1>0, <1>4, <2>1 DEF HandleActiveSlave
<1>5. CASE DialSucceeds
  <2>1. main.conn \in Conns
    BY <1>5 DEF DialSucceeds, ConnInv, DialKnown
  <2>2. [conns[main.conn] EXCEPT !.sock = TRUE, !.pc = "read"] \in ConnRec
    BY <1>0, <2>1 DEF ConnRec
  <2> QED
    BY <1>0, <1>5, <2>2 DEF DialSucceeds
<1>6. ASSUME DialFails \/ \E c \in Conns : ReadLoopEnds(c) PROVE Maps'
  BY <1>0, <1>6, EmptyTypes DEF DialFails, ReadLoopEnds
<1>7. ASSUME NEW ch \in Channels, NEW x \in Contexts, HandleReverseActiveMaster(ch, x) PROVE Maps'
  <2>1. contexts[<<"rport", ch, x>>] \in Conns
    BY <1>0, <1>7 DEF HandleReverseActiveMaster, Keys, Kinds
  <2>2. [conns[contexts[<<"rport", ch, x>>]] EXCEPT !.pc = "read"] \in ConnRec
    BY <1>0, <2>1 DEF ConnRec
  <2> QED
    BY <1>0, <1>7, <2>2 DEF HandleReverseActiveMaster
<1>8. ASSUME \/ CloseAll \/ (\E ch \in Channels : CloseChannel(ch))
             \/ \E ch \in Channels, x \in Contexts : HandleFreeContext(ch, x)
             \/ \E r \in Rules : FailSetup(r) \/ TimerFails(r)
      PROVE  Maps'
  <2>1. (\E R : DropRules(R)) /\ \E S : DropConns(S)
    BY <1>8 DEF CloseAll, CloseChannel, HandleFreeContext, FailSetup, TimerFails, RemoveRule
  <2> QED
    BY <1>1, <1>2, <2>1
<1>9. ASSUME NEW ch \in Channels, NEW x \in Contexts, HandleDataFails(ch, x) PROVE Maps'
  <2>1. (\E S : DropConns(S)) /\ UNCHANGED bindings
    BY <1>9 DEF HandleDataFails
  <2> QED
    BY <1>0, <1>2, <2>1
<1>10. ASSUME NEW ch \in Channels, NEW ok \in BOOLEAN, HandleReverseCheckResult(ch, ok) PROVE Maps'
  <2>1. \/ UNCHANGED <<bindings, contexts, conns>>
        \/ (\E R : DropRules(R)) /\ (\E S : DropConns(S))
    BY <1>10 DEF HandleReverseCheckResult, RemoveRule
  <2> QED
    BY <1>0, <1>1, <1>2, <2>1
<1>11. ASSUME NEW r \in Rules, NEW c \in Conns, Accept(r, c) PROVE Maps'
  <2>1. [NoConn EXCEPT !.sock = TRUE, !.pc = "accepted"] \in ConnRec
    BY DEF NoConn, ConnRec
  <2> QED
    BY <1>0, <1>11, <2>1 DEF Accept
<1>12. ASSUME NEW r \in Rules, NEW x \in Contexts, RegisterConn(r, x) PROVE Maps'
  <2> DEFINE c == rules[r].accept
             key == <<"rport", rules[r].ch, x>>
  <2>1. c \in Conns
    BY <1>12 DEF RegisterConn
  <2>2. key \in Keys
    BY <2>1, ForwardAssumption DEF Keys, Kinds, RuleInv, RuleKnown, NoRule
  <2>3. \A i \in Keys : [conns[c] EXCEPT !.key = i, !.pc = "idle"] \in ConnRec
    <3>1. conns[c] \in ConnRec
      BY <1>0, <2>1
    <3> HIDE DEF c
    <3> QED
      BY <3>1 DEF ConnRec, Keys
  <2>4. /\ contexts' = [contexts EXCEPT ![key] = c] /\ UNCHANGED bindings
        /\ conns' = [conns EXCEPT ![c] = [conns[c] EXCEPT !.key = key, !.pc = "idle"]]
    BY <1>12 DEF RegisterConn
  <2> HIDE DEF c, key
  <2> QED
    BY <1>0, <2>1, <2>2, <2>3, <2>4
<1>13. ASSUME NEW r \in Rules, RegisterFails(r) \/ \E x \in Contexts : RegisterCollides(r, x)
       PROVE  Maps'
  BY <1>0, <1>13, EmptyTypes DEF RegisterFails, RegisterCollides
<1>14. ASSUME \/ UNCHANGED vars \/ Cancel \/ CloseWaits \/ CloseReturns
              \/ \E r \in Rules :
                   \/ CloseTaken(r) \/ OpenTarget(r) \/ OpenTargetFails(r) \/ WatchdogCloses(r)
                   \/ ReadEnds(r) \/ FinishSetup(r) \/ Cleanup(r) \/ TimerEnds(r) \/ TimerFires(r)
                   \/ AcceptFails(r)
       PROVE  Maps'
  <2>1. UNCHANGED <<bindings, contexts, conns>>
    BY <1>14 DEF vars, Cancel, CloseWaits, CloseReturns, CloseTaken, OpenTarget, OpenTargetFails,
      WatchdogCloses, ReadEnds, FinishSetup, Cleanup, TimerEnds, TimerFires, AcceptFails
  <2> QED
    BY <1>0, <2>1
<1> HIDE DEF Maps
<1> QED
  BY <1>3, <1>4, <1>5, <1>6, <1>7, <1>8, <1>9, <1>10, <1>11, <1>12, <1>13, <1>14
  DEF Next, Frame, MainGoesOn, RuleGoesOn, TimerGoesOn, AcceptGoesOn, HandleCheck, HandleReverseInit,
      Kinds

\* The main loop and the counter keep their types.
LEMMA MainType == Inv /\ [Next]_vars => main' \in MainRec /\ wg' \in Int
<1> SUFFICES ASSUME Shape, [Next]_vars PROVE main' \in MainRec /\ wg' \in Int
  BY DEF Inv
<1>0. main \in MainRec /\ wg \in Int
  BY DEF Shape
<1>1. wg' \in Int
  <2> DEFINE Few == wg' \in {wg, wg + 1, wg - 1, wg + 2}
  <2>1. ASSUME NEW ch \in Channels, NEW x \in Contexts, NEW r \in Rules,
               HandleCheck(ch, x, r) \/ HandleReverseInit(ch, x, r)
        PROVE  Few
    BY <2>1 DEF HandleCheck, HandleReverseInit, StartRule
  <2>2. ASSUME NEW ch \in Channels, NEW x \in Contexts,
               \/ HandleReverseActiveMaster(ch, x) \/ HandleDataFails(ch, x)
               \/ HandleFreeContext(ch, x) \/ \E c \in Conns : HandleActiveSlave(ch, x, c)
        PROVE  Few
    BY <2>2 DEF HandleReverseActiveMaster, HandleDataFails, HandleFreeContext, HandleActiveSlave
  <2>3. ASSUME NEW ch \in Channels,
               CloseChannel(ch) \/ \E ok \in BOOLEAN : HandleReverseCheckResult(ch, ok)
        PROVE  Few
    BY <2>3 DEF CloseChannel, HandleReverseCheckResult
  <2>4. ASSUME Cancel \/ MainGoesOn \/ UNCHANGED vars PROVE Few
    <3>1. CASE Cancel \/ UNCHANGED vars
      BY <3>1 DEF Cancel, vars
    <3>2. CASE DialSucceeds \/ DialFails
      BY <3>2 DEF DialSucceeds, DialFails
    <3>3. CASE \E r \in Rules : CloseTaken(r)
      BY <3>3 DEF CloseTaken
    <3>4. CASE CloseAll \/ CloseWaits \/ CloseReturns
      BY <3>4 DEF CloseAll, CloseWaits, CloseReturns
    <3> QED
      BY <2>4, <3>1, <3>2, <3>3, <3>4 DEF MainGoesOn
  <2>5. ASSUME NEW r \in Rules, RuleGoesOn(r) \/ WatchdogCloses(r)
        PROVE  Few
    BY <2>5 DEF RuleGoesOn, WatchdogCloses, OpenTarget, OpenTargetFails, ReadEnds, FinishSetup,
      FailSetup, Cleanup
  <2>6. ASSUME NEW r \in Rules,
               TimerGoesOn(r) \/ AcceptGoesOn(r) \/ \E c \in Conns : Accept(r, c)
        PROVE  Few
    BY <2>6 DEF TimerGoesOn, AcceptGoesOn, TimerEnds, TimerFires, TimerFails, Accept, AcceptFails,
      RegisterConn, RegisterCollides, RegisterFails
  <2>7. ASSUME NEW c \in Conns, ReadLoopEnds(c)
        PROVE  Few
    BY <2>7 DEF ReadLoopEnds
  <2>8. Few
    <3> HIDE DEF Few
    <3>1. CASE Frame
      BY <2>1, <2>2, <2>3, <3>1 DEF Frame
    <3>2. CASE Cancel \/ MainGoesOn \/ UNCHANGED vars
      BY <2>4, <3>2
    <3> QED
      BY <2>5, <2>6, <2>7, <3>1, <3>2 DEF Next
  <2> QED
    BY <1>0, <2>8
<1>2. \A R \in SUBSET Rules : /\ [Idle EXCEPT !.pc = "closing", !.todo = R] \in MainRec
                             /\ [Idle EXCEPT !.pc = "drop", !.todo = R] \in MainRec
  BY DEF Idle, MainRec
<1>3. \A c \in Conns : [Idle EXCEPT !.pc = "dial", !.conn = c] \in MainRec
  BY DEF Idle, MainRec
<1>4. /\ \A R : [main EXCEPT !.todo = main.todo \ R] \in MainRec
      /\ \A pc \in {"cancel", "wait", "closed"} : [main EXCEPT !.pc = pc] \in MainRec
  BY <1>0 DEF MainRec
<1>5. ASSUME NEW ch \in Channels, CloseChannel(ch) PROVE main' \in MainRec
  <2>1. {bindings[<<k, ch>>] : k \in Kinds} \ {None} \in SUBSET Rules
    BY DEF Shape
  <2> QED
    BY <1>0, <1>2, <1>5, <2>1 DEF CloseChannel
<1>6. ASSUME NEW ch \in Channels, NEW x \in Contexts, HandleFreeContext(ch, x) PROVE main' \in MainRec
  <2>1. {bindings[<<k, ch>>] : k \in {j \in Kinds : bindings[<<j, ch>>] # None
                                       /\ rules[bindings[<<j, ch>>]].ctx = x}} \in SUBSET Rules
    BY DEF Shape
  <2> QED
    BY <1>0, <1>2, <1>6, <2>1 DEF HandleFreeContext
<1>7. ASSUME NEW ch \in Channels, NEW ok \in BOOLEAN, HandleReverseCheckResult(ch, ok)
      PROVE  main' \in MainRec
  <2>1. {bindings[<<"rport", ch>>]} \in SUBSET Rules
    BY <1>7 DEF HandleReverseCheckResult, Shape, Kinds
  <2> QED
    BY <1>0, <1>2, <1>7, <2>1 DEF HandleReverseCheckResult
<1>8. CASE CloseAll
  <2> DEFINE R == {bindings[i] : i \in DOMAIN bindings} \ {None}
  <2>1. R \in SUBSET Rules
    BY DEF Shape
  <2>2. main' = [Idle EXCEPT !.pc = "drop", !.todo = R]
    BY <1>8 DEF CloseAll
  <2> HIDE DEF R
  <2> QED
    BY <1>1, <1>2, <2>1, <2>2
<1>9. ASSUME NEW ch \in Channels, NEW x \in Contexts, NEW c \in Conns, HandleActiveSlave(ch, x, c)
      PROVE  main' \in MainRec
  BY <1>3, <1>9 DEF HandleActiveSlave
<1>10. ASSUME \/ DialSucceeds \/ DialFails \/ Cancel \/ CloseWaits \/ CloseReturns
              \/ \E r \in Rules : CloseTaken(r)
       PROVE  main' \in MainRec
  BY <1>0, <1>4, <1>10, EmptyTypes
  DEF DialSucceeds, DialFails, Cancel, CloseWaits, CloseReturns, CloseTaken
<1>11. ASSUME \/ UNCHANGED vars
              \/ \E c \in Conns : ReadLoopEnds(c)
              \/ \E ch \in Channels, x \in Contexts :
                   HandleReverseActiveMaster(ch, x) \/ HandleDataFails(ch, x)
              \/ \E r \in Rules :
                   \/ \E k \in Kinds, ch \in Channels, x \in Contexts : StartRule(k, ch, x, r)
                   \/ \E c \in Conns : Accept(r, c)
                   \/ RuleGoesOn(r) \/ WatchdogCloses(r) \/ TimerGoesOn(r) \/ AcceptGoesOn(r)
       PROVE  main' \in MainRec
  <2>1. UNCHANGED main
    BY <1>11 DEF vars, ReadLoopEnds, HandleReverseActiveMaster, HandleDataFails, StartRule, Accept,
      RuleGoesOn, TimerGoesOn, AcceptGoesOn, OpenTarget, OpenTargetFails, WatchdogCloses, ReadEnds,
      FinishSetup, FailSetup, Cleanup, TimerEnds, TimerFires, TimerFails, AcceptFails, RegisterConn,
      RegisterCollides, RegisterFails
  <2> QED
    BY <1>0, <2>1
<1> QED
  BY <1>1, <1>5, <1>6, <1>7, <1>8, <1>9, <1>10, <1>11
  DEF Next, Frame, MainGoesOn, HandleCheck, HandleReverseInit, Kinds

\* Every step keeps the types.
LEMMA ShapeNext == Inv /\ [Next]_vars => Shape'
BY RulesType, MapsType, MainType DEF Shape

-----------------------------------------------------------------------------
(* The end *)

\* Nothing enters the maps once Close has emptied them.
LEMMA EmptyNext == Inv /\ [Next]_vars => EmptyAfterClose'
<1> SUFFICES ASSUME Shape, RuleInv, ConnInv, EmptyAfterClose, [Next]_vars,
                    main'.pc \in {"drop", "wait", "closed"}
             PROVE  EmptyAfterClose'
  BY DEF Inv, EmptyAfterClose
<1>0. main \in MainRec
  BY DEF Shape
<1>1. ASSUME main.pc \in {"drop", "wait", "closed"},
             \A k \in Kinds, ch \in Channels : bindings'[<<k, ch>>] \in {bindings[<<k, ch>>], None},
             \A key \in Keys : contexts'[key] \in {contexts[key], None}
      PROVE  EmptyAfterClose'
  BY <1>1 DEF EmptyAfterClose
<1>2. CASE CloseAll
  BY <1>2, ForwardAssumption DEF CloseAll, DropRules, DropConns, Shape, EmptyAfterClose
<1>3. ASSUME CloseWaits \/ CloseReturns \/ UNCHANGED vars \/ \E r \in Rules : CloseTaken(r)
      PROVE  EmptyAfterClose'
  <2>1. UNCHANGED <<bindings, contexts>>
    BY <1>3 DEF CloseWaits, CloseReturns, CloseTaken, vars
  <2>2. main.pc \in {"drop", "wait", "closed"}
    BY <1>0, <1>3 DEF CloseWaits, CloseReturns, CloseTaken, vars, MainRec, Idle
  <2> QED
    BY <1>1, <2>1, <2>2
<1>4. ASSUME \/ Cancel \/ DialSucceeds \/ DialFails \/ Frame PROVE FALSE
  <2>1. CASE Cancel \/ DialSucceeds \/ DialFails
    BY <1>0, <2>1 DEF Cancel, DialSucceeds, DialFails, Idle, MainRec
  <2>2. CASE Frame
    <3>1. main.pc = "idle"
      BY <2>2 DEF Frame, HandleCheck, HandleReverseInit, HandleActiveSlave, HandleReverseActiveMaster,
        HandleDataFails, HandleFreeContext, HandleReverseCheckResult, CloseChannel
    <3>2. main' = main \/ main'.pc \in {"dial", "closing"}
      <4>1. \A ch \in Channels, x \in Contexts, r \in Rules :
              HandleCheck(ch, x, r) \/ HandleReverseInit(ch, x, r) => main' = main
        BY DEF HandleCheck, HandleReverseInit, StartRule
      <4>2. \A ch \in Channels, x \in Contexts :
              HandleReverseActiveMaster(ch, x) \/ HandleDataFails(ch, x) => main' = main
        BY DEF HandleReverseActiveMaster, HandleDataFails
      <4>3. \A ch \in Channels, x \in Contexts, c \in Conns :
              HandleActiveSlave(ch, x, c) => main'.pc = "dial"
        BY DEF HandleActiveSlave, Idle
      <4>4. \A ch \in Channels, x \in Contexts :
              HandleFreeContext(ch, x) => main' = main \/ main'.pc = "closing"
        BY DEF HandleFreeContext, Idle
      <4>5. \A ch \in Channels, ok \in BOOLEAN :
              HandleReverseCheckResult(ch, ok) => main' = main \/ main'.pc = "closing"
        BY DEF HandleReverseCheckResult, Idle
      <4>6. \A ch \in Channels : CloseChannel(ch) => main' = main \/ main'.pc = "closing"
        BY DEF CloseChannel, Idle
      <4> QED
        BY <2>2, <4>1, <4>2, <4>3, <4>4, <4>5, <4>6 DEF Frame
    <3> QED
      BY <3>1, <3>2
  <2> QED
    BY <1>4, <2>1, <2>2
<1>5. ASSUME NEW r \in Rules, FailSetup(r) \/ TimerFails(r) PROVE EmptyAfterClose'
  <2>1. /\ main' = main
        /\ \A k \in Kinds, ch \in Channels : bindings'[<<k, ch>>] \in {bindings[<<k, ch>>], None}
    BY <1>5 DEF FailSetup, TimerFails, RemoveRule, DropRules, Shape
  <2>2. \A key \in Keys : contexts'[key] \in {contexts[key], None}
    BY <1>5, DropEffect DEF FailSetup, TimerFails, RemoveRule
  <2> QED
    BY <1>1, <2>1, <2>2
<1>6. ASSUME NEW c \in Conns, ReadLoopEnds(c) PROVE EmptyAfterClose'
  BY <1>1, <1>6 DEF ReadLoopEnds, Shape
<1>7. ASSUME NEW r \in Rules, NEW x \in Contexts, RegisterConn(r, x) PROVE EmptyAfterClose'
  <2>1. main' = main /\ bindings[<<"rport", rules[r].ch>>] = r /\ rules[r].accept \in Conns
    BY <1>7 DEF RegisterConn
  <2>2. rules[r].ch \in Channels
    BY <2>1, ForwardAssumption DEF RuleInv, RuleKnown, NoRule
  <2> QED
    BY <2>1, <2>2, ForwardAssumption DEF EmptyAfterClose, Kinds
<1>8. ASSUME NEW r \in Rules,
             \/ OpenTarget(r) \/ OpenTargetFails(r) \/ WatchdogCloses(r)
             \/ ReadEnds(r) \/ FinishSetup(r) \/ Cleanup(r) \/ TimerEnds(r) \/ TimerFires(r)
             \/ AcceptFails(r) \/ RegisterFails(r) \/ (\E c \in Conns : Accept(r, c))
             \/ \E x \in Contexts : RegisterCollides(r, x)
      PROVE  EmptyAfterClose'
  <2>1. UNCHANGED <<bindings, contexts, main>>
    BY <1>8 DEF OpenTarget, OpenTargetFails, WatchdogCloses, ReadEnds, FinishSetup, Cleanup,
      TimerEnds, TimerFires, AcceptFails, RegisterFails, Accept, RegisterCollides
  <2> QED
    BY <1>1, <2>1
<1> QED
  BY <1>2, <1>3, <1>4, <1>5, <1>6, <1>7, <1>8
  DEF Next, MainGoesOn, RuleGoesOn, TimerGoesOn, AcceptGoesOn

\* A new connection has no rule and no socket.
LEMMA InitInv == Init => Inv
<1> SUFFICES ASSUME Init PROVE Inv
  OBVIOUS
<1>0. /\ NoRule.closed /\ NoRule.pc = "done" /\ NoRule.accept = "off" /\ NoRule.timer = "off"
      /\ NoConn.pc = "none" /\ ~NoConn.dead /\ Idle.pc = "idle" /\ Idle.todo = {}
  BY DEF NoRule, NoConn, Idle
<1>1. Shape
  BY EmptyTypes DEF Init, Shape, Keys
<1>2. /\ \A r \in Rules : rules[r] = NoRule
      /\ \A c \in Conns : conns[c] = NoConn
      /\ main = Idle
      /\ \A k \in Kinds, ch \in Channels : bindings[<<k, ch>>] = None
      /\ \A key \in Keys : contexts[key] = None
  BY DEF Init, Keys
<1>3. RuleInv
  BY <1>0, <1>2 DEF RuleInv, CurrentRuleLives, RuleKnown, EntryTaken, RuleFound, SetupAlone,
    TimerRuns, TodoWhen
<1>4. ConnInv /\ EmptyAfterClose
  BY <1>0, <1>2, ForwardAssumption DEF ConnInv, ContextLives, ConnFound, ConnForm, AcceptOwns,
    DialKnown, EmptyAfterClose
<1> QED
  BY <1>1, <1>3, <1>4 DEF Inv

\* Every step of the connection preserves the invariant.
LEMMA NextInv == Inv /\ [Next]_vars => Inv'
BY ShapeNext, RuleNext, ConnNext, EmptyNext DEF Inv

\* The invariant holds for ever.
LEMMA Invariance == Spec => []Inv
BY InitInv, NextInv, PTL DEF Spec

-----------------------------------------------------------------------------
(* closeWg *)

One(b) == IF b THEN 1 ELSE 0

\* The size of a finite set that may gain or lose one element.
LEMMA SizeChange ==
  ASSUME NEW S, IsFiniteSet(S), NEW T, NEW x, T \ {x} = S \ {x}
  PROVE  /\ Cardinality(S) \in Nat /\ Cardinality(T) \in Nat
         /\ Cardinality(T) = Cardinality(S) + One(x \in T) - One(x \in S)
<1> DEFINE U == S \ {x}
<1>1. IsFiniteSet(U) /\ x \notin U
  BY FS_RemoveElement
<1>2. /\ Cardinality(U) \in Nat /\ IsFiniteSet(U \cup {x})
      /\ Cardinality(U \cup {x}) = Cardinality(U) + 1
  BY <1>1, FS_AddElement, FS_CardinalityType
<1>3. S = IF x \in S THEN U \cup {x} ELSE U
  OBVIOUS
<1>4. T = IF x \in T THEN U \cup {x} ELSE U
  OBVIOUS
<1> HIDE DEF U
<1>5. Cardinality(S) = Cardinality(U) + One(x \in S)
  BY <1>2, <1>3 DEF One
<1>6. Cardinality(T) = Cardinality(U) + One(x \in T)
  <2>1. CASE x \in T
    BY <1>2, <1>4, <2>1 DEF One
  <2>2. CASE x \notin T
    BY <1>2, <1>4, <2>2 DEF One
  <2> QED
    BY <2>1, <2>2
<1> QED
  BY <1>2, <1>5, <1>6 DEF One

\* The four sets are finite.
LEMMA LoopsFinite ==
  /\ IsFiniteSet(RuleLoops) /\ IsFiniteSet(AcceptLoops) /\ IsFiniteSet(Timers)
  /\ IsFiniteSet(ConnLoops)
<1>1. IsFiniteSet(Rules) /\ IsFiniteSet(Conns)
  BY ForwardAssumption
<1>2. RuleLoops \subseteq Rules /\ AcceptLoops \subseteq Rules /\ Timers \subseteq Rules
      /\ ConnLoops \subseteq Conns
  BY DEF RuleLoops, AcceptLoops, Timers, ConnLoops
<1> QED
  BY <1>1, <1>2, FS_Subset

\* A step of one rule's goroutines counts right if the counter follows them.
LEMMA CountRule ==
  ASSUME Counted, NEW r \in Rules, \A q \in Rules \ {r} : rules'[q] = rules[q],
         ConnLoops' = ConnLoops, wg \in Int,
         wg' = wg + (One(rules'[r].pc # "done") - One(rules[r].pc # "done"))
                  + (One(rules'[r].accept # "off") - One(rules[r].accept # "off"))
                  + (One(rules'[r].timer # "off") - One(rules[r].timer # "off"))
  PROVE  Counted'
<1>1. /\ Cardinality(RuleLoops) \in Nat /\ Cardinality(RuleLoops') \in Nat
      /\ Cardinality(RuleLoops') =
           Cardinality(RuleLoops) + One(rules'[r].pc # "done") - One(rules[r].pc # "done")
  <2>1. /\ RuleLoops' \ {r} = RuleLoops \ {r}
        /\ (r \in RuleLoops' <=> rules'[r].pc # "done") /\ (r \in RuleLoops <=> rules[r].pc # "done")
    BY DEF RuleLoops
  <2> QED
    BY <2>1, LoopsFinite, SizeChange DEF One
<1>2. /\ Cardinality(AcceptLoops) \in Nat /\ Cardinality(AcceptLoops') \in Nat
      /\ Cardinality(AcceptLoops') =
           Cardinality(AcceptLoops) + One(rules'[r].accept # "off") - One(rules[r].accept # "off")
  <2>1. /\ AcceptLoops' \ {r} = AcceptLoops \ {r}
        /\ (r \in AcceptLoops' <=> rules'[r].accept # "off")
        /\ (r \in AcceptLoops <=> rules[r].accept # "off")
    BY DEF AcceptLoops
  <2> QED
    BY <2>1, LoopsFinite, SizeChange DEF One
<1>3. /\ Cardinality(Timers) \in Nat /\ Cardinality(Timers') \in Nat
      /\ Cardinality(Timers') =
           Cardinality(Timers) + One(rules'[r].timer # "off") - One(rules[r].timer # "off")
  <2>1. /\ Timers' \ {r} = Timers \ {r}
        /\ (r \in Timers' <=> rules'[r].timer # "off") /\ (r \in Timers <=> rules[r].timer # "off")
    BY DEF Timers
  <2> QED
    BY <2>1, LoopsFinite, SizeChange DEF One
<1>4. Cardinality(ConnLoops) \in Nat
  BY LoopsFinite, FS_CardinalityType
<1>5. Cardinality(ConnLoops') = Cardinality(ConnLoops)
  OBVIOUS
<1>6. wg' = Cardinality(RuleLoops') + Cardinality(AcceptLoops') + Cardinality(Timers')
            + Cardinality(ConnLoops')
  BY <1>1, <1>2, <1>3, <1>4, <1>5 DEF Counted, One
<1> QED
  BY <1>6 DEF Counted

\* A step of one connection counts right if the counter follows its loop.
LEMMA CountConn ==
  ASSUME Counted, NEW c \in Conns, ConnLoops' \ {c} = ConnLoops \ {c}, wg \in Int,
         RuleLoops' = RuleLoops, AcceptLoops' = AcceptLoops, Timers' = Timers,
         wg' = wg + One(c \in ConnLoops') - One(c \in ConnLoops)
  PROVE  Counted'
<1>1. /\ Cardinality(ConnLoops) \in Nat /\ Cardinality(ConnLoops') \in Nat
      /\ Cardinality(ConnLoops') = Cardinality(ConnLoops) + One(c \in ConnLoops') - One(c \in ConnLoops)
  BY LoopsFinite, SizeChange
<1>2. /\ Cardinality(RuleLoops) \in Nat /\ Cardinality(AcceptLoops) \in Nat
      /\ Cardinality(Timers) \in Nat
  BY LoopsFinite, FS_CardinalityType
<1>3. /\ Cardinality(RuleLoops') = Cardinality(RuleLoops)
      /\ Cardinality(AcceptLoops') = Cardinality(AcceptLoops)
      /\ Cardinality(Timers') = Cardinality(Timers)
  OBVIOUS
<1>4. wg' = Cardinality(RuleLoops') + Cardinality(AcceptLoops') + Cardinality(Timers')
            + Cardinality(ConnLoops')
  BY <1>1, <1>2, <1>3 DEF Counted, One
<1> QED
  BY <1>4 DEF Counted

\* Dropping connections ends none of their loops; that is for the loops to do.
LEMMA DropKeepsLoops == ASSUME Shape, NEW S, DropConns(S) PROVE ConnLoops' = ConnLoops
<1>1. NoConn.pc = "none"
  BY DEF NoConn
<1>2. \A c \in Conns : conns'[c].pc \in {"dial", "read"} <=> conns[c].pc \in {"dial", "read"}
  BY <1>1, DropEffect
<1> QED
  BY <1>2 DEF ConnLoops

\* The counter follows every step.
LEMMA CountNext == Inv /\ Counted /\ [Next]_vars => Counted'
<1> SUFFICES ASSUME Shape, RuleInv, ConnInv, Counted, [Next]_vars PROVE Counted'
  BY DEF Inv
<1>0. /\ \A r \in Rules : rules[r] \in RuleRec /\ \A c \in Conns : conns[c] \in ConnRec
      /\ NoRule.pc = "done" /\ NoRule.accept = "off" /\ NoRule.timer = "off"
      /\ NoConn.pc = "none" /\ wg \in Int
  BY DEF Shape, NoRule, NoConn
<1>1. ASSUME UNCHANGED <<wg, rules>>, ConnLoops' = ConnLoops PROVE Counted'
  BY <1>1 DEF Counted, RuleLoops, AcceptLoops, Timers
<1>2. ASSUME UNCHANGED rules
      PROVE  RuleLoops' = RuleLoops /\ AcceptLoops' = AcceptLoops /\ Timers' = Timers
  BY <1>2 DEF RuleLoops, AcceptLoops, Timers
<1>3. ASSUME UNCHANGED conns PROVE ConnLoops' = ConnLoops
  BY <1>3 DEF ConnLoops
<1>4. ASSUME NEW k \in Kinds, NEW ch \in Channels, NEW x \in Contexts, NEW r \in Rules,
             StartRule(k, ch, x, r)
      PROVE  Counted'
  <2> DEFINE rec == [NoRule EXCEPT !.kind = k, !.ch = ch, !.ctx = x, !.pc = "open", !.closed = FALSE]
  <2>1. rec.pc = "open" /\ rec.accept = "off" /\ rec.timer = "off"
    BY DEF NoRule
  <2>2. /\ rules'[r] = rec /\ rules[r] = NoRule /\ UNCHANGED conns /\ wg' = wg + 1
        /\ \A q \in Rules \ {r} : rules'[q] = rules[q]
    BY <1>4 DEF StartRule, FreeRule, Shape
  <2> HIDE DEF rec
  <2> QED
    BY <1>0, <1>3, <2>1, <2>2, CountRule DEF One
<1>5. ASSUME NEW ch \in Channels, NEW x \in Contexts, NEW c \in Conns, HandleActiveSlave(ch, x, c)
      PROVE  Counted'
  <2>1. [NoConn EXCEPT !.key = <<"fport", ch, x>>, !.pc = "dial"].pc = "dial"
    BY DEF NoConn
  <2>2. /\ conns'[c] = [NoConn EXCEPT !.key = <<"fport", ch, x>>, !.pc = "dial"]
        /\ conns[c] = NoConn /\ \A e \in Conns \ {c} : conns'[e] = conns[e]
        /\ UNCHANGED rules /\ wg' = wg + 1
    BY <1>5 DEF HandleActiveSlave, FreeConn, Shape
  <2>3. ConnLoops' \ {c} = ConnLoops \ {c} /\ c \in ConnLoops' /\ c \notin ConnLoops
    BY <1>0, <2>1, <2>2 DEF ConnLoops
  <2> QED
    BY <1>0, <1>2, <2>2, <2>3, CountConn DEF One
<1>6. CASE DialSucceeds
  <2>1. /\ main.conn \in Conns /\ conns[main.conn].pc = "dial"
        /\ conns'[main.conn] = [conns[main.conn] EXCEPT !.sock = TRUE, !.pc = "read"]
        /\ \A e \in Conns \ {main.conn} : conns'[e] = conns[e]
    BY <1>6 DEF DialSucceeds, ConnInv, DialKnown, Shape
  <2>2. conns'[main.conn].pc = "read"
    BY <1>0, <2>1 DEF ConnRec
  <2>3. ConnLoops' = ConnLoops
    BY <2>1, <2>2 DEF ConnLoops
  <2> QED
    BY <1>1, <1>6, <2>3 DEF DialSucceeds
<1>7. ASSUME NEW c \in Conns, conns[c].pc \in {"dial", "read"}, wg' = wg - 1, UNCHANGED rules,
             conns' = [conns EXCEPT ![c] = NoConn]
      PROVE  Counted'
  <2>1. ConnLoops' \ {c} = ConnLoops \ {c} /\ c \notin ConnLoops' /\ c \in ConnLoops
    BY <1>0, <1>7 DEF ConnLoops, Shape
  <2> QED
    BY <1>0, <1>2, <1>7, <2>1, CountConn DEF One
<1>8. CASE DialFails
  BY <1>7, <1>8 DEF DialFails, ConnInv, DialKnown
<1>9. ASSUME NEW c \in Conns, ReadLoopEnds(c) PROVE Counted'
  BY <1>7, <1>9 DEF ReadLoopEnds
<1>10. ASSUME NEW ch \in Channels, NEW x \in Contexts, HandleReverseActiveMaster(ch, x) PROVE Counted'
  <2> DEFINE c == contexts[<<"rport", ch, x>>]
  <2>1. c \in Conns
    BY <1>10 DEF HandleReverseActiveMaster, Shape, Keys, Kinds
  <2>2. /\ conns[c].pc = "idle" /\ conns'[c] = [conns[c] EXCEPT !.pc = "read"]
        /\ \A e \in Conns \ {c} : conns'[e] = conns[e] /\ UNCHANGED rules /\ wg' = wg + 1
    BY <1>10, <2>1 DEF HandleReverseActiveMaster, Shape
  <2>3. conns'[c].pc = "read"
    BY <1>0, <2>1, <2>2 DEF ConnRec
  <2>4. UNCHANGED rules /\ wg' = wg + 1
    BY <1>10 DEF HandleReverseActiveMaster
  <2> HIDE DEF c
  <2>5. ConnLoops' \ {c} = ConnLoops \ {c} /\ c \in ConnLoops' /\ c \notin ConnLoops
    BY <2>1, <2>2, <2>3 DEF ConnLoops
  <2> QED
    BY <1>0, <1>2, <2>1, <2>4, <2>5, CountConn DEF One
<1>11. ASSUME \/ CloseAll
              \/ \E ch \in Channels :
                   CloseChannel(ch) \/ \E x \in Contexts : HandleDataFails(ch, x) \/ HandleFreeContext(ch, x)
       PROVE  Counted'
  <2>1. (\E S : DropConns(S)) /\ UNCHANGED <<wg, rules>>
    BY <1>11 DEF CloseAll, CloseChannel, HandleDataFails, HandleFreeContext
  <2> QED
    BY <1>1, <2>1, DropKeepsLoops
<1>12. ASSUME NEW ch \in Channels, NEW ok \in BOOLEAN, HandleReverseCheckResult(ch, ok) PROVE Counted'
  <2> DEFINE r == bindings[<<"rport", ch>>]
  <2>1. ConnLoops' = ConnLoops /\ wg' = wg
    BY <1>3, <1>12, DropKeepsLoops DEF HandleReverseCheckResult, RemoveRule
  <2>2. r \in Rules
    BY <1>12 DEF HandleReverseCheckResult, Shape, Kinds
  <2>3. rules'[r] = [rules[r] EXCEPT !.resolved = TRUE]
    BY <1>12, <2>2 DEF HandleReverseCheckResult, Shape
  <2>5. \A q \in Rules \ {r} : rules'[q] = rules[q]
    BY <1>12, <2>2 DEF HandleReverseCheckResult, Shape
  <2>4. /\ rules'[r].pc = rules[r].pc /\ rules'[r].accept = rules[r].accept
        /\ rules'[r].timer = rules[r].timer
    BY <1>0, <2>2, <2>3 DEF RuleRec
  <2> HIDE DEF r
  <2> QED
    BY <1>0, <2>1, <2>2, <2>4, <2>5, CountRule DEF One
<1>13. ASSUME Cancel \/ CloseWaits \/ CloseReturns \/ UNCHANGED vars PROVE Counted'
  BY <1>1, <1>3, <1>13 DEF Cancel, CloseWaits, CloseReturns, vars
<1>14. ASSUME NEW rec PROVE /\ Retire(rec).pc # "done" <=> rec.pc # "done"
                            /\ Retire(rec).accept # "off" <=> rec.accept # "off"
                            /\ Retire(rec).timer # "off" <=> rec.timer # "off"
  BY <1>0 DEF Retire
<1>15. ASSUME NEW r \in Rules, CloseTaken(r) PROVE Counted'
  <2>1. /\ CloseRule(r).pc = rules[r].pc /\ CloseRule(r).accept = rules[r].accept
        /\ CloseRule(r).timer = rules[r].timer
    BY <1>0 DEF CloseRule, RuleRec
  <2>2. /\ rules'[r] = Retire(CloseRule(r)) /\ \A q \in Rules \ {r} : rules'[q] = rules[q]
        /\ UNCHANGED <<conns, wg>>
    BY <1>15 DEF CloseTaken, Set, Shape
  <2> QED
    BY <1>0, <1>3, <1>14, <2>1, <2>2, CountRule DEF One
<1>16. ASSUME NEW r \in Rules, OpenTarget(r) \/ OpenTargetFails(r) \/ WatchdogCloses(r) \/ ReadEnds(r)
       PROVE  Counted'
  <2>1. /\ rules[r].pc \in {"open", "read"} /\ UNCHANGED <<conns, wg>>
        /\ \A q \in Rules \ {r} : rules'[q] = rules[q]
    BY <1>16 DEF OpenTarget, OpenTargetFails, WatchdogCloses, ReadEnds, Shape
  <2>2. /\ rules'[r].accept = rules[r].accept /\ rules'[r].timer = rules[r].timer
        /\ rules'[r].pc # "done"
    <3>1. rules[r] \in RuleRec /\ r \in DOMAIN rules
      BY DEF Shape
    <3>2. CASE OpenTarget(r)
      BY <3>1, <3>2 DEF OpenTarget, RuleRec
    <3>3. CASE OpenTargetFails(r)
      BY <3>1, <3>3 DEF OpenTargetFails, RuleRec
    <3>4. CASE WatchdogCloses(r)
      BY <3>1, <3>4 DEF WatchdogCloses, RuleRec
    <3>5. CASE ReadEnds(r)
      BY <3>1, <3>5 DEF ReadEnds, RuleRec
    <3> QED
      BY <1>16, <3>2, <3>3, <3>4, <3>5
  <2> QED
    BY <1>0, <1>3, <2>1, <2>2, CountRule DEF One
<1>17. ASSUME NEW r \in Rules, FinishSetup(r) PROVE Counted'
  <2>1. /\ rules[r].pc = "finish" /\ rules[r].accept = "off" /\ rules[r].timer = "off"
        /\ UNCHANGED conns /\ \A q \in Rules \ {r} : rules'[q] = rules[q]
    BY <1>17 DEF FinishSetup, Shape, RuleInv, SetupAlone
  <2>2. \/ /\ wg' = wg /\ rules'[r].pc = "serve" /\ rules'[r].accept = "off" /\ rules'[r].timer = "off"
        \/ /\ wg' = wg + 2 /\ rules'[r].pc = "serve"
           /\ rules'[r].accept = "wait" /\ rules'[r].timer = "armed"
    <3>1. \/ wg' = wg /\ rules'[r] = [rules[r] EXCEPT !.pc = "serve"]
          \/ wg' = wg /\ rules'[r] = [rules[r] EXCEPT !.pc = "serve", !.ready = TRUE]
          \/ wg' = wg + 2 /\ rules'[r] = [rules[r] EXCEPT !.pc = "serve", !.ready = TRUE,
                                           !.accept = "wait", !.timer = "armed"]
      BY <1>17 DEF FinishSetup, Shape
    <3> QED
      BY <1>0, <2>1, <3>1 DEF RuleRec
  <2> QED
    BY <1>0, <1>3, <2>1, <2>2, CountRule DEF One
<1>18. ASSUME NEW r \in Rules, FailSetup(r) PROVE Counted'
  <2>1. rules[r].pc = "fail" /\ wg' = wg /\ \A q \in Rules \ {r} : rules'[q] = rules[q]
    BY <1>18 DEF FailSetup, Shape
  <2>2. /\ rules'[r].pc = "serve" /\ rules'[r].accept = rules[r].accept
        /\ rules'[r].timer = rules[r].timer
    <3>1. rules'[r] = [CloseRule(r) EXCEPT !.pc = "serve"]
      BY <1>18 DEF FailSetup, Shape
    <3> QED
      BY <1>0, <3>1 DEF CloseRule, RuleRec
  <2>3. ConnLoops' = ConnLoops
    BY <1>18, DropKeepsLoops DEF FailSetup, RemoveRule
  <2> QED
    BY <1>0, <2>1, <2>2, <2>3, CountRule DEF One
<1>19. ASSUME NEW r \in Rules, Cleanup(r) PROVE Counted'
  <2> DEFINE rec == [rules[r] EXCEPT !.pc = "done"]
  <2>1. rec.pc = "done" /\ rec.accept = rules[r].accept /\ rec.timer = rules[r].timer
    BY <1>0 DEF RuleRec
  <2>2. /\ rules[r].pc = "serve" /\ rules'[r] = Retire(rec) /\ wg' = wg - 1 /\ UNCHANGED conns
        /\ \A q \in Rules \ {r} : rules'[q] = rules[q]
    BY <1>19 DEF Cleanup, Set, Shape
  <2> HIDE DEF rec
  <2> QED
    BY <1>0, <1>3, <1>14, <2>1, <2>2, CountRule DEF One
<1>20. ASSUME NEW r \in Rules, TimerEnds(r) PROVE Counted'
  <2> DEFINE rec == [rules[r] EXCEPT !.timer = "off"]
  <2>1. rec.pc = rules[r].pc /\ rec.accept = rules[r].accept /\ rec.timer = "off"
    BY <1>0 DEF RuleRec
  <2>2. /\ rules[r].timer = "armed" /\ rules'[r] = Retire(rec) /\ wg' = wg - 1 /\ UNCHANGED conns
        /\ \A q \in Rules \ {r} : rules'[q] = rules[q]
    BY <1>20 DEF TimerEnds, Set, Shape
  <2> HIDE DEF rec
  <2> QED
    BY <1>0, <1>3, <1>14, <2>1, <2>2, CountRule DEF One
<1>21. ASSUME NEW r \in Rules, TimerFires(r) PROVE Counted'
  <2>1. /\ rules[r].timer = "armed"
        /\ UNCHANGED <<conns, wg>> /\ \A q \in Rules \ {r} : rules'[q] = rules[q]
    BY <1>21 DEF TimerFires, Shape
  <2>2. rules'[r].pc = rules[r].pc /\ rules'[r].accept = rules[r].accept /\ rules'[r].timer = "fail"
    <3>1. rules'[r] = [rules[r] EXCEPT !.timer = "fail"]
      BY <1>21 DEF TimerFires, Shape
    <3> QED
      BY <1>0, <3>1 DEF RuleRec
  <2> QED
    BY <1>0, <1>3, <2>1, <2>2, CountRule DEF One
<1>22. ASSUME NEW r \in Rules, TimerFails(r) PROVE Counted'
  <2> DEFINE rec == [CloseRule(r) EXCEPT !.timer = "off"]
  <2>1. rec.pc = rules[r].pc /\ rec.accept = rules[r].accept /\ rec.timer = "off"
    BY <1>0 DEF CloseRule, RuleRec
  <2>2. /\ rules[r].timer = "fail" /\ rules'[r] = Retire(rec) /\ wg' = wg - 1
        /\ \A q \in Rules \ {r} : rules'[q] = rules[q]
    BY <1>22 DEF TimerFails, Set, Shape
  <2>3. ConnLoops' = ConnLoops
    BY <1>22, DropKeepsLoops DEF TimerFails, RemoveRule
  <2> HIDE DEF rec
  <2> QED
    BY <1>0, <1>14, <2>1, <2>2, <2>3, CountRule DEF One
<1>23. ASSUME NEW r \in Rules, NEW c \in Conns, Accept(r, c) PROVE Counted'
  <2>1. /\ rules[r].accept = "wait" /\ wg' = wg
        /\ \A q \in Rules \ {r} : rules'[q] = rules[q]
    BY <1>23 DEF Accept, Shape
  <2>2. rules'[r].pc = rules[r].pc /\ rules'[r].accept = c /\ rules'[r].timer = rules[r].timer
    <3>1. rules'[r] = [rules[r] EXCEPT !.accept = c]
      BY <1>23 DEF Accept, Shape
    <3> QED
      BY <1>0, <3>1 DEF RuleRec
  <2>3. /\ conns[c] = NoConn /\ conns'[c] = [NoConn EXCEPT !.sock = TRUE, !.pc = "accepted"]
        /\ \A e \in Conns \ {c} : conns'[e] = conns[e]
    BY <1>23 DEF Accept, FreeConn, Shape
  <2>4. ConnLoops' = ConnLoops
    <3>1. conns'[c].pc = "accepted"
      BY <2>3 DEF NoConn
    <3> QED
      BY <1>0, <2>3, <3>1 DEF ConnLoops
  <2>5. c # "off"
    BY ForwardAssumption
  <2> QED
    BY <1>0, <2>1, <2>2, <2>4, <2>5, CountRule DEF One
<1>24. ASSUME NEW r \in Rules, AcceptFails(r) PROVE Counted'
  <2> DEFINE rec == [rules[r] EXCEPT !.accept = "off"]
  <2>1. rec.pc = rules[r].pc /\ rec.accept = "off" /\ rec.timer = rules[r].timer
    BY <1>0 DEF RuleRec
  <2>2. /\ rules[r].accept = "wait" /\ rules'[r] = Retire(rec) /\ wg' = wg - 1 /\ UNCHANGED conns
        /\ \A q \in Rules \ {r} : rules'[q] = rules[q]
    BY <1>24 DEF AcceptFails, Set, Shape
  <2> HIDE DEF rec
  <2> QED
    BY <1>0, <1>3, <1>14, <2>1, <2>2, CountRule DEF One
<1>25. ASSUME NEW r \in Rules, NEW x \in Contexts, RegisterConn(r, x) \/ RegisterCollides(r, x)
       PROVE  Counted'
  <2> DEFINE c == rules[r].accept
  <2>1. c \in Conns /\ conns[c].pc = "accepted" /\ c # "off"
    BY <1>25, ForwardAssumption DEF RegisterConn, RegisterCollides, ConnInv, AcceptOwns
  <2>2. wg' = wg /\ \A q \in Rules \ {r} : rules'[q] = rules[q]
    BY <1>25 DEF RegisterConn, RegisterCollides, Shape
  <2>3. rules'[r].pc = rules[r].pc /\ rules'[r].accept = "wait" /\ rules'[r].timer = rules[r].timer
    <3>1. rules'[r] = [rules[r] EXCEPT !.accept = "wait"]
      BY <1>25 DEF RegisterConn, RegisterCollides, Shape
    <3> QED
      BY <1>0, <3>1 DEF RuleRec
  <2>4. /\ \A e \in Conns \ {c} : conns'[e] = conns[e]
        /\ \/ conns'[c] = NoConn
           \/ conns'[c] = [conns[c] EXCEPT !.key = <<"rport", rules[r].ch, x>>, !.pc = "idle"]
    BY <1>25, <2>1 DEF RegisterConn, RegisterCollides, Shape
  <2>5. ConnLoops' = ConnLoops
    <3>1. conns'[c].pc \in {"none", "idle"}
      BY <1>0, <2>1, <2>4 DEF ConnRec
    <3> QED
      BY <2>1, <2>4, <3>1 DEF ConnLoops
  <2> QED
    BY <1>0, <2>1, <2>2, <2>3, <2>5, CountRule DEF One
<1>26. ASSUME NEW r \in Rules, RegisterFails(r) PROVE Counted'
  <2> DEFINE c == rules[r].accept
             rec == [rules[r] EXCEPT !.accept = "off"]
  <2>1. c \in Conns /\ conns[c].pc = "accepted" /\ c # "off"
    BY <1>26, ForwardAssumption DEF RegisterFails, ConnInv, AcceptOwns
  <2>2. rec.pc = rules[r].pc /\ rec.accept = "off" /\ rec.timer = rules[r].timer
    BY <1>0 DEF RuleRec
  <2>3. /\ rules'[r] = Retire(rec) /\ wg' = wg - 1 /\ \A q \in Rules \ {r} : rules'[q] = rules[q]
        /\ conns' = [conns EXCEPT ![c] = NoConn]
    BY <1>26 DEF RegisterFails, Set, Shape
  <2>4. ConnLoops' = ConnLoops
    BY <1>0, <2>1, <2>3 DEF ConnLoops, Shape
  <2> HIDE DEF rec
  <2> QED
    BY <1>0, <1>14, <2>1, <2>2, <2>3, <2>4, CountRule DEF One
<1> QED
  BY <1>4, <1>5, <1>6, <1>8, <1>9, <1>10, <1>11, <1>12, <1>13, <1>15, <1>16, <1>17, <1>18, <1>19,
     <1>20, <1>21, <1>22, <1>23, <1>24, <1>25, <1>26
  DEF Next, Frame, MainGoesOn, RuleGoesOn, TimerGoesOn, AcceptGoesOn, HandleCheck, HandleReverseInit,
      Kinds

\* Nothing runs at first.
LEMMA InitCounted == Init => Counted
<1> SUFFICES ASSUME Init PROVE Counted
  OBVIOUS
<1>1. RuleLoops = {} /\ AcceptLoops = {} /\ Timers = {} /\ ConnLoops = {}
  BY DEF Init, RuleLoops, AcceptLoops, Timers, ConnLoops, NoRule, NoConn
<1>2. Cardinality({}) = 0
  BY FS_EmptySet
<1> QED
  BY <1>1, <1>2 DEF Counted, Init

\* The counter is right for ever.
LEMMA CountInvariance == Spec => [](Inv /\ Counted)
<1>1. Init => Inv /\ Counted
  BY InitInv, InitCounted
<1>2. (Inv /\ Counted) /\ [Next]_vars => (Inv /\ Counted)'
  BY NextInv, CountNext
<1> QED
  BY <1>1, <1>2, PTL DEF Spec

-----------------------------------------------------------------------------
(* The theorems *)

\* The state of the forward family is well-formed; in particular closeWg never
\* becomes negative, which would make WaitGroup panic.
THEOREM ForwardTypes == Spec => []TypeOK
<1>1. Inv /\ Counted => TypeOK
  <2> SUFFICES ASSUME Inv, Counted PROVE TypeOK
    OBVIOUS
  <2>1. wg \in Nat
    BY LoopsFinite, FS_CardinalityType DEF Counted
  <2> QED
    BY <2>1 DEF Inv, Shape, TypeOK, Keys
<1> QED
  BY <1>1, CountInvariance, PTL

\* Whoever closes a rule has taken it, and no other one, out of the map before.
THEOREM ForwardCurrentRuleLives == Spec => []CurrentRuleLives
<1>1. Inv => CurrentRuleLives
  BY DEF Inv, RuleInv
<1> QED
  BY <1>1, Invariance, PTL

\* No rule is lost to whoever has to end it.
THEOREM ForwardNoRuleLost == Spec => []NoRuleLost
<1>1. Inv => NoRuleLost
  BY DEF Inv, RuleInv, RuleFound, TimerRuns, NoRuleLost
<1> QED
  BY <1>1, Invariance, PTL

\* No open socket is lost.
THEOREM ForwardNoSocketLost == Spec => []NoSocketLost
<1>1. Inv => NoSocketLost
  <2> SUFFICES ASSUME Inv, NEW c \in Conns, conns[c].sock, conns[c].pc # "accepted"
               PROVE  contexts[conns[c].key] = c
    BY DEF NoSocketLost
  <2>1. conns[c].pc # "none" /\ ~conns[c].dead
    BY DEF Inv, ConnInv, ConnForm, NoConn
  <2>2. conns[c].pc \in {"dial", "idle", "read"}
    BY <2>1 DEF Inv, Shape, ConnRec
  <2> QED
    BY <2>1, <2>2 DEF Inv, ConnInv, ConnFound
<1> QED
  BY <1>1, Invariance, PTL

\* Close waits for exactly the goroutines that are left, and each of them has its
\* rule or its socket closed.
THEOREM ForwardCloseWaits == Spec => []CloseWaitsExactly
<1>1. Inv /\ Counted => CloseWaitsExactly
  <2> SUFFICES ASSUME Inv, Counted PROVE CloseWaitsExactly
    OBVIOUS
  <2>1. ASSUME main.pc \in {"wait", "closed"}, NEW r \in Rules PROVE rules[r].closed
    <3>1. main.todo = {} /\ \A k \in Kinds, ch \in Channels : bindings[<<k, ch>>] = None
      BY <2>1 DEF Inv, RuleInv, TodoWhen, EmptyAfterClose
    <3>2. rules[r] = NoRule => rules[r].closed
      BY DEF NoRule
    <3> QED
      BY <3>1, <3>2, ForwardAssumption DEF Inv, RuleInv, RuleKnown, RuleFound
  <2>2. ASSUME main.pc \in {"wait", "closed"}, NEW c \in Conns, conns[c] # NoConn
        PROVE  conns[c].dead \/ conns[c].pc = "accepted"
    <3>1. \A key \in Keys : contexts[key] = None
      BY <2>2 DEF Inv, EmptyAfterClose
    <3>2. conns[c].pc \in {"dial", "accepted", "idle", "read"}
      BY <2>2 DEF Inv, Shape, ConnRec, ConnInv, ConnForm
    <3> QED
      BY <3>1, <3>2, ForwardAssumption DEF Inv, ConnInv, ConnFound
  <2> QED
    BY <2>1, <2>2 DEF CloseWaitsExactly, Counted, RuleLoops, AcceptLoops, Timers, ConnLoops
<1> QED
  BY <1>1, CountInvariance, PTL
=============================================================================
