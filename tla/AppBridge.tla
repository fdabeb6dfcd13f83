----------------------------- MODULE AppBridge -----------------------------
(***************************************************************************)
(* The app family of one connection (internal/bridge/app.go) over the      *)
(* temporary store.  A session is the state of a channel: it receives a    *)
(* package or runs one command, install or uninstall, on the device.  A    *)
(* command is a goroutine (runTargetCommand) that opens a target, attaches *)
(* it to the session, reads it to its end and reports the result.          *)
(*                                                                         *)
(* The main loop of the connection handles one frame at a time.  A frame   *)
(* that is malformed or out of order resets the session (protocolFailure), *)
(* also while a command of its is under way.  What the device prints, and  *)
(* the text of the results, is left out; a write to the peer ends.         *)
(***************************************************************************)
EXTENDS TempStore

CONSTANTS
  Channels,     \* channel IDs the peer uses
  Sessions,     \* pool of sessions
  Commands,     \* pool of commands and their targets
  MaxAppBytes,  \* AppBridge.maxAppBytes
  None

ASSUME AppBridgeAssumption ==
  MaxAppBytes \in Nat \ {0} /\ None \notin Channels \cup Sessions \cup Commands \cup Transfers

VARIABLES
  sessions,  \* the bridge's map: the session of a channel, or None
  sess,      \* the sessions
  cmds,      \* the commands
  main       \* the main loop: "idle", then "cancel", "wait" and "closed"

store == <<used, alloc>>
vars  == <<store, sessions, sess, cmds, main>>

\* running is commandRunning; target is the command whose target is attached;
\* transfer is the allocation that is being filled, got and want its sizes.
\* strayed is a history variable: the session was reset while a command of its
\* had not attached its target.
SessRec == [closed: BOOLEAN, running: BOOLEAN, target: Commands \cup {None},
            transfer: Transfers \cup {None}, got: 0..MaxAppBytes, want: 0..MaxAppBytes,
            strayed: BOOLEAN]
NoSess  == [closed |-> FALSE, running |-> FALSE, target |-> None, transfer |-> None,
            got |-> 0, want |-> 0, strayed |-> FALSE]

\* cleanup is the package the command installs, released when it is done.
CmdRec == [sess: Sessions \cup {None}, cleanup: Transfers \cup {None},
           pc: {"none", "open", "attach", "read", "finish", "done"},
           target: {"none", "open", "closed"}]
NoCmd  == [sess |-> None, cleanup |-> None, pc |-> "none", target |-> "none"]

Init ==
  /\ used = 0 /\ alloc = [t \in Transfers |-> NoAlloc]
  /\ sessions = [ch \in Channels |-> None]
  /\ sess = [s \in Sessions |-> NoSess]
  /\ cmds = [k \in Commands |-> NoCmd]
  /\ main = "idle"

Registered(s) == \E ch \in Channels : sessions[ch] = s
FreeSess(s) == ~Registered(s) /\ \A k \in Commands : cmds[k].sess # s
FreeAlloc(t) == alloc[t].st = "none"
Alive(k) == cmds[k].pc \notin {"none", "done"}
Opening(s) == {k \in Commands : cmds[k].sess = s /\ cmds[k].pc \in {"open", "attach"}}

\* tempAllocation.close by its only owner: the quota goes back at once.
Release(t) == IF t = None THEN UNCHANGED store ELSE Unreserve(t)

\* Closing the target of a command, from outside its goroutine.
CloseTarget(cs, k) == IF k = None THEN cs ELSE [cs EXCEPT ![k].target = "closed"]

-----------------------------------------------------------------------------
(* The main loop.  It closes the bridge itself, so that no handler finds the *)
(* bridge closed.                                                            *)

\* get and getOrCreate: the session of the channel, or a new one.
SessionOf(ch, s) == IF sessions[ch] # None THEN s = sessions[ch] ELSE FreeSess(s)
Register(ch, s) == sessions' = [sessions EXCEPT ![ch] = s]
Current(ch, s) == IF sessions[ch] = None THEN NoSess ELSE sess[s]

\* ensureAvailableLocked.
Available(r) == ~r.closed /\ ~r.running /\ r.transfer = None

Launch(k, s, cleanup) ==
  /\ cmds[k] = NoCmd
  /\ cmds' = [cmds EXCEPT ![k] = [sess |-> s, cleanup |-> cleanup, pc |-> "open", target |-> "none"]]

\* startCommand: a session that is free runs a command without a package.
StartCommand(ch, s, k) ==
  /\ main = "idle" /\ SessionOf(ch, s) /\ Available(Current(ch, s))
  /\ Register(ch, s)
  /\ sess' = [sess EXCEPT ![s] = [Current(ch, s) EXCEPT !.running = TRUE]]
  /\ Launch(k, s, None)
  /\ UNCHANGED <<store, main>>

\* APP_INIT, answered by asking the device, and APP_UNINSTALL.
InstallInit(ch, s, k) == StartCommand(ch, s, k)
Uninstall(ch, s, k) == StartCommand(ch, s, k)

\* APP_CHECK: prepareInstall reserves the declared size.
PrepareInstall(ch, s, t, n) ==
  /\ main = "idle" /\ SessionOf(ch, s) /\ Available(Current(ch, s))
  /\ FreeAlloc(t) /\ Reserve(t, n)
  /\ Register(ch, s)
  /\ sess' = [sess EXCEPT ![s] = [Current(ch, s) EXCEPT !.transfer = t, !.got = 0, !.want = n]]
  /\ UNCHANGED <<cmds, main>>

\* A session that takes data.
Receiving(ch) ==
  sessions[ch] # None /\ ~sess[sessions[ch]].running /\ sess[sessions[ch]].transfer # None

\* APP_DATA at the expected offset, of one unit or none, that leaves some to come.
InstallData(ch, n) ==
  LET s == sessions[ch] IN
  /\ main = "idle" /\ Receiving(ch) /\ sess[s].got + n < sess[s].want
  /\ sess' = [sess EXCEPT ![s].got = @ + n]
  /\ UNCHANGED <<store, sessions, cmds, main>>

\* APP_DATA that completes the package: seal, rename, and install it.
InstallComplete(ch, n, k) ==
  LET s == sessions[ch] IN
  /\ main = "idle" /\ Receiving(ch) /\ sess[s].got + n = sess[s].want
  /\ Launch(k, s, sess[s].transfer)
  /\ sess' = [sess EXCEPT ![s] = [@ EXCEPT !.transfer = None, !.running = TRUE, !.got = 0, !.want = 0]]
  /\ UNCHANGED <<store, sessions, main>>

\* What protocolFailure and close do to a session, under its lock.
Reset(r) == [r EXCEPT !.target = None, !.transfer = None, !.running = FALSE, !.got = 0, !.want = 0]

\* Mutant: the received part of a package is left where it is.
ProtocolFailure_KeepsPackage(ch, s) ==
  LET r == Current(ch, s) IN
  /\ main = "idle" /\ SessionOf(ch, s)
  /\ Register(ch, s)
  /\ sess' = [sess EXCEPT ![s] = [Reset(r) EXCEPT !.strayed = @ \/ Opening(s) # {}]]
  /\ cmds' = CloseTarget(cmds, r.target)
  /\ UNCHANGED <<store, main>>

\* A frame that is malformed, refused, out of order or over the quota, or a file
\* that cannot be written: the session starts again, the failure is answered.
\* A frame with data does not create a session, which makes no difference.
ProtocolFailure(ch, s) ==
  LET r == Current(ch, s) IN
  /\ main = "idle" /\ SessionOf(ch, s)
  /\ Register(ch, s)
  /\ sess' = [sess EXCEPT ![s] = [Reset(r) EXCEPT !.strayed = @ \/ Opening(s) # {}]]
  /\ cmds' = CloseTarget(cmds, r.target)
  /\ Release(r.transfer)
  /\ UNCHANGED main

\* CloseChannel: the session is taken out of the map and closed.
CloseChannel(ch) ==
  LET s == sessions[ch] IN
  /\ main = "idle" /\ s # None
  /\ sessions' = [sessions EXCEPT ![ch] = None]
  /\ sess' = [sess EXCEPT ![s] = [Reset(@) EXCEPT !.closed = TRUE]]
  /\ cmds' = CloseTarget(cmds, sess[s].target)
  /\ Release(sess[s].transfer)
  /\ UNCHANGED main

\* The connection ends: its context is cancelled ...
Cancel == main = "idle" /\ main' = "cancel" /\ UNCHANGED <<store, sessions, sess, cmds>>

\* ... Close takes the sessions out of the map and closes them, one by one ...
CloseSession(ch) ==
  LET s == sessions[ch] IN
  /\ main = "cancel" /\ s # None
  /\ sessions' = [sessions EXCEPT ![ch] = None]
  /\ sess' = [sess EXCEPT ![s] = [Reset(@) EXCEPT !.closed = TRUE]]
  /\ cmds' = CloseTarget(cmds, sess[s].target)
  /\ Release(sess[s].transfer)
  /\ UNCHANGED main

CloseWaits ==
  /\ main = "cancel" /\ \A ch \in Channels : sessions[ch] = None
  /\ main' = "wait"
  /\ UNCHANGED <<store, sessions, sess, cmds>>

\* Mutant: Close does not wait for the goroutines.
CloseReturns_AtOnce == main = "wait" /\ main' = "closed" /\ UNCHANGED <<store, sessions, sess, cmds>>

\* ... and waits for the commands.
CloseReturns ==
  /\ main = "wait" /\ \A k \in Commands : ~Alive(k)
  /\ main' = "closed"
  /\ UNCHANGED <<store, sessions, sess, cmds>>

-----------------------------------------------------------------------------
(* runTargetCommand *)

\* The goroutine returns; a target nobody has closed stays open.
Ended(k) == IF cmds[k].target = "open" THEN [NoCmd EXCEPT !.sess = cmds[k].sess, !.pc = "done", !.target = "open"]
            ELSE NoCmd

OpenTarget(k) ==
  /\ cmds[k].pc = "open"
  /\ cmds' = [cmds EXCEPT ![k] = [@ EXCEPT !.pc = "attach", !.target = "open"]]
  /\ UNCHANGED <<store, sessions, sess, main>>

\* OpenTarget fails: finishTarget without a target, whatever the session is doing.
OpenTargetFails(k) ==
  LET s == cmds[k].sess IN
  /\ cmds[k].pc = "open"
  /\ sess' = IF sess[s].closed THEN sess
             ELSE [sess EXCEPT ![s] = [@ EXCEPT !.target = None, !.running = FALSE]]
  /\ cmds' = [cmds EXCEPT ![k] = NoCmd]
  /\ Release(cmds[k].cleanup)
  /\ UNCHANGED <<sessions, main>>

\* attachTarget; a session that was closed or reset meanwhile has it closed.
AttachTarget(k) ==
  LET s == cmds[k].sess IN
  /\ cmds[k].pc = "attach"
  /\ IF sess[s].closed \/ ~sess[s].running
     THEN /\ cmds' = [cmds EXCEPT ![k] = NoCmd]
          /\ Release(cmds[k].cleanup)
          /\ UNCHANGED sess
     ELSE /\ sess' = [sess EXCEPT ![s].target = k]
          /\ cmds' = [cmds EXCEPT ![k].pc = "read"]
          /\ UNCHANGED store
  /\ UNCHANGED <<sessions, main>>

\* Mutant: the watchdog waits for the connection's context.
WatchdogCloses_Cancelled(k) ==
  /\ cmds[k].pc = "read" /\ cmds[k].target = "open" /\ main # "idle"
  /\ cmds' = [cmds EXCEPT ![k].target = "closed"]
  /\ UNCHANGED <<store, sessions, sess, main>>

\* The context ends, by its timeout or with the connection: the watchdog closes
\* the target under the blocked read.
WatchdogCloses(k) ==
  /\ cmds[k].pc = "read" /\ cmds[k].target = "open"
  /\ cmds' = [cmds EXCEPT ![k].target = "closed"]
  /\ UNCHANGED <<store, sessions, sess, main>>

\* The read loop ends, by the device or because the target was closed.
ReadEnds(k) ==
  /\ cmds[k].pc = "read"
  /\ cmds' = [cmds EXCEPT ![k].pc = "finish"]
  /\ UNCHANGED <<store, sessions, sess, main>>

\* Mutant: any command that ends is taken for the session's.
FinishTarget_Any(k) ==
  LET s == cmds[k].sess IN
  /\ cmds[k].pc = "finish"
  /\ IF sess[s].closed
     THEN cmds' = [cmds EXCEPT ![k] = Ended(k)] /\ UNCHANGED sess
     ELSE /\ sess' = [sess EXCEPT ![s] = [@ EXCEPT !.target = None, !.running = FALSE]]
          /\ cmds' = [cmds EXCEPT ![k] = NoCmd]
  /\ Release(cmds[k].cleanup)
  /\ UNCHANGED <<sessions, main>>

\* finishTarget: the result is reported if the target is still the session's.
FinishTarget(k) ==
  LET s == cmds[k].sess IN
  /\ cmds[k].pc = "finish"
  /\ IF sess[s].closed \/ sess[s].target # k
     THEN cmds' = [cmds EXCEPT ![k] = Ended(k)] /\ UNCHANGED sess
     ELSE /\ sess' = [sess EXCEPT ![s] = [@ EXCEPT !.target = None, !.running = FALSE]]
          /\ cmds' = [cmds EXCEPT ![k] = NoCmd]
  /\ Release(cmds[k].cleanup)
  /\ UNCHANGED <<sessions, main>>

-----------------------------------------------------------------------------
CommandGoesOn(k) ==
  OpenTarget(k) \/ OpenTargetFails(k) \/ AttachTarget(k) \/ ReadEnds(k) \/ FinishTarget(k)

Closing == (\E ch \in Channels : CloseSession(ch)) \/ CloseWaits \/ CloseReturns

Next ==
  \/ \E ch \in Channels, s \in Sessions :
       \/ ProtocolFailure(ch, s)
       \/ \E k \in Commands : InstallInit(ch, s, k) \/ Uninstall(ch, s, k)
       \/ \E t \in Transfers, n \in 0..MaxAppBytes : PrepareInstall(ch, s, t, n)
  \/ \E ch \in Channels :
       \/ CloseChannel(ch)
       \/ \E n \in {0, 1} : InstallData(ch, n) \/ \E k \in Commands : InstallComplete(ch, n, k)
  \/ Cancel \/ Closing
  \/ \E k \in Commands : CommandGoesOn(k) \/ WatchdogCloses(k)

Spec == Init /\ [][Next]_vars

(***************************************************************************)
(* Goroutines that can run go on, OpenTarget ends, the timeout of a        *)
(* command passes, and reading a closed target fails.  The device may be   *)
(* silent for ever and the peer may send nothing.                          *)
(***************************************************************************)
Fairness ==
  /\ WF_vars(Closing)
  /\ \A k \in Commands : /\ WF_vars((cmds[k].pc = "read" => cmds[k].target = "closed") /\ CommandGoesOn(k))
                         /\ WF_vars(WatchdogCloses(k))

FairSpec == Spec /\ Fairness

-----------------------------------------------------------------------------
\* Types; a package never gets more bytes than it has declared.
TypeOK ==
  /\ used \in 0..MaxBytes /\ alloc \in [Transfers -> AllocRec]
  /\ sessions \in [Channels -> Sessions \cup {None}]
  /\ sess \in [Sessions -> SessRec] /\ cmds \in [Commands -> CmdRec]
  /\ \A s \in Sessions : sess[s].got <= sess[s].want
  /\ main \in {"idle", "cancel", "wait", "closed"}

\* A package on disk has exactly one owner who will remove it and return its
\* quota: the open session that receives it or the command that installs it,
\* however resets, closes and failing commands are interleaved.
PackageHasOwner ==
  \A t \in Transfers : alloc[t].st = "held" =>
    Cardinality({s \in Sessions : Registered(s) /\ sess[s].transfer = t}
                  \cup {k \in Commands : Alive(k) /\ cmds[k].cleanup = t}) = 1

\* A session knows the one command whose result it is going to report: while it
\* is running, exactly one is opening its target or has attached it; otherwise
\* none.  This needs that the session was not reset under a command that had not
\* attached its target: such a command takes part in what comes after the reset.
OneCommand ==
  \A s \in Sessions : Registered(s) /\ ~sess[s].strayed =>
    Cardinality(Opening(s) \cup ({sess[s].target} \ {None})) = (IF sess[s].running THEN 1 ELSE 0)

\* When the bridge has closed, no goroutine of its is left, its quota is back and
\* every target is closed, but the one that a strayed session may have lost.
CleanAfterClose ==
  main = "closed" =>
    /\ used = 0
    /\ \A k \in Commands : ~Alive(k) /\ (cmds[k].target = "open" => sess[cmds[k].sess].strayed)

\* A command on which the device falls silent ends all the same, and with it the
\* wait of Close: the watchdog closes the target under the blocked read.
CommandEnds == \A k \in Commands : Alive(k) ~> ~Alive(k)
=============================================================================
