# TLA+ models of hdc-remote-kit

hdc-remote-kit exposes the USB devices of one machine to remote `hdc` clients.
It polls the local HDC server for devices, gives every online USB device a
stable proxy port, and speaks the HDC daemon protocol on that port: handshake,
shell, file transfer, streams, app installation and port forwarding, each
bridged to a channel of the local HDC server. This directory models its state
machines in TLA+, checks them with TLC on small instances and proves the most
important invariants with TLAPS.

Contents: [Inventory](#inventory) · [Modules](#modules) · [Runs](#runs) ·
[Fairness](#fairness) · [Proofs](#proofs) ·
[Limits](#limits-of-the-properties) · [Not modelled](#not-modelled) · [Plan](#plan)

## Inventory

| Component | State | Operations | Hard behaviour | What makes it correct |
| --- | --- | --- | --- | --- |
| Remote access manager (`remote/manager.go`) | bindings, leases (two maps), devices with an operation in flight | Acquire and renewal, AutoExpose, reconcile, releaseLease, connection callbacks, Close | the lock is released around every call of gateway and store; expiry is judged on a copy; crash between any two steps | one lease per device; a device shown as connectable listens; no listener without a lease; a device keeps its port; online devices get exposed, offline ones lose their listener; Close ends |
| Gateway (`gateway/gateway.go`) | listeners with their grant, connections, sessions | Bind, UpdateGrant, Unbind, Close, admission, Kick | Bind opens a socket without the lock; handlers of a closed listener drain while a new one admits | nothing is open after Close; no socket outlives its listener; connections are not overcounted |
| Daemon connection (`gateway/gateway.go`, `handshake.go`) | handshake phase, channel slots, shell sessions, bridges | handshake rounds, routing, openShell, teardown, close | read loops of shells race with the main loop; the deadline is suspended while an operator decides | nothing before the handshake; slots within the limit; a channel's session is alive and its own; the peer is told of every end; a connection serves or is gone |
| Port pool (`remote/ports.go`) | available, reserved and blocked ports | reserve, allocate, release | the probe runs outside the lock | no port is lost or handed out twice; exhaustion is real |
| Binding store (`store/bindings.go`) | three files | Load, Save | a kill between two file operations | the last saved snapshot survives |
| Host authorisation (`hostauth`) | trusted hosts, pending requests, known_hosts.json | Submit, Decide, Revoke | decision against timer; the list is saved outside the lock | nobody passes without a decision; decisions that succeeded are durable |
| Audit sink (`audit/sink.go`) | queue, log file, its old generation | Record, the writing goroutine, rotation, Close | Record races with Close; every step of a rotation can fail | accepted events are written; the old generation is kept; the log is bounded; Close returns |
| Device registry (`device/registry.go`) | device snapshot, time of absence | refresh, markStale, readers | scans fail; snapshot is stale | absence is timed across failed scans; absent devices are evicted |
| File bridge and temporary store (`bridge/file.go`, `temp_store.go`, `util.go`) | uploads and downloads, one quota | frames of a transfer, CloseChannel, Close, the goroutines and watchdogs of a transfer | peer, device, timeout, size guard and Close end a transfer in any order | quota is returned exactly once; no transfer or target is orphaned; a blocked read has someone to free it; Close leaves nothing |
| Unity bridge (`bridge/unity.go`) | streams, one per channel | Handle, runStream, finishStream, CloseChannel, Close | a stream ends after its channel was given a new one; Close waits for goroutines blocked on the device | entries and targets are paired; Close ends |
| App bridge (`bridge/app.go`) | sessions, packages, commands | INIT, CHECK, DATA, UNINSTALL, protocolFailure, CloseChannel, Close | a reset or a close while a command opens its target; a package changes its owner | a package is removed exactly once; one command per session; commands end |
| Forward bridge (`bridge/forward.go`, `forward_reverse.go`) | fport and rport rules, connections, a wait group | CHECK, INIT, ACTIVE_SLAVE/MASTER, CHECK_RESULT, DATA, FREE_CONTEXT, CloseChannel, Close | four kinds of goroutines; rules replaced on a channel while the old one fails; random IDs | no socket and no rule gets out of reach; Close waits exactly |
| Command policy and shell guard (`policy/shell.go`, `gateway/gateway.go`) | the unfinished line of a channel | InspectShell, appendShellInput, removeShell, stopShell | lines cut into frames anywhere | a text is judged as its lines; no forbidden line gets through in pieces |
| Host HDC client, codec, crypto, console, configuration, logging | none, or read once | | | not modelled, see below |

Interaction. `main` starts the registry's polling loop and the manager's run
loop. Once per tick the manager releases leases that expired or whose device is
gone, settles the status of the other bindings and acquires every online device
(AutoExpose), which renews existing leases. It calls the gateway (Bind,
UpdateGrant, Unbind, Close) and the store (Save); the gateway calls back
(ConnectionOpened, ConnectionClosed). A connection handler blocks in the host
authorisation's Submit until the console calls Decide; it records into the audit
sink. The console also calls Revoke and Kick.

## Modules

| Module | Models | Kind |
| --- | --- | --- |
| `RemoteAccess` | manager and gateway listeners, connections and sessions, composed | specification |
| `RemoteAccessInv` | the inductive invariants of `RemoteAccess` | invariant |
| `RemoteAccessProofs` | | proofs |
| `PortPool` | `portPool` | specification |
| `BindingStore` | the file operations of Save and Load | specification |
| `SnapshotStore` | the atomic store that `BindingStore` implements | abstract specification |
| `HostAuth`, `HostAuthProofs` | Submit, Decide, Revoke and known_hosts.json | specification, proofs |
| `UnityBridge` | the streams of one connection, as operators | component |
| `DaemonConnection`, `DaemonConnectionProofs` | handshake, channels and shells of one connection, composed with `UnityBridge` | specification, proofs |
| `AuditSink` | Record, the writing goroutine, rotation, Close | specification |
| `DeviceRegistry` | refresh and markStale | specification |
| `ServiceProofs` | the services that all connections share: `BindingStore`, `PortPool`, `AuditSink`, `DeviceRegistry` | proofs |
| `TempStore` | the quota and its allocations, as operators | component |
| `FileBridge`, `FileBridgeProofs` | the file family of one connection, over `TempStore` | specification, proofs |
| `AppBridge`, `AppBridgeProofs` | the app family of one connection, over `TempStore` | specification, proofs |
| `ForwardBridge`, `ForwardBridgeProofs` | the forward family of one connection | specification, proofs |
| `ShellPolicy` | the scanner and the judgement of shell text, and a reference for them | operators |
| `ShellGuard`, `ShellGuardProofs` | the guard on interactive input, over `ShellPolicy` | specification, proofs |
| `MCRemoteAccess`, `MCFileBridge`, `MCForwardBridge` | symmetry sets for TLC | model checking |
| `MCShellGuard` | the words of the instance | model checking |

Definitions keep the names of the functions they model; where a function gives
up its lock it is split into one action per locked region. Operators whose name
ends in an underscore and a word (`Unbind_Skipped`) are mutated forms of the
definition that follows them: each property is checked to fail under at least
one of them. They are not part of any specification.

**RemoteAccess.** `port`, `status` and `reserved` are the bindings and the pool
as the manager sees it (a port is free or not; how the pool finds a free one is
`PortPool`'s matter), `disk` is the saved snapshot (how it gets there is
`BindingStore`'s), `leases` and `leaseOf` are `leasesByID` and
`leasesByDevice`, `inflight` is `inflightByDevice`. `listeners` maps a device to
the grant its listener admits by, `conns` are the connection handlers, `sessions`
those that Kick can find. `proc` holds, for the run loop and for every other
goroutine inside Acquire, the step it is at and its local device and grant.
In the service only the run loop calls Acquire; `Callers` adds the concurrent
calls that the manager's interface and its tests allow. A lease's expiry is the
time left until it: `Tick` decrements every copy of it, the one in a listener's
grant too. `saveBindings` is one step because `saveMu` is held from taking the
snapshot to the end of Save. Identifiers come from a pool and are reused when
nothing mentions them. `announced` is a history variable.

**PortPool.** The slice `available` is sorted whenever the lock is free, so it is
a set whose head is its least element. `OthersChange` is the rest of the machine.

**BindingStore.** The three files hold a snapshot, are absent or do not decode.
`kept` is the snapshot the manager may rely on. A power failure that loses a
suffix of unsynced directory operations leaves the same files as a kill at an
earlier step. `faults` counts kills and failed last renames since the last Save that
was completed, and `MaxFaults` bounds it.

**HostAuth.** A request is one handler in Submit, with the channel of capacity
one as `box`; an operator is one console request in Decide or Revoke. `promised`,
`revoked`, `allowed` and `overlap` are history variables. The select of Submit is three
actions, of which Go picks any that is ready. Nothing in the gateway cancels the
context of a handler that waits; the action for it is there because Submit
handles it.

**DaemonConnection.** `loop` is the main goroutine, which blocks in Submit and in
OpenTarget; `sess` the shell sessions with their read loops, `streams` and `strm`
the unity bridge's, whose goroutines close waits for. removeShell is two actions
because it uses two locks. teardownChannel is one: the main loop is its only
caller, and a read loop that gets in between finds a state it would also find
before or after. The peer's frames, the policy's answers and the device's
behaviour are nondeterministic. A frame for the file, app or forward bridge takes
its slot here (`AnsweredFrame`); what the bridge does with it is an action of that
bridge's module. `told` records the channels the peer believes closed.

**AuditSink.** An event is one unit of size. The size of the log is bounded by
`MaxSize + Overrun`; a write beyond it is not explored.

**TempStore.** `used` is the counter of the store; `Accounted` is what it ought to
be, the number of bytes of all allocations (a byte is its owner and its number), so
that a share which is returned twice or never shows as a difference.

**FileBridge.** `main` is the connection's main loop, which handles one frame at a
time, waits for the transfers it closes, and in the end cancels the context and
closes the bridge. A transfer has its goroutine towards the device (`g`), the one
that replays a download (`snd`) and a watchdog (`dog`). Steps without shared
state are merged with the locked region that follows them. Closing is done by
`CloseTransfer`, `CloseTakes` and `CloseGives`, whoever called close first; the
others wait until the quota is returned, as sync.Once makes them. `GReturns` has
the choice of a watchdog that is stopped before it reaches its select: Go picks
any ready case, so it may still close a download that was just announced. A byte
is one unit; the device's file may have any size.

**AppBridge.** A session is the state of a channel, a command the goroutine of
runTargetCommand with its target and the package it has to remove. The main loop
closes the bridge itself, so that no handler meets a closed one. Validation of
options and names, a full quota and a failing file all lead to `ProtocolFailure`.
`strayed` is a history variable, see Limits.

**ForwardBridge.** A rule is a `forwardBinding` or a `reverseBinding`, with the
position of its goroutine (`pc`), accept loop and timer; a connection is a
`forwardTCPContext` or a `reverseConn`. The maps are indexed by kind, channel and
context ID. Taking connections out of a map and closing them is one step: after
the first only their own dial or read loop knows them, and it sees them closed
either way. The end of an rport rule's set-up (accept loop, CHECK, timer) is one
step too: an accept loop or an answer that comes before the timer is started finds
a state that it also finds right after. A record is free again when its last
goroutine has ended.

**ShellPolicy, ShellGuard.** A text is a sequence of letters, spaces, `;`, `|`, `>`
and line ends; `&`, brackets and NUL stand with `;`, the carriage return with the
line end. `Scanned` is the scanner of lexShellSegments after every prefix of the
text, and `LexShellSegments` what it has in the end; `ResolveCommands` picks the
words that are run. `Forbidden` says the same of the positions of a single line,
without a scanner: it is the reference. `ShellGuard`
adds the text that is kept between frames, and with `line` the history of what the
device has been sent of its current line.

**DeviceRegistry.** Times are ages, capped where a larger value makes no
difference. `seen` is a history variable: what the last successful scan listed.

## Runs

| Run | Instance | Shows |
| --- | --- | --- |
| `RemoteAccess_production` | two devices, two ports, three identifiers, two connections with a limit of one, no other callers, crashes at any step (599 thousand states) | grants that follow their lease, distinct and stable ports, no orphaned listener, no overcounting |
| `RemoteAccess_concurrent` | one device, two identifiers, one connection, a second caller, Close | one lease per device, connectable devices listen, nothing open after Close; exposure, freezing and the end of Close |
| `PortPool` | three ports, two callers | partition, exclusive ownership, real exhaustion |
| `BindingStore` | three snapshots, one fault between two completed Saves | Save refines `SnapshotStore`: it takes effect whole or not at all, and a start loads exactly what is stored |
| `HostAuth` | one handler, two hosts, two operators, crashes and failing saves (523 thousand) | no passing without a decision; decisions whose saves do not overlap are durable |
| `DaemonConnection` | two channels, limit one, two sessions, two streams (471 thousand) | entries and targets are paired, every end is told; a connection serves or is gone, with its goroutines |
| `AuditSink` | two producers, buffer two, log of two events (16 thousand) | draining; no rotation, however it fails, loses a generation or an entry; Close returns |
| `DeviceRegistry` | two devices, stale after two, retained for three (1.5 thousand) | retention; eviction |
| `FileBridge` | one channel, two transfers, files of up to two units, a quota of three (844 thousand) | exact accounts, no orphans, someone to end every blocked read, nothing left after Close |
| `AppBridge` | one channel, two sessions, two commands, two packages of up to one unit (114 thousand) | one owner per package, one command per session, nothing left after Close; commands end |
| `ForwardBridge` | one channel, two rules, two connections, two context IDs (326 thousand) | no socket or rule lost, rules in the map alive, exact wait group |
| `ShellGuard` | two letters, frames of up to two symbols, four kept, five judged (619 thousand) | the scanner agrees with the reference; no forbidden line in pieces |

Why the bounds are enough. Devices of `RemoteAccess` meet only in the pool, the
snapshot and the order of the run loop, so two devices show every way they
interact; the races on one device need one device, the run loop and one more
goroutine. A limit of one connection with two slots lets a handler of an old
listener drain beside one of the new. `MaxTTL = 1` tells an expired lease from a
live one, which is all the code asks. What the theorems prove does not depend on
any of these bounds. Three ports let two callers hold and probe at once and still
leave one. Requests of `HostAuth` meet only in the set of trusted hosts, which the
operators change; two operators are two writers of the file. Two sessions are one
and its successor on the same channel. Two transfers of `FileBridge` are an upload
beside a download, a duplicate, or one that drains beside its successor; the quota
of three units is exceeded by two full reservations. Two sessions, commands, rules
or connections of the app and forward bridges are one that drains and its
successor; channels of theirs share nothing but the quota and the wait group, so
one is enough. In `ShellGuard` every unfinished line of up to four symbols that
was let through is judged with every frame of up to two, as far as five symbols,
with words of one and two letters that differ by one letter or by where they are
cut, and lines that are just within and just beyond the guard. `MaxFaults = 1` in
`BindingStore` is a real limit, of the runs and of the theorem: see Limits of the
properties. A deadlock is checked
everywhere but in `DaemonConnection` and the bridges, where a connection ends and
stays ended.

## Fairness

The liveness runs assume weak fairness of goroutines that are able to run: the
Go scheduler lets every one of them go on. Beyond that:

- `RemoteAccess`: strong fairness of taking a port, saving a binding and binding
  a socket, which may each fail any number of times but not always. Nothing is
  assumed of devices, peers, callers or the clock; `OnlineIsExposed` excepts
  clocks that run through whole TTLs for ever, since a lease could then expire
  between every two steps.
- `DaemonConnection`: a read deadline that is set passes; Submit and OpenTarget
  end, by timers of their own; a stream's timeout passes; a closed target ends its
  read loop; a write to the peer ends, because the peer reads or its connection
  breaks. The peer may do nothing for ever.
- `AppBridge`: OpenTarget ends and the command's timeout passes; reading a closed
  target fails. The device may be silent for ever.
- `AuditSink`: strong fairness of a successful rotation: the disk does not refuse
  for ever. `DeviceRegistry`: strong fairness of a successful scan, and time
  passes.

## Proofs

The theorems hold for every value of the constants that satisfies the modules'
assumptions: any sets of devices, ports, identifiers, connections, callers,
requests, hosts, operators, channels and sessions, any TTL and limit, crashes
allowed or not; any letters, any sets of denied, skipped, wrapping and protected
words (a word that is skipped is neither denied nor a wrapper, and no letter is a
separator), texts and frames of any length. What the code counts is assumed to be
finite: the connections of `RemoteAccess`, the rules and connections of
`ForwardBridge`, the allocations of `TempStore`, the producers of `AuditSink`. Three
theorems have a hypothesis more, named below. In every module the
property is seldom inductive; the definitions before the first lemma are what makes
it so, and TLC checks them on the instances above before they are proved.

**RemoteAccess.** `RemoteAccessProofs` proves `Spec => []P` for `TypeOK`,
`OneLeasePerDevice`, `ConnectableIsListening`, `NoOrphanListener`,
`ListeningIffLeased`, `NothingOpenAfterClose`, `PortsDistinct` and `StablePort` from
`IndInv` (module `RemoteAccessInv`):

- `ClaimInv`: a process inside Acquire, after its claim, or inside releaseLease
  owns its device in `inflight`, and owns it alone. Everything else rests on it.
- `LeaseInv`: the two maps of leases agree; a lease is RELEASING exactly while
  the run loop is between claiming it and dropping it; a process on its way to a
  new lease finds none for its device, and its identifier is used by nobody.
- `ListenerInv`: a device has no listener until its claimant registers one, has
  one from then until its lease is released or Close unbinds it; when the
  gateway is closed there is none; a socket lies under a listener.
- `BindingInv`: the snapshot on disk has a device's port before any listener is
  opened under it, and after that for ever.

Two results stand on `IndInv` and on an invariant of their own. `NeverOvercounts`
is inductive beside it: a step moves one connection into or out of the countable
ones of one lease, at most, and the counter follows or stays behind.
`GrantFollowsLease` has the hypothesis that the run loop is the only caller of
Acquire (`Callers = {}`), as it is in `main.go`; the renewal of a second caller,
pushed late, can meet the listener of the device's next lease. `GrantInv` says
that the grant the run loop holds before it publishes a lease is the listener's, and
the grant it holds before it pushes a renewal is the lease's.

The module first restates the actions that update records inside functions by their
effect on single fields, then proves the parts one by one, each with one step per
action, and combines them.

**The shared services.** `ServiceProofs` extends `BindingStore`, `PortPool`,
`AuditSink` and `DeviceRegistry`, whose definitions therefore carry their names
(`PoolInit`, `SinkNext`). The four proofs do not depend on each other.

**PortPool.** `Partition`, `Exclusive` and the action property `ExhaustionIsReal`;
the invariant adds that during a caller's second walk a port is blocked only by a
probe made since the caller recycled.

**BindingStore.** `BindingStoreImplementsSnapshotStore` proves the refinement: the
files with no Save under way at first are an empty store, and every file operation,
failure and restart is a step of `SnapshotStore` or a stutter. The hypothesis, also of
the theorem on the types, is `MaxFaults <= 1`: the process may fail any number of times, but completes a Save
between two faults. `KeptIsFound` says where the snapshot is that a restart must
find: in the primary file, and from the first rename to the second in the backup.

**AuditSink.** `DrainedBeforeReturn`, and `RotationKeepsLog` as an action property.
`DrainsForClose`: once the writing goroutine drains or has ended, the sink is closed,
so that only producers which had passed the check before are still on their way.
`LateInv` counts them: when the goroutine has ended, what lies in the channel was sent
after it, and the late events together with the producers on their way are at most as
many as there are producers. `RotationKeepsLog` needs only the types: it is proved
action by action, each step of a rotation with its success and its failure.

**DeviceRegistry.** `RetentionRuns` is inductive beside the types, with `seen` as what
the last successful scan has listed.

**ShellGuard.** `JudgedByLine` and `NoForbiddenLine`. `ShellGuardProofs` has four
layers:

- Induction on positions. The library's induction theorems cannot be instantiated
  here, so `UpTo` argues by the least position at which a fact could fail, and
  `ScannedStates` builds the recursive function of `Scanned` step by step.
- One line. `LineInv` says what the scanner knows after i symbols of a line: its
  word is the run of letters it is in, and it waits for a redirection's word exactly
  where the reference sees one (`WordInv`); the segments that are done are allowed
  if no word of an ended command is forbidden (`DoneInv`); the current segment knows
  of the words of the open command whether one is forbidden, whether the next word
  is the command and whether a wrapper runs it (`CurInv`). `LineStep` has one case per
  kind of symbol. It is here that a pipe glued to the word of a redirection must be
  excluded: `WordInv` fails after it.
- A text. `OneOfTheLines`: a line of a text is judged as it would be by itself,
  whatever segments lie behind it; `AllowedLines` and `AllowedText` are the two
  directions of the equivalence.
- The guard. `GuardInv`: the kept input and the device's current line have no line end
  in them and are equal (`Matched`), unless input was kept for a session that had ended.
  `NewLinesJudged` then shows that every line a frame completes or begins on the
  device is a line of the text that was judged.

**HostAuth.** `OnlyAllowedPass` and `DecisionsAreDurable`. `ReqInv` follows a
decision from the operator through the channel to the handler, and says that a slot
is not used again while an operator still carries a decision for it. `FileInv`:
while saves do not overlap, the one list on its way to the file is what the registry
trusts, and registry and file agree with what was promised and revoked.

**DaemonConnection.** `TargetsPaired`, and `EndIsTold` as an action property. The
invariant relates each map to the records behind it in both directions: an entry
names a session of its channel that is being read (`ShellEntry`, `StreamEntry`), and
whatever is being read and not closed is the entry of its channel (`SessForm`,
`StreamForm`), so that neither a read loop that ends late nor a teardown can take
the entry of a successor.

**ForwardBridge.** `CurrentRuleLives`, `NoRuleLost`, `NoSocketLost` and
`CloseWaitsExactly`. `RuleInv`: a rule that is not closed is in the map or among
those the main loop is closing, whatever its set-up is doing, and an rport rule that
was not answered has its timer. `ConnInv`: the same of connections; an accept loop
alone holds what it has accepted, the main loop what is being dialled.
`EmptyAfterClose`: nothing enters the maps after Close. `Counted`: `closeWg` is the
number of rule goroutines, accept loops, timers and connection goroutines; each
action moves one of the four by one, or by as many as it adds.

**AppBridge.** `PackageHasOwner`, `OneCommand` and `CleanAfterClose`. `OneChannel`,
`SessForm` and `CmdForm` tie sessions to channels and commands to sessions;
`TargetKnown` and `CommandKnown` say which commands a session is going to hear
from, none or one unless it has strayed; `Owned` that a package is a session's or a
command's and never both; `Quota` that the counter of the store is exactly the
bytes of its allocations, and within its limit. The lemma `AccountMoves` is what the
proof needs of `TempStore`: a step that changes one share moves `Accounted` by as
much.

**FileBridge.** `QuotaExact`, `NoOrphanTransfer`, `NoTargetLost` and
`CleanAfterClose`. `Found` is the heart: a transfer whose quota is not back, closed
or not, is in a map, is the one the main loop is opening, or is awaited by whoever
took it out of its map. It speaks of the quota and not of the flag, because a
watchdog and the size guard close transfers that stay in their map. `TransferForm`
and `AllocForm` tie the two halves of allocation.close to that flag; `Sized` says
that a download holds the most it can be until setSize, so that setSize only gives
back; `TargetForm` that a target being read is an open transfer's and has a
watchdog. Most actions are instances of two lemmas: `OneTransfer` for what the
goroutines of a transfer do, `MainRemoves` for what the main loop takes out of the
maps. The lemmas on the account of the store are the same as in `AppBridgeProofs`.

Only model-checked: liveness (`OnlineIsExposed`, `OfflineIsFrozen`,
`CloseTerminates`, `ServesOrEnds`, `CloseReturns`, `GoneIsEvicted`, `CommandEnds`),
because TLAPS does not reason about fairness here. Every other property of the runs
is a theorem.

The type invariants are proved for every specification that has a run.

## Limits of the properties

Some properties are weaker than one would wish, because the code promises no more:

- `NeverOvercounts` is one-sided. The listener opens before the lease is
  published, and ConnectionOpened ignores a lease it does not know
  (`manager.go:325`): a peer that gets through its handshake in between is not
  counted.
- `ImplementsSnapshotStore` is proved and checked where a Save is completed between
  any two faults. Save removes the backup also
  when the primary is missing (`bindings.go:93`), as it is after a crash between
  the two renames; a second crash then finds neither.
- `EndIsTold` has no converse. Several answers tell the peer that the channel is
  closed and leave its slot taken (`gateway.go:630, 778, 792, 826, 831, 846`).
- `AuditSink` has no property that a log comes back which could not be reopened
  after a rotation: the retry is behind the test for an open file (`sink.go:188`).
- `FileBridge` has no property that an announced download stays open: its timeout,
  or a watchdog stopped before its select, can close it just after. That a silent
  device is timed out is the part of `NoTargetLost` which says that a watchdog
  stands behind every blocked read; as liveness it is checked of the same
  construction in `AppBridge` and `DaemonConnection`.
- `DecisionsAreDurable` leaves out decisions whose saves overlap. The list of hosts
  is copied under `mu` and written under `saveMu` (`registry.go:221-223`), so two
  console requests can write in the opposite order and the older list stays. The
  manager's `saveBindings` takes its snapshot under `saveMu` and has not got this
  race.
- `DaemonConnection` has no property that a session holds a slot. removeShell
  compares the session under one lock and releases the slot under another
  (`gateway.go:962-975`): a session opened on the channel in between runs without
  one until its next frame.
- `OneCommand` and, for targets, `CleanAfterClose` of `AppBridge` leave out sessions
  that were reset while a command was opening its target (`app.go:521`). Such a
  command attaches to the session when the next one is running; the output of
  either is recorded for both (`app.go:458`), and the target that is attached
  second hides the first from close.
- `ForwardBridge` has no property that the connections of a rule survive the
  failure of its predecessor: removeBinding takes every connection of the channel
  (`forward.go:406`), and the failure is answered with a close of the channel. A
  CHECK is accepted beside an rport rule, the reverse is not (`forward.go:209`,
  `forward_reverse.go:59`). An answer between the firing of the timer and
  failReverseSetup is told success and then failure.
- The modules of the connection and of its bridges assume that writes to the peer, and
  in `ForwardBridge` those to a socket, end. The code sets no write deadline.
- `ShellGuard`: a line longer than what is kept is judged by its end, as the comment
  at `gateway.go:904` says, and a session may begin with input that was kept just
  after its predecessor ended; `NoForbiddenLine` leaves both out. Both properties
  leave out lines in which a pipe touches the word of a redirection: the scanner
  asks whether a redirection waits for its word, and the word has not ended
  (`shell.go:247`), so that what follows the pipe counts as part of the target.

## Not modelled

Frames as bytes (`protocol`), RSA and fingerprints (`hostauth/crypto.go`), sockets
to the local HDC server (`hdc`), HTTP (`web`), configuration and logging: they keep
no state that other components rely on, and their answers are nondeterministic
choices where they are used. Of the shell policy: quotes, escapes, substitutions,
`sh -c`, the rules on arguments and those that relate segments. In
`RemoteAccess`: the validation of an Acquire request, the reason of the last
rejection, and the branch for a failing Unbind, which never fails. In `HostAuth`:
the recent events and the notices. In the bridges: paths, names, options,
endpoints, what the device prints, and a peer that neither reads nor goes away.

## Plan

Done: all components named above with their runs, and a theorem for every safety
property that a run checks. Next, in this order:

1. The notices of `HostAuth`, and `DaemonConnection` composed with `HostAuth`.
2. Quotes and substitutions in `ShellPolicy`, whose scanner would get a stack, and
   whose `LineInv` a level of nesting.
3. `RemoteAccess` over `PortPool` instead of a pool in which a port is free or not.
