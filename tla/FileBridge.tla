----------------------------- MODULE FileBridge -----------------------------
(***************************************************************************)
(* The file family of one connection (internal/bridge/file.go, util.go)    *)
(* over the temporary store.  An upload ("file send") is received into a   *)
(* temporary file and then sent to the device by the local HDC; a download *)
(* ("file recv") is fetched by the local HDC and then replayed to the peer.*)
(*                                                                         *)
(* Processes: the main loop of the connection, which handles one frame at  *)
(* a time and at the end closes the bridge; for every transfer the         *)
(* goroutine that talks to the device (g), the one that replays a download *)
(* (snd) and the watchdog of closeOnContext (dog).  All of them may close  *)
(* a transfer; sync.Once lets one do it and the others wait for it.        *)
(*                                                                         *)
(* A write to the peer succeeds or fails: a peer that neither reads nor    *)
(* goes away is not modelled.                                              *)
(***************************************************************************)
EXTENDS TempStore

CONSTANTS
  Channels,      \* channel IDs the peer uses
  MaxFileBytes,  \* FileBridge.maxFileBytes
  None

ASSUME FileBridgeAssumption == MaxFileBytes \in Nat \ {0} /\ None \notin Transfers \cup Channels

VARIABLES
  uploads, downloads,  \* the bridge's maps: the transfer of a channel, or None
  tr,                  \* the transfers and their goroutines
  main                 \* where the main loop is, and the transfers it is closing

store == <<used, alloc>>
maps  == <<uploads, downloads>>
vars  == <<store, maps, tr, main>>

\* transferStarted is g # "none" and sending is snd # "none"; target is "held"
\* between OpenTarget and attachTarget, and "none" again once closed.
Transfer ==
  [kind: {"none", "upload", "download"}, chan: Channels \cup {None},
   want: 0..MaxFileBytes, got: 0..MaxFileBytes,
   closed: BOOLEAN, target: {"none", "held", "attached"},
   g: {"none", "open", "attach", "read", "stat", "announce", "close", "done"},
   snd: {"none", "open", "send", "close", "done"},
   dog: BOOLEAN, expired: BOOLEAN]
NoTransfer ==
  [kind |-> "none", chan |-> None, want |-> 0, got |-> 0, closed |-> FALSE, target |-> "none",
   g |-> "none", snd |-> "none", dog |-> FALSE, expired |-> FALSE]

Init ==
  /\ used = 0 /\ alloc = [t \in Transfers |-> NoAlloc]
  /\ uploads = [ch \in Channels |-> None] /\ downloads = [ch \in Channels |-> None]
  /\ tr = [t \in Transfers |-> NoTransfer]
  /\ main = [pc |-> "idle", t |-> None, ch |-> None, closing |-> {}]

Registered(t) == \E ch \in Channels : uploads[ch] = t \/ downloads[ch] = t
IsClosed(t)   == alloc[t].st = "returned"
Cancelled     == main.pc \in {"cancel", "wait", "closed"}

\* The main loop goes on when the transfers it closes are closed, by whomever.
At(pc) == main.pc = pc /\ main.closing = {}
Goto(pc, t, ch, closing) ==
  main' = [pc |-> pc, t |-> t, ch |-> ch, closing |-> {c \in closing \ {None} : ~IsClosed(c)}]
Return(closing) == Goto("idle", None, None, closing)

\* A transfer nobody refers to any more; its place in the pool is used again.
Free(t) ==
  \/ tr[t].kind = "none"
  \/ /\ IsClosed(t) /\ ~Registered(t)
     /\ tr[t].g \in {"none", "done"} /\ tr[t].snd \in {"none", "done"} /\ ~tr[t].dog

-----------------------------------------------------------------------------
(* Closing a transfer *)

\* The locked region of close, once: mark it closed and close the target it has.
Shut(r) == IF r.closed THEN r
           ELSE [r EXCEPT !.closed = TRUE, !.target = IF @ = "attached" THEN "none" ELSE @]

\* One of those that removed the transfer from its map closes it.
CloseTransfer(t) ==
  /\ ~tr[t].closed
  /\ t \in main.closing \/ tr[t].g = "close" \/ tr[t].snd = "close"
  /\ tr' = [tr EXCEPT ![t] = Shut(@)]
  /\ UNCHANGED <<store, maps, main>>

\* allocation.close, in its two halves.
CloseTakes(t) == tr[t].closed /\ TakeBack(t) /\ UNCHANGED <<maps, tr, main>>
CloseGives(t) == GiveBack(t) /\ main' = [main EXCEPT !.closing = @ \ {t}] /\ UNCHANGED <<maps, tr>>

\* closeOnContext: the context ends, by its timeout, by the connection or because
\* the goroutine has returned, and the watchdog closes the transfer.
DogFires(t) ==
  /\ tr[t].dog /\ (tr[t].expired \/ Cancelled \/ tr[t].g = "done")
  /\ tr' = [tr EXCEPT ![t] = [Shut(@) EXCEPT !.dog = FALSE]]
  /\ UNCHANGED <<store, maps, main>>

\* The timeout of the transfer's context passes.
Expires(t) ==
  /\ tr[t].g \notin {"none", "done"} /\ ~tr[t].expired /\ ~Cancelled
  /\ tr' = [tr EXCEPT ![t].expired = TRUE]
  /\ UNCHANGED <<store, maps, main>>

-----------------------------------------------------------------------------
(* The main loop: uploads *)

\* rejectAndClose and failUpload: end the upload of the channel, if any.
RejectUpload(ch) ==
  /\ uploads' = [uploads EXCEPT ![ch] = None]
  /\ Return({uploads[ch]})
  /\ UNCHANGED <<store, downloads, tr>>

\* A frame that is malformed, unsupported or out of order, or a CHECK over the quota.
FrameRejected(ch) == At("idle") /\ RejectUpload(ch)

\* CHECK: reserve the declared size.
CheckReserve(ch, t, n) ==
  /\ At("idle") /\ Free(t)
  /\ Reserve(t, n)
  /\ tr' = [tr EXCEPT ![t] = [NoTransfer EXCEPT !.kind = "upload", !.chan = ch, !.want = n]]
  /\ Goto("open", t, ch, {})
  /\ UNCHANGED maps

\* The temporary directory or file cannot be created.
OpenFileFails ==
  LET t == main.t IN
  /\ At("open")
  /\ Unreserve(t)
  /\ tr' = [tr EXCEPT ![t] = NoTransfer]
  /\ IF tr[t].kind = "upload" THEN Goto("reject", None, main.ch, {}) ELSE Return({})
  /\ UNCHANGED maps

\* Mutant: the channel's earlier upload is replaced.
RegisterUpload_Replaces ==
  LET t == main.t IN
  /\ At("open") /\ tr[t].kind = "upload"
  /\ uploads' = [uploads EXCEPT ![main.ch] = t]
  /\ Goto("begin", t, main.ch, {})
  /\ UNCHANGED <<store, downloads, tr>>

\* One upload per channel; a second CHECK ends both.
RegisterUpload ==
  LET t == main.t  ch == main.ch IN
  /\ At("open") /\ tr[t].kind = "upload"
  /\ IF uploads[ch] # None
     THEN Goto("reject", None, ch, {t}) /\ UNCHANGED uploads
     ELSE uploads' = [uploads EXCEPT ![ch] = t] /\ Goto("begin", t, ch, {})
  /\ UNCHANGED <<store, downloads, tr>>

Rejects == At("reject") /\ RejectUpload(main.ch)

\* BEGIN is written, or the upload is withdrawn.
BeginSent  == At("begin") /\ Return({}) /\ UNCHANGED <<store, maps, tr>>
BeginFails == At("begin") /\ RejectUpload(main.ch)

\* writeChunk and prepareTargetTransfer: the upload is open and not yet started.
Receiving(u) == u # None /\ ~tr[u].closed /\ tr[u].g = "none"

\* DATA: writeChunk at the expected offset.
Data(ch) ==
  LET u == uploads[ch] IN
  /\ At("idle") /\ Receiving(u) /\ tr[u].got < tr[u].want
  /\ tr' = [tr EXCEPT ![u].got = @ + 1]
  /\ Return({})
  /\ UNCHANGED <<store, maps>>

\* FINISH of a complete upload: seal the file and start the goroutine.
Finish(ch) ==
  LET u == uploads[ch] IN
  /\ At("idle") /\ downloads[ch] = None /\ Receiving(u) /\ tr[u].got = tr[u].want
  /\ tr' = [tr EXCEPT ![u].g = "open"]
  /\ Return({})
  /\ UNCHANGED <<store, maps>>

-----------------------------------------------------------------------------
(* The main loop: downloads, and the end *)

\* INIT: the size is unknown, reserve the most it can be.
RecvInit(ch, t) ==
  /\ At("idle") /\ Free(t)
  /\ Reserve(t, MaxFileBytes)
  /\ tr' = [tr EXCEPT ![t] = [NoTransfer EXCEPT !.kind = "download", !.chan = ch]]
  /\ Goto("open", t, ch, {})
  /\ UNCHANGED maps

\* A channel that has a transfer keeps it; the new allocation is closed.
RegisterDownload ==
  LET t == main.t  ch == main.ch IN
  /\ At("open") /\ tr[t].kind = "download"
  /\ IF downloads[ch] # None \/ uploads[ch] # None
     THEN Return({t}) /\ UNCHANGED <<downloads, tr>>
     ELSE /\ downloads' = [downloads EXCEPT ![ch] = t]
          /\ tr' = [tr EXCEPT ![t].g = "open"]
          /\ Return({})
  /\ UNCHANGED <<store, uploads>>

\* BEGIN: replay the download, once.
RecvBegin(ch) ==
  LET d == downloads[ch] IN
  /\ At("idle") /\ d # None
  /\ ~tr[d].closed /\ tr[d].snd = "none"
  /\ tr' = [tr EXCEPT ![d].snd = "open"]
  /\ Return({})
  /\ UNCHANGED <<store, maps>>

\* FINISH on a channel with a download ends it; so does CloseChannel, later.
RemoveDownload(ch) ==
  /\ downloads' = [downloads EXCEPT ![ch] = None]
  /\ Return({downloads[ch]})
  /\ UNCHANGED <<store, uploads, tr>>

RecvFinish(ch) == At("idle") /\ downloads[ch] # None /\ RemoveDownload(ch)

\* CloseChannel: the upload first, then the download.
CloseChannel(ch) ==
  /\ At("idle")
  /\ uploads' = [uploads EXCEPT ![ch] = None]
  /\ Goto("download", None, ch, {uploads[ch]})
  /\ UNCHANGED <<store, downloads, tr>>

ClosesDownload == At("download") /\ RemoveDownload(main.ch)

\* The connection ends: daemonConnection.close cancels its context ...
Cancel == At("idle") /\ Goto("cancel", None, None, {}) /\ UNCHANGED <<store, maps, tr>>

\* Mutant: the downloads are forgotten.
Close_UploadsOnly ==
  /\ At("cancel")
  /\ uploads' = [ch \in Channels |-> None] /\ downloads' = [ch \in Channels |-> None]
  /\ Goto("wait", None, None, {uploads[ch] : ch \in Channels})
  /\ UNCHANGED <<store, tr>>

\* ... and closes the bridge: empty the maps, close every transfer ...
Close ==
  /\ At("cancel")
  /\ uploads' = [ch \in Channels |-> None] /\ downloads' = [ch \in Channels |-> None]
  /\ Goto("wait", None, None, {uploads[ch] : ch \in Channels} \cup {downloads[ch] : ch \in Channels})
  /\ UNCHANGED <<store, tr>>

\* ... and wait for the goroutines (closeWg); the watchdogs are not counted.
CloseReturns ==
  /\ At("wait")
  /\ \A t \in Transfers : tr[t].g \in {"none", "done"} /\ tr[t].snd \in {"none", "done"}
  /\ Goto("closed", None, None, {})
  /\ UNCHANGED <<store, maps, tr>>

-----------------------------------------------------------------------------
(* runTargetUpload and runTargetDownload *)

\* The deferred calls: stop, then cancel.  A watchdog whose context has ended by
\* then is going to fire.  Any other one ends, unless it has not reached its select
\* yet: it finds both channels ready there, and may still choose to fire.
GReturns(t) ==
  \E dog \in {d \in BOOLEAN : (d => tr[t].dog) /\ (tr[t].dog /\ (tr[t].expired \/ Cancelled) => d)} :
    tr' = [tr EXCEPT ![t] = [@ EXCEPT !.g = "done", !.dog = dog, !.expired = FALSE]]

OpenTarget(t) ==
  /\ tr[t].g = "open"
  /\ tr' = [tr EXCEPT ![t] = [@ EXCEPT !.g = "attach", !.target = "held"]]
  /\ UNCHANGED <<store, maps, main>>

\* Mutant: a transfer that was closed meanwhile gets the target all the same.
AttachTarget_Unchecked(t) ==
  /\ tr[t].g = "attach"
  /\ tr' = [tr EXCEPT ![t] = [@ EXCEPT !.g = "read", !.target = "attached", !.dog = TRUE]]
  /\ UNCHANGED <<store, maps, main>>

\* attachTarget; a transfer closed meanwhile has its new target closed.
AttachTarget(t) ==
  /\ tr[t].g = "attach"
  /\ tr' = [tr EXCEPT ![t] =
              IF @.closed THEN [@ EXCEPT !.g = "done", !.target = "none", !.expired = FALSE]
              ELSE [@ EXCEPT !.g = "read", !.target = "attached", !.dog = TRUE]]
  /\ UNCHANGED <<store, maps, main>>

\* watchTempFileSize: the file of a download grows beyond the limit.
GuardAborts(t) ==
  /\ tr[t].g = "read" /\ tr[t].kind = "download" /\ ~tr[t].closed
  /\ tr' = [tr EXCEPT ![t] = Shut(@)]
  /\ UNCHANGED <<store, maps, main>>

\* The read loop of a download ends, by the device or because the target was
\* closed, within the timeout and without an error in the output.
ReadEnds(t) ==
  /\ tr[t].g = "read" /\ tr[t].kind = "download" /\ ~tr[t].expired
  /\ tr' = [tr EXCEPT ![t] = [@ EXCEPT !.g = "stat", !.target = "none"]]
  /\ UNCHANGED <<store, maps, main>>

\* The file is there, unless its directory is removed already: setSize.
SetSize(t, n) ==
  /\ tr[t].g = "stat" /\ ~IsClosed(t)
  /\ Settle(t, n)
  /\ tr' = [tr EXCEPT ![t].g = "announce"]
  /\ UNCHANGED <<maps, main>>

\* CHECK is written to the peer, and the goroutine returns.
Announce(t) ==
  /\ tr[t].g = "announce"
  /\ GReturns(t)
  /\ UNCHANGED <<store, maps, main>>

\* removeUpload and removeDownload with the expected transfer.
RemoveIfCurrent(t) ==
  /\ uploads' = [ch \in Channels |-> IF uploads[ch] = t THEN None ELSE uploads[ch]]
  /\ downloads' = [ch \in Channels |-> IF downloads[ch] = t THEN None ELSE downloads[ch]]

\* finishUpload, endDownload: whoever removes the transfer closes it.  An upload
\* ends so in any case; a download when the device or the peer cannot be reached,
\* the timeout has passed, or the file is missing or too large.
GFinishes(t) ==
  /\ tr[t].g \in {"open", "read", "stat", "announce"}
  /\ RemoveIfCurrent(t)
  /\ IF Registered(t) THEN tr' = [tr EXCEPT ![t] = [@ EXCEPT !.g = "close"]] ELSE GReturns(t)
  /\ UNCHANGED <<store, main>>

GClosed(t) ==
  /\ tr[t].g = "close" /\ IsClosed(t)
  /\ GReturns(t)
  /\ UNCHANGED <<store, maps, main>>

-----------------------------------------------------------------------------
(* sendDownloadData *)

SndStep(t, from, to) == tr[t].snd \in from /\ tr' = [tr EXCEPT ![t].snd = to]

\* The file opens, if its directory is still there.
SndOpens(t) ==
  /\ ~IsClosed(t) /\ SndStep(t, {"open"}, "send")
  /\ UNCHANGED <<store, maps, main>>

\* The whole file is sent, or the download is found closed.
SndEnds(t) == SndStep(t, {"send"}, "done") /\ UNCHANGED <<store, maps, main>>

\* The file cannot be opened or read, or not be written to the peer.
SndFinishes(t) ==
  /\ RemoveIfCurrent(t)
  /\ SndStep(t, {"open", "send"}, IF Registered(t) THEN "close" ELSE "done")
  /\ UNCHANGED <<store, main>>

SndClosed(t) ==
  /\ IsClosed(t) /\ SndStep(t, {"close"}, "done")
  /\ UNCHANGED <<store, maps, main>>

-----------------------------------------------------------------------------
MainGoesOn ==
  OpenFileFails \/ RegisterUpload \/ RegisterDownload \/ Rejects \/ BeginSent \/ BeginFails
    \/ ClosesDownload \/ Close \/ CloseReturns

GGoesOn(t) ==
  OpenTarget(t) \/ AttachTarget(t) \/ ReadEnds(t) \/ (\E n \in 0..MaxFileBytes : SetSize(t, n))
    \/ Announce(t) \/ GFinishes(t) \/ GClosed(t)

SndGoesOn(t) == SndOpens(t) \/ SndEnds(t) \/ SndFinishes(t) \/ SndClosed(t)

Closing(t) == CloseTransfer(t) \/ CloseTakes(t) \/ CloseGives(t)

Next ==
  \/ MainGoesOn \/ Cancel
  \/ \E ch \in Channels :
       \/ FrameRejected(ch) \/ Data(ch) \/ Finish(ch) \/ RecvBegin(ch) \/ RecvFinish(ch)
       \/ CloseChannel(ch)
       \/ \E t \in Transfers : RecvInit(ch, t) \/ \E n \in 0..MaxFileBytes : CheckReserve(ch, t, n)
  \/ \E t \in Transfers :
       \/ GGoesOn(t) \/ GuardAborts(t) \/ SndGoesOn(t)
       \/ Closing(t) \/ DogFires(t) \/ Expires(t)

Spec == Init /\ [][Next]_vars

-----------------------------------------------------------------------------
\* Types; an upload never has more bytes than it has declared and reserved.
TypeOK ==
  /\ used \in 0..MaxBytes /\ alloc \in [Transfers -> AllocRec]
  /\ uploads \in [Channels -> Transfers \cup {None}]
  /\ downloads \in [Channels -> Transfers \cup {None}]
  /\ tr \in [Transfers -> Transfer]
  /\ \A t \in Transfers : tr[t].got <= tr[t].want
  /\ main.pc \in {"idle", "open", "reject", "begin", "download", "cancel", "wait", "closed"}
  /\ main.closing \subseteq Transfers

\* The store accounts for every byte that is reserved and for no other, through
\* closes that race with each other and with settle: nothing is returned twice
\* and nothing is lost, so the quota neither erodes nor is overdrawn.
QuotaExact == used = Accounted

\* A transfer that holds quota is known to somebody who will close it: it is in a
\* map, in the hands of the main loop, or of the goroutine that removed it.
NoOrphanTransfer ==
  \A t \in Transfers :
    tr[t].kind # "none" /\ ~tr[t].closed =>
      \/ Registered(t) \/ main.t = t \/ t \in main.closing
      \/ tr[t].g = "close" \/ tr[t].snd = "close"

\* An open target belongs to an open transfer, or is about to be attached or
\* closed by the goroutine that opened it.  While a goroutine reads it, which has no
\* timeout of its own, the watchdog is there to close it (util.go:14-19), and once the
\* bridge closes somebody is about to.
NoTargetLost ==
  \A t \in Transfers :
    /\ tr[t].target = "held" => tr[t].g = "attach"
    /\ tr[t].target = "attached" =>
         /\ ~tr[t].closed
         /\ tr[t].g = "read" => tr[t].dog
         /\ main.pc \in {"wait", "closed"} =>
              t \in main.closing \/ tr[t].g = "close" \/ tr[t].snd = "close"

\* When the bridge has closed, its whole quota is back, no target is open and no
\* goroutine is left but watchdogs with nothing to close.
CleanAfterClose ==
  main.pc = "closed" =>
    /\ used = 0
    /\ \A t \in Transfers : tr[t].target = "none" /\ (tr[t].kind # "none" => tr[t].closed)
=============================================================================
