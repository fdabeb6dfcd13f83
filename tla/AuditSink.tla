----------------------------- MODULE AuditSink ------------------------------
(***************************************************************************)
(* The audit sink (internal/audit/sink.go): gateway goroutines hand events *)
(* to Record, which never blocks; one goroutine appends them to audit.log  *)
(* and rotates it to audit.log.1; Close drains the queue.                  *)
(*                                                                         *)
(* An event is one unit of size and has no content.  The counters dropped  *)
(* and failed are modelled by whether they are positive, which is all that *)
(* Close asks of them; failed also stands for closeErr.  Stat of a file    *)
(* just opened is taken to succeed, so s.written is the size of the log.   *)
(***************************************************************************)
EXTENDS Naturals, FiniteSets

CONSTANTS
  Producers,  \* goroutines that record events
  Buffer,     \* eventBuffer
  MaxSize,    \* maxAuditBytes, in events
  Overrun     \* bound on how far the log may grow beyond MaxSize

ASSUME AuditAssumption ==
  /\ IsFiniteSet(Producers)
  /\ Buffer \in Nat \ {0} /\ MaxSize \in Nat \ {0} /\ Overrun \in Nat

VARIABLES
  queue,     \* number of events in the channel
  prod,      \* where each producer is in Record
  closer,    \* progress of Close
  loop,      \* where the writing goroutine is
  open,      \* is there an open file?
  size,      \* events in audit.log; s.written follows it
  old,       \* events in audit.log.1
  cooling,   \* is rotateRetryAt in the future?
  dropped, failed,
  late       \* history: events sent after the goroutine had ended

log  == <<open, size, old, cooling>>
sinkVars == <<queue, prod, closer, loop, log, dropped, failed, late>>

\* NewSink goes on with the files it finds.
SinkInit ==
  /\ queue = 0
  /\ prod = [p \in Producers |-> "idle"]
  /\ closer = "none" /\ loop = "select"
  /\ open = TRUE /\ size \in 0..MaxSize /\ old \in {0, MaxSize} /\ cooling = FALSE
  /\ dropped = FALSE /\ failed = FALSE
  /\ late = 0

-----------------------------------------------------------------------------
(* Record *)

\* Mutant: closed is left to the select.
RecordCheck_Skipped(p) ==
  /\ prod[p] = "idle"
  /\ prod' = [prod EXCEPT ![p] = "send"]
  /\ UNCHANGED <<queue, closer, loop, log, dropped, failed, late>>

\* closed.Load(): an event after Close is dropped ...
RecordCheck(p) ==
  /\ prod[p] = "idle"
  /\ IF closer = "none"
     THEN prod' = [prod EXCEPT ![p] = "send"] /\ UNCHANGED dropped
     ELSE dropped' = TRUE /\ UNCHANGED prod
  /\ UNCHANGED <<queue, closer, loop, log, failed, late>>

\* ... and so is one that finds the channel full.  The sink may have been closed
\* since the check.
RecordSend(p) ==
  /\ prod[p] = "send"
  /\ prod' = [prod EXCEPT ![p] = "idle"]
  /\ IF queue < Buffer
     THEN /\ queue' = queue + 1
          /\ late' = IF loop = "ended" THEN late + 1 ELSE late
          /\ UNCHANGED dropped
     ELSE dropped' = TRUE /\ UNCHANGED <<queue, late>>
  /\ UNCHANGED <<closer, loop, log, failed>>

-----------------------------------------------------------------------------
(* The writing goroutine *)

\* The select takes an event, also when done is closed already, or it sees done.
Receive ==
  /\ loop \in {"select", "drain"} /\ queue > 0
  /\ queue' = queue - 1
  /\ loop' = IF loop = "select" THEN "persist" ELSE "persistLast"
  /\ UNCHANGED <<prod, closer, log, dropped, failed, late>>

\* Mutant: the goroutine ends without draining the channel.
SeeDone_NoDrain ==
  /\ loop = "select" /\ closer # "none"
  /\ loop' = "ended"
  /\ open' = FALSE
  /\ UNCHANGED <<queue, prod, closer, size, old, cooling, dropped, failed, late>>

SeeDone ==
  /\ loop = "select" /\ closer # "none"
  /\ loop' = "drain"
  /\ UNCHANGED <<queue, prod, closer, log, dropped, failed, late>>

MustRotate == open /\ size + 1 > MaxSize /\ ~cooling

\* rotateIfNeeded: rename audit.log to audit.log.1 and open a new audit.log.
Rotate ==
  /\ loop \in {"persist", "persistLast"} /\ MustRotate
  /\ old' = size /\ size' = 0
  /\ UNCHANGED <<queue, prod, closer, loop, open, cooling, dropped, failed, late>>

\* Mutant: the old generation is removed before the rename is tried.
RotateRenameFails_RemovesFirst ==
  /\ loop \in {"persist", "persistLast"} /\ MustRotate
  /\ cooling' = TRUE /\ old' = 0
  /\ UNCHANGED <<queue, prod, closer, loop, open, size, dropped, failed, late>>

\* The rename fails: the same file is opened again and grows for a while.
RotateRenameFails ==
  /\ loop \in {"persist", "persistLast"} /\ MustRotate
  /\ cooling' = TRUE
  /\ UNCHANGED <<queue, prod, closer, loop, open, size, old, dropped, failed, late>>

\* The reopen fails, after a rename that succeeded or failed.
RotateReopenFails ==
  /\ loop \in {"persist", "persistLast"} /\ MustRotate
  /\ open' = FALSE /\ cooling' = TRUE
  /\ \/ old' = size /\ size' = 0
     \/ UNCHANGED <<size, old>>
  /\ UNCHANGED <<queue, prod, closer, loop, dropped, failed, late>>

Persisted == loop' = IF loop = "persist" THEN "select" ELSE "drain"

Write ==
  /\ loop \in {"persist", "persistLast"} /\ ~MustRotate /\ open
  /\ size < MaxSize + Overrun
  /\ size' = size + 1
  /\ Persisted
  /\ UNCHANGED <<queue, prod, closer, open, old, cooling, dropped, failed, late>>

\* The write fails, or there is no file to write to.
WriteFails ==
  /\ loop \in {"persist", "persistLast"} /\ ~MustRotate
  /\ failed' = TRUE
  /\ Persisted
  /\ UNCHANGED <<queue, prod, closer, log, dropped, late>>

\* rotationRetryInterval has passed; persist looks at the clock once, at its start.
CoolDown ==
  /\ cooling /\ loop \notin {"persist", "persistLast"}
  /\ cooling' = FALSE
  /\ UNCHANGED <<queue, prod, closer, loop, open, size, old, dropped, failed, late>>

\* The channel is empty: sync and close the file, which may fail, and close
\* flushed.
Drained ==
  /\ loop = "drain" /\ queue = 0
  /\ loop' = "ended"
  /\ open' = FALSE
  /\ failed' \in (IF open THEN {failed, TRUE} ELSE {failed})
  /\ UNCHANGED <<queue, prod, closer, size, old, cooling, dropped, late>>

-----------------------------------------------------------------------------
CloseBegin ==
  /\ closer = "none"
  /\ closer' = "wait"
  /\ UNCHANGED <<queue, prod, loop, log, dropped, failed, late>>

\* flushed is closed: report what is missing.
CloseReturn ==
  /\ closer = "wait" /\ loop = "ended"
  /\ closer' = IF dropped \/ failed THEN "error" ELSE "ok"
  /\ UNCHANGED <<queue, prod, loop, log, dropped, failed, late>>

Writer ==
  \/ Receive \/ SeeDone \/ Drained
  \/ Rotate \/ RotateRenameFails \/ RotateReopenFails \/ Write \/ WriteFails

SinkNext ==
  \/ \E p \in Producers : RecordCheck(p) \/ RecordSend(p)
  \/ Writer \/ CoolDown \/ CloseBegin \/ CloseReturn

SinkSpec == SinkInit /\ [][SinkNext]_sinkVars

\* Goroutines run on and time passes.  The last conjunct says that renaming and
\* reopening work again some time.
SinkFairness ==
  /\ WF_sinkVars(Writer) /\ WF_sinkVars(CloseReturn) /\ WF_sinkVars(CoolDown)
  /\ SF_sinkVars(Rotate)

SinkFairSpec == SinkSpec /\ SinkFairness

-----------------------------------------------------------------------------
\* The state is well-formed: the queue is within its capacity and the counts within their bounds.
SinkTypeOK ==
  /\ queue \in 0..Buffer
  /\ prod \in [Producers -> {"idle", "send"}]
  /\ closer \in {"none", "wait", "ok", "error"}
  /\ loop \in {"select", "persist", "drain", "persistLast", "ended"}
  /\ open \in BOOLEAN /\ size \in 0..(MaxSize + Overrun) /\ old \in 0..(MaxSize + Overrun)
  /\ cooling \in BOOLEAN /\ dropped \in BOOLEAN /\ failed \in BOOLEAN
  /\ late \in Nat

\* When Close returns, no accepted event is left in the channel, except those of
\* a Record that had passed its check before Close and sent after the goroutine
\* ended ("the window is narrowed, not closed", sink.go:99): one per producer.
DrainedBeforeReturn ==
  loop = "ended" => queue <= late /\ late <= Cardinality(Producers)

\* A rotation that fails, at whichever step, never costs what is logged: audit.log.1
\* only changes by taking over the whole of audit.log, and audit.log only shrinks by
\* that (sink.go:184-186).  Beyond its limit the log only grows while a failed
\* rotation is cooling down.
RotationKeepsLog ==
  [][/\ old' # old \/ size' < size => old' = size /\ size' = 0
     /\ size' > MaxSize /\ size' > size => cooling]_sinkVars

\* Close returns although producers go on recording: the drain comes to an end.
CloseReturns == (closer = "wait") ~> (closer \in {"ok", "error"})
=============================================================================
