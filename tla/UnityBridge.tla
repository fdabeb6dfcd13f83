---------------------------- MODULE UnityBridge ----------------------------
(***************************************************************************)
(* The unity family of one connection (internal/bridge/unity.go): a stream *)
(* is a goroutine that opens a target for a command such as hilog and      *)
(* forwards its output.  The operators are what the bridge's operations    *)
(* and the goroutine do to the bridge's state; the connection that extends *)
(* this module says when they happen and what the peer is told.            *)
(***************************************************************************)
EXTENDS Naturals, FiniteSets

CONSTANTS
  Channels,  \* channel IDs the peer uses
  Streams,   \* pool of streams
  None

ASSUME UnityAssumption == None \notin Channels \cup Streams

VARIABLES
  streams,  \* the bridge's map: the stream of a channel, or None
  strm      \* the streams and their goroutines

unity == <<streams, strm>>

StreamRec == [chan: Channels \cup {None}, pc: {"none", "open", "read", "tell"},
              target: {"none", "open", "closed"}, closed: BOOLEAN]
NoStream  == [chan |-> None, pc |-> "none", target |-> "none", closed |-> FALSE]

UnityInit == streams = [ch \in Channels |-> None] /\ strm = [u \in Streams |-> NoStream]

\* unityStream.close: closeOnce, and the target if it was attached.
ClosedStream(u) ==
  [strm[u] EXCEPT !.closed = TRUE, !.target = IF @ = "open" THEN "closed" ELSE @]

\* Handle, of a channel without a stream.  Any free stream of the pool will do.
StartStream(ch) ==
  LET free == {u \in Streams : strm[u] = NoStream}  u == CHOOSE v \in free : TRUE IN
  /\ streams[ch] = None /\ free # {}
  /\ streams' = [streams EXCEPT ![ch] = u]
  /\ strm' = [strm EXCEPT ![u] = [NoStream EXCEPT !.chan = ch, !.pc = "open"]]

\* CloseChannel and Close: take the streams of the channels C out and close them.
CloseStreams(C) ==
  LET taken == {streams[ch] : ch \in C} \ {None} IN
  /\ streams' = [ch \in Channels |-> IF ch \in C THEN None ELSE streams[ch]]
  /\ strm' = [u \in Streams |-> IF u \in taken THEN ClosedStream(u) ELSE strm[u]]

\* openTarget and attachTarget: a stream that was closed meanwhile ends here.
AttachStream(u) ==
  /\ strm[u].pc = "open"
  /\ strm' = [strm EXCEPT ![u] = IF @.closed THEN NoStream ELSE [@ EXCEPT !.pc = "read", !.target = "open"]]
  /\ UNCHANGED streams

\* The timeout passes or the connection ends: the watchdog closes the stream.
StreamTimesOut(u) ==
  /\ strm[u].pc = "read" /\ strm[u].target = "open"
  /\ strm' = [strm EXCEPT ![u] = ClosedStream(u)]
  /\ UNCHANGED streams

\* Mutant: the channel's stream is removed, whichever it is.
FinishStream_Any(u) ==
  /\ strm[u].pc \in {"open", "read"}
  /\ streams' = [streams EXCEPT ![strm[u].chan] = None]
  /\ strm' = [strm EXCEPT ![u] = [ClosedStream(u) EXCEPT !.pc = "tell"]]

\* openTarget fails, the output ends or the peer cannot be written to:
\* finishStream, if the stream is still the channel's, closes it and goes on to
\* tell the peer.
FinishStream(u) ==
  LET ch == strm[u].chan IN
  /\ strm[u].pc \in {"open", "read"}
  /\ IF streams[ch] = u
     THEN /\ streams' = [streams EXCEPT ![ch] = None]
          /\ strm' = [strm EXCEPT ![u] = [ClosedStream(u) EXCEPT !.pc = "tell"]]
     ELSE strm' = [strm EXCEPT ![u] = NoStream] /\ UNCHANGED streams

\* The last write of finishStream, after which the goroutine ends.
StreamTells(u) ==
  /\ strm[u].pc = "tell"
  /\ strm' = [strm EXCEPT ![u] = NoStream]
  /\ UNCHANGED streams
=============================================================================
