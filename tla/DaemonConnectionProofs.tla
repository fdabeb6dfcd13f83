----------------------- MODULE DaemonConnectionProofs -----------------------
(***************************************************************************)
(* One connection for any number of channels, sessions and streams, and    *)
(* any limit on channels: the entries of the shell and the stream map and  *)
(* the goroutines behind them match at every step, although either side    *)
(* may end first, and the peer is told of everything that ends.            *)
(***************************************************************************)
EXTENDS DaemonConnection, TLAPS

-----------------------------------------------------------------------------
(* The shells *)

\* The entry of a channel names a session of that channel whose target is open.
ShellEntry ==
  \A ch \in Channels : shells[ch] # None =>
    LET s == sess[shells[ch]] IN s.chan = ch /\ s.reader = "read" /\ s.target = "open"

\* A session is free, or it belongs to a channel; what this side has closed has no
\* open target; and an open target that is being read is its channel's entry.
SessForm ==
  \A s \in Sessions :
    /\ sess[s].reader = "free" => sess[s] = NoSess
    /\ sess[s].reader # "free" => sess[s].chan \in Channels
    /\ sess[s].byUs => sess[s].target = "closed"
    /\ sess[s].reader = "read" /\ sess[s].target = "open" => shells[sess[s].chan] = s

\* While the main loop opens a shell, the channel has no other.
OpensAlone == loop = "open" => opening \in Channels /\ shells[opening] = None

ShellInv == ShellEntry /\ SessForm /\ OpensAlone

-----------------------------------------------------------------------------
(* The streams *)

\* The entry of a channel names a stream of that channel that has not finished; it
\* is closed only by the watchdog, which starts when the target is open.
StreamEntry ==
  \A ch \in Channels : streams[ch] # None =>
    LET u == strm[streams[ch]] IN
    u.chan = ch /\ u.pc \in {"open", "read"} /\ (u.closed => u.pc = "read")

\* A stream is free, or it belongs to a channel; a target is open only while it is
\* read and not closed; and a stream that is not closed and not finished is its
\* channel's entry.
StreamForm ==
  \A u \in Streams :
    /\ strm[u].pc = "none" => strm[u] = NoStream
    /\ strm[u].pc # "none" => strm[u].chan \in Channels
    /\ strm[u].target = "open" => strm[u].pc = "read" /\ ~strm[u].closed
    /\ strm[u].pc \in {"open", "read"} /\ ~strm[u].closed => streams[strm[u].chan] = u

StreamInv == StreamEntry /\ StreamForm

Inv == TypeOK /\ ShellInv /\ StreamInv

-----------------------------------------------------------------------------
(* What closing takes *)

\* Closing a session changes no other one.
LEMMA ClosedSession ==
  ASSUME TypeOK, NEW s \in Sessions
  PROVE  /\ Closed(s)[s].chan = sess[s].chan /\ Closed(s)[s].reader = sess[s].reader
         /\ Closed(s)[s].byUs /\ Closed(s)[s].target = "closed"
         /\ \A t \in Sessions \ {s} : Closed(s)[t] = sess[t]
         /\ Closed(s) \in [Sessions -> SessRec]
<1>1. sess \in [Sessions -> SessRec]
  BY DEF TypeOK
<1> QED
  BY <1>1 DEF Closed, SessRec

\* Closing a stream leaves its goroutine where it is.
LEMMA ClosedStreamForm ==
  ASSUME NEW u \in Streams, strm[u] \in StreamRec
  PROVE  /\ ClosedStream(u) \in StreamRec
         /\ ClosedStream(u).chan = strm[u].chan /\ ClosedStream(u).pc = strm[u].pc
         /\ ClosedStream(u).closed /\ ClosedStream(u).target # "open"
BY DEF ClosedStream, StreamRec

\* Only the entry of the channel that is torn down goes, with its session.
LEMMA TornDown ==
  ASSUME TypeOK, ShellEntry, NEW ch \in Channels, Teardown(ch)
  PROVE  /\ shells'[ch] = None /\ \A d \in Channels \ {ch} : shells'[d] = shells[d]
         /\ \A s \in Sessions : shells[ch] # s => sess'[s] = sess[s]
         /\ shells[ch] # None =>
              LET s == shells[ch] IN
              /\ sess'[s].chan = ch /\ sess'[s].reader = "read" /\ sess'[s].byUs
              /\ sess'[s].target = "closed"
         /\ shells' \in [Channels -> Sessions \cup {None}] /\ sess' \in [Sessions -> SessRec]
<1>1. shells \in [Channels -> Sessions \cup {None}] /\ sess \in [Sessions -> SessRec]
  BY DEF TypeOK
<1>2. shells'[ch] = None /\ \A d \in Channels \ {ch} : shells'[d] = shells[d]
  BY <1>1 DEF Teardown
<1>3. shells' \in [Channels -> Sessions \cup {None}]
  BY <1>1 DEF Teardown
<1>4. CASE shells[ch] = None
  BY <1>1, <1>2, <1>3, <1>4, DaemonAssumption DEF Teardown
<1>5. CASE shells[ch] # None
  <2>1. shells[ch] \in Sessions /\ sess' = Closed(shells[ch])
    BY <1>1, <1>5 DEF Teardown
  <2>2. sess[shells[ch]].chan = ch /\ sess[shells[ch]].reader = "read"
    BY <1>5 DEF ShellEntry
  <2> QED
    BY <1>2, <1>3, <2>1, <2>2, ClosedSession
<1> QED
  BY <1>4, <1>5

-----------------------------------------------------------------------------
(* Every step keeps the invariant *)

\* A step that does not touch the shells, and does not begin to open one.
LEMMA ShellSame ==
  ASSUME ShellInv, UNCHANGED <<shells, sess>>, loop' # "open" \/ UNCHANGED <<loop, opening>>
  PROVE  ShellInv'
BY DEF ShellInv, ShellEntry, SessForm, OpensAlone

\* A pool that is not used up yields a free member.
LEMMA FreeMember ==
  ASSUME NEW S, S # {}
  PROVE  (CHOOSE t \in S : TRUE) \in S
OBVIOUS

\* The shells match after every step.
LEMMA ShellNext ==
  ASSUME Inv, [Next]_vars
  PROVE  ShellInv' /\ shells' \in [Channels -> Sessions \cup {None}] /\ sess' \in [Sessions -> SessRec]
<1> DEFINE Goal == /\ ShellInv' /\ shells' \in [Channels -> Sessions \cup {None}]
                   /\ sess' \in [Sessions -> SessRec]
<1>0. /\ shells \in [Channels -> Sessions \cup {None}] /\ sess \in [Sessions -> SessRec]
      /\ opening \in Channels \cup {None} /\ ShellInv /\ TypeOK
  BY DEF Inv, TypeOK
<1>1. ASSUME UNCHANGED <<shells, sess>>, loop' # "open" \/ UNCHANGED <<loop, opening>> PROVE Goal
  BY <1>0, <1>1, ShellSame
<1>2. ASSUME NEW ch \in Channels, OpenShell(ch) PROVE Goal
  BY <1>0, <1>2 DEF OpenShell, ShellInv, ShellEntry, SessForm, OpensAlone
<1>3. ASSUME NEW ch \in Channels, ChannelClose(ch) \/ RejectChannel(ch) PROVE Goal
  <2>1. Teardown(ch) /\ loop' = "read"
    BY <1>3 DEF ChannelClose, RejectChannel
  <2>2. ShellEntry'
    BY <1>0, <2>1, TornDown DEF ShellInv, ShellEntry
  <2>3. SessForm'
    <3> SUFFICES ASSUME NEW s \in Sessions
                 PROVE  /\ sess'[s].reader = "free" => sess'[s] = NoSess
                        /\ sess'[s].reader # "free" => sess'[s].chan \in Channels
                        /\ sess'[s].byUs => sess'[s].target = "closed"
                        /\ sess'[s].reader = "read" /\ sess'[s].target = "open" => shells'[sess'[s].chan] = s
      BY DEF SessForm
    <3>1. CASE shells[ch] = s
      <4>1. /\ sess'[s].chan = ch /\ sess'[s].reader = "read" /\ sess'[s].byUs
            /\ sess'[s].target = "closed"
        BY <1>0, <2>1, <3>1, TornDown, DaemonAssumption DEF ShellInv
      <4> QED
        BY <4>1
    <3>2. CASE shells[ch] # s
      <4>1. sess'[s] = sess[s] /\ \A d \in Channels \ {ch} : shells'[d] = shells[d]
        BY <1>0, <2>1, <3>2, TornDown DEF ShellInv
      <4> QED
        BY <1>0, <3>2, <4>1 DEF ShellInv, SessForm
    <3> QED
      BY <3>1, <3>2
  <2> QED
    BY <1>0, <2>1, <2>2, <2>3, TornDown DEF ShellInv, OpensAlone
<1>4. CASE OpenShellSucceeds
  <2> DEFINE free == {s \in Sessions : sess[s] = NoSess}
             s == CHOOSE t \in free : TRUE
  <2>1. s \in free
    BY <1>4, FreeMember DEF OpenShellSucceeds
  <2>2. opening \in Channels /\ shells[opening] = None /\ loop' = "read"
    BY <1>0, <1>4 DEF OpenShellSucceeds, ShellInv, OpensAlone
  <2>3. /\ sess' = [sess EXCEPT ![s] = [chan |-> opening, target |-> "open", byUs |-> FALSE,
                                        reader |-> "read"]]
        /\ shells' = [shells EXCEPT ![opening] = s]
    BY <1>4 DEF OpenShellSucceeds
  <2>4. s \in Sessions /\ sess[s].reader = "free" /\ s # None
    BY <2>1, DaemonAssumption DEF NoSess
  <2> HIDE DEF s, free
  <2>5. /\ sess'[s] = [chan |-> opening, target |-> "open", byUs |-> FALSE, reader |-> "read"]
        /\ \A t \in Sessions \ {s} : sess'[t] = sess[t]
        /\ shells'[opening] = s /\ \A d \in Channels \ {opening} : shells'[d] = shells[d]
    BY <1>0, <2>2, <2>3, <2>4
  <2>6. shells' \in [Channels -> Sessions \cup {None}] /\ sess' \in [Sessions -> SessRec]
    BY <1>0, <2>2, <2>3, <2>4 DEF SessRec
  <2>7. ShellEntry'
    BY <1>0, <2>2, <2>4, <2>5 DEF ShellInv, ShellEntry
  <2>8. SessForm'
    BY <1>0, <2>2, <2>4, <2>5, DaemonAssumption DEF ShellInv, SessForm
  <2> QED
    BY <2>2, <2>6, <2>7, <2>8 DEF ShellInv, OpensAlone
<1>5. ASSUME NEW s \in Sessions, ReaderRemoves(s) PROVE Goal
  <2> DEFINE ch == sess[s].chan
  <2>1. ch \in Channels
    BY <1>0, <1>5 DEF ReaderRemoves, ShellInv, SessForm
  <2>2. /\ sess[s].reader = "read" /\ UNCHANGED <<loop, opening>>
        /\ \A d \in Channels : shells'[d] = IF shells[d] = s THEN None ELSE shells[d]
        /\ \A t \in Sessions \ {s} : sess'[t] = sess[t]
        /\ sess'[s].reader \in {"untrack", "notify"} /\ sess'[s].chan = ch
        /\ sess'[s].byUs = sess[s].byUs /\ sess'[s].target = sess[s].target
        /\ shells' \in [Channels -> Sessions \cup {None}] /\ sess' \in [Sessions -> SessRec]
    <3>1. shells[ch] = s \/ \A d \in Channels : shells[d] # s
      BY <1>0, DaemonAssumption DEF ShellInv, ShellEntry
    <3>2. \A d \in Channels : shells'[d] = IF shells[d] = s THEN None ELSE shells[d]
      BY <1>0, <1>5, <2>1, <3>1, DaemonAssumption DEF ReaderRemoves, ShellInv, ShellEntry
    <3>3. shells' \in [Channels -> Sessions \cup {None}]
      BY <1>0, <1>5, <2>1 DEF ReaderRemoves
    <3> QED
      BY <1>0, <1>5, <3>2, <3>3 DEF ReaderRemoves, SessRec
  <2>3. ShellEntry'
    BY <1>0, <2>2, DaemonAssumption DEF ShellInv, ShellEntry
  <2>4. SessForm'
    BY <1>0, <2>1, <2>2, DaemonAssumption DEF ShellInv, SessForm
  <2> QED
    BY <1>0, <2>2, <2>3, <2>4 DEF ShellInv, OpensAlone
<1>6. ASSUME NEW s \in Sessions, ReaderUntracks(s) \/ ReaderNotifies(s) PROVE Goal
  <2>1. /\ sess[s].reader \in {"untrack", "notify"} /\ UNCHANGED <<shells, loop, opening>>
        /\ \A t \in Sessions \ {s} : sess'[t] = sess[t]
        /\ sess' \in [Sessions -> SessRec]
    <3>1. CASE ReaderUntracks(s)
      BY <1>0, <3>1 DEF ReaderUntracks, SessRec
    <3>2. CASE ReaderNotifies(s)
      <4>1. NoSess \in SessRec
        BY DEF NoSess, SessRec
      <4> QED
        BY <1>0, <3>2, <4>1 DEF ReaderNotifies
    <3> QED
      BY <1>6, <3>1, <3>2
  <2>2. \/ sess'[s] = NoSess
        \/ /\ sess'[s].reader = "notify" /\ sess'[s].chan = sess[s].chan
           /\ sess'[s].byUs = sess[s].byUs /\ sess'[s].target = sess[s].target
    BY <1>0, <1>6 DEF ReaderUntracks, ReaderNotifies, SessRec
  <2>3. ShellEntry'
    BY <1>0, <2>1 DEF ShellInv, ShellEntry
  <2>4. NoSess.reader = "free" /\ NoSess.byUs = FALSE
    BY DEF NoSess
  <2>5. SessForm'
    BY <1>0, <2>1, <2>2, <2>4 DEF ShellInv, SessForm
  <2> QED
    BY <1>0, <2>1, <2>3, <2>5 DEF ShellInv, OpensAlone
<1>7. CASE CloseShells
  <2>1. /\ \A d \in Channels : shells'[d] = None
        /\ loop' = "closed"
        /\ \A s \in Sessions : sess'[s] = IF \E ch \in Channels : shells[ch] = s THEN Closed(s)[s] ELSE sess[s]
    BY <1>7 DEF CloseShells
  <2>2. \A s \in Sessions : Closed(s)[s] \in SessRec
    BY <1>0, ClosedSession
  <2>3. shells' \in [Channels -> Sessions \cup {None}] /\ sess' \in [Sessions -> SessRec]
    BY <1>0, <1>7, <2>2 DEF CloseShells
  <2>4. ShellEntry'
    BY <2>1 DEF ShellEntry
  <2>5. SessForm'
    <3> SUFFICES ASSUME NEW s \in Sessions
                 PROVE  /\ sess'[s].reader = "free" => sess'[s] = NoSess
                        /\ sess'[s].reader # "free" => sess'[s].chan \in Channels
                        /\ sess'[s].byUs => sess'[s].target = "closed"
                        /\ ~(sess'[s].reader = "read" /\ sess'[s].target = "open")
      BY DEF SessForm
    <3>1. CASE \E ch \in Channels : shells[ch] = s
      <4>1. sess[s].reader = "read" /\ sess[s].chan \in Channels
        BY <1>0, <3>1, DaemonAssumption DEF ShellInv, ShellEntry
      <4> QED
        BY <1>0, <2>1, <3>1, <4>1, ClosedSession
    <3>2. CASE ~\E ch \in Channels : shells[ch] = s
      BY <1>0, <2>1, <3>2 DEF ShellInv, SessForm
    <3> QED
      BY <3>1, <3>2
  <2> QED
    BY <2>1, <2>3, <2>4, <2>5 DEF ShellInv, OpensAlone
<1>8. ASSUME \/ Violation \/ AuthNone \/ AuthPublicKey \/ SubmitReturns \/ AuthSignature \/ ReadFails
             \/ OpenShellFails \/ CloseBridges \/ UNCHANGED vars
             \/ \E ch \in Channels : AnsweredFrame(ch) \/ UnityFrame(ch) \/ ShellInput(ch)
             \/ \E u \in Streams : StreamGoesOn(u) \/ Watchdog(u)
      PROVE  Goal
  <2>1. UNCHANGED <<shells, sess>> /\ (loop' # "open" \/ UNCHANGED <<loop, opening>>)
    BY <1>8 DEF Violation, AuthNone, AuthPublicKey, SubmitReturns, AuthSignature, ReadFails,
         OpenShellFails, CloseBridges, vars, chans, AnsweredFrame, UnityFrame, ShellInput,
         StreamGoesOn, Watchdog
  <2> QED
    BY <1>1, <2>1
<1> QED
  BY <1>2, <1>3, <1>4, <1>5, <1>6, <1>7, <1>8 DEF Next, Frame, MainGoesOn, ReaderGoesOn

\* The streams match after every step.
LEMMA StreamNext ==
  ASSUME Inv, [Next]_vars
  PROVE  /\ StreamInv' /\ streams' \in [Channels -> Streams \cup {None}]
         /\ strm' \in [Streams -> StreamRec]
<1> DEFINE Goal == /\ StreamInv' /\ streams' \in [Channels -> Streams \cup {None}]
                   /\ strm' \in [Streams -> StreamRec]
<1>0. /\ streams \in [Channels -> Streams \cup {None}] /\ strm \in [Streams -> StreamRec]
      /\ StreamEntry /\ StreamForm /\ NoStream \in StreamRec
      /\ NoStream.pc = "none" /\ NoStream.target = "none" /\ ~NoStream.closed
  BY DEF Inv, TypeOK, StreamInv, NoStream, StreamRec
<1>1. ASSUME UNCHANGED unity PROVE Goal
  BY <1>0, <1>1 DEF unity, StreamInv, StreamEntry, StreamForm
<1>2. ASSUME NEW ch \in Channels, StartStream(ch) PROVE Goal
  <2> DEFINE free == {v \in Streams : strm[v] = NoStream}
             u == CHOOSE v \in free : TRUE
             rec == [NoStream EXCEPT !.chan = ch, !.pc = "open"]
  <2>1. u \in free
    BY <1>2, FreeMember DEF StartStream
  <2>2. /\ streams[ch] = None /\ streams' = [streams EXCEPT ![ch] = u]
        /\ strm' = [strm EXCEPT ![u] = rec]
    BY <1>2 DEF StartStream
  <2>3. /\ rec \in StreamRec /\ rec.chan = ch /\ rec.pc = "open" /\ rec.target = "none"
        /\ rec.closed = FALSE
    BY DEF NoStream, StreamRec
  <2>4. u \in Streams /\ strm[u] = NoStream /\ u # None
    BY <2>1, UnityAssumption
  <2> HIDE DEF u, free, rec
  <2>5. /\ strm'[u] = rec /\ \A v \in Streams \ {u} : strm'[v] = strm[v]
        /\ streams'[ch] = u /\ \A d \in Channels \ {ch} : streams'[d] = streams[d]
        /\ streams' \in [Channels -> Streams \cup {None}] /\ strm' \in [Streams -> StreamRec]
    BY <1>0, <2>2, <2>3, <2>4
  <2>6. StreamEntry'
    BY <1>0, <2>3, <2>4, <2>5 DEF StreamEntry
  <2>7. StreamForm'
    BY <1>0, <2>2, <2>3, <2>4, <2>5, UnityAssumption DEF StreamForm
  <2> QED
    BY <2>5, <2>6, <2>7 DEF StreamInv
<1>3. ASSUME NEW C \in SUBSET Channels, CloseStreams(C) PROVE Goal
  <2> DEFINE taken == {streams[ch] : ch \in C} \ {None}
  <2>1. /\ \A d \in Channels : streams'[d] = IF d \in C THEN None ELSE streams[d]
        /\ \A u \in Streams : strm'[u] = IF u \in taken THEN ClosedStream(u) ELSE strm[u]
        /\ streams' \in [Channels -> Streams \cup {None}] /\ strm' \in [Streams -> StreamRec]
    BY <1>0, <1>3, ClosedStreamForm DEF CloseStreams
  <2>2. \A u \in Streams : u \in taken => strm[u].chan \in C /\ strm[u].pc \in {"open", "read"}
    BY <1>0 DEF StreamEntry
  <2>3. \A d \in Channels : streams[d] # None /\ d \notin C => streams[d] \notin taken
    BY <1>0 DEF StreamEntry
  <2>4. \A u \in Streams : strm[u].chan \in C /\ streams[strm[u].chan] = u => u \in taken
    BY UnityAssumption
  <2> HIDE DEF taken
  <2>5. StreamEntry'
    BY <1>0, <2>1, <2>3 DEF StreamEntry
  <2>6. StreamForm'
    <3> SUFFICES ASSUME NEW u \in Streams
                 PROVE  /\ strm'[u].pc = "none" => strm'[u] = NoStream
                        /\ strm'[u].pc # "none" => strm'[u].chan \in Channels
                        /\ strm'[u].target = "open" => strm'[u].pc = "read" /\ ~strm'[u].closed
                        /\ strm'[u].pc \in {"open", "read"} /\ ~strm'[u].closed
                             => streams'[strm'[u].chan] = u
      BY DEF StreamForm
    <3>1. CASE u \in taken
      BY <1>0, <2>1, <2>2, <3>1, ClosedStreamForm
    <3>2. CASE u \notin taken
      BY <1>0, <2>1, <2>4, <3>2 DEF StreamForm
    <3> QED
      BY <3>1, <3>2
  <2> QED
    BY <2>1, <2>5, <2>6 DEF StreamInv
<1>4. ASSUME NEW u \in Streams, AttachStream(u) PROVE Goal
  <2>1. /\ strm[u].pc = "open" /\ UNCHANGED streams
        /\ \A v \in Streams \ {u} : strm'[v] = strm[v]
        /\ strm' \in [Streams -> StreamRec]
    BY <1>0, <1>4 DEF AttachStream, StreamRec
  <2>2. \/ strm[u].closed /\ strm'[u] = NoStream
        \/ /\ ~strm[u].closed /\ strm'[u].pc = "read" /\ strm'[u].target = "open"
           /\ strm'[u].chan = strm[u].chan /\ strm'[u].closed = strm[u].closed
    BY <1>0, <1>4 DEF AttachStream, StreamRec
  <2>3. strm[u].closed => \A d \in Channels : streams[d] # u
    BY <1>0, <2>1, UnityAssumption DEF StreamEntry
  <2> QED
    BY <1>0, <2>1, <2>2, <2>3 DEF StreamInv, StreamEntry, StreamForm
<1>5. ASSUME NEW u \in Streams, StreamTimesOut(u) PROVE Goal
  <2>1. /\ strm[u].pc = "read" /\ UNCHANGED streams /\ strm'[u] = ClosedStream(u)
        /\ \A v \in Streams \ {u} : strm'[v] = strm[v]
        /\ strm' \in [Streams -> StreamRec]
    BY <1>0, <1>5, ClosedStreamForm DEF StreamTimesOut
  <2> QED
    BY <1>0, <2>1, ClosedStreamForm DEF StreamInv, StreamEntry, StreamForm
<1>6. ASSUME NEW u \in Streams, FinishStream(u) PROVE Goal
  <2>1. strm[u].pc \in {"open", "read"} /\ strm[u].chan \in Channels
    BY <1>0, <1>6 DEF FinishStream, StreamForm
  <2>2. CASE streams[strm[u].chan] = u
    <3> DEFINE rec == [ClosedStream(u) EXCEPT !.pc = "tell"]
    <3>1. /\ streams' = [streams EXCEPT ![strm[u].chan] = None]
          /\ strm' = [strm EXCEPT ![u] = rec]
      BY <1>6, <2>2 DEF FinishStream
    <3>2. /\ rec \in StreamRec /\ rec.pc = "tell" /\ rec.chan = strm[u].chan
          /\ rec.closed /\ rec.target # "open"
      BY <1>0, ClosedStreamForm DEF StreamRec
    <3> HIDE DEF rec
    <3>3. /\ strm'[u] = rec /\ \A v \in Streams \ {u} : strm'[v] = strm[v]
          /\ \A d \in Channels : streams'[d] = IF d = strm[u].chan THEN None ELSE streams[d]
          /\ streams' \in [Channels -> Streams \cup {None}] /\ strm' \in [Streams -> StreamRec]
      BY <1>0, <2>1, <3>1, <3>2
    <3>4. StreamEntry'
      BY <1>0, <3>3, UnityAssumption DEF StreamEntry
    <3>5. StreamForm'
      BY <1>0, <2>1, <2>2, <3>2, <3>3 DEF StreamForm
    <3> QED
      BY <3>3, <3>4, <3>5 DEF StreamInv
  <2>3. CASE streams[strm[u].chan] # u
    <3>1. /\ strm'[u] = NoStream /\ UNCHANGED streams
          /\ \A v \in Streams \ {u} : strm'[v] = strm[v] /\ strm' \in [Streams -> StreamRec]
      BY <1>0, <1>6, <2>3 DEF FinishStream
    <3>2. strm' \in [Streams -> StreamRec]
      BY <1>0, <1>6, <2>3 DEF FinishStream
    <3>3. \A d \in Channels : streams[d] # u
      BY <1>0, <2>3, UnityAssumption DEF StreamEntry
    <3> QED
      BY <1>0, <3>1, <3>2, <3>3 DEF StreamInv, StreamEntry, StreamForm
  <2> QED
    BY <2>2, <2>3
<1>7. ASSUME NEW u \in Streams, StreamTells(u) PROVE Goal
  <2>1. /\ strm[u].pc = "tell" /\ strm'[u] = NoStream /\ UNCHANGED streams
        /\ \A v \in Streams \ {u} : strm'[v] = strm[v]
        /\ strm' \in [Streams -> StreamRec]
    BY <1>0, <1>7 DEF StreamTells
  <2> QED
    BY <1>0, <2>1 DEF StreamInv, StreamEntry, StreamForm
<1>8. ASSUME \/ Violation \/ AuthNone \/ AuthPublicKey \/ SubmitReturns \/ AuthSignature \/ ReadFails
             \/ OpenShellFails \/ OpenShellSucceeds \/ CloseShells \/ UNCHANGED vars
             \/ \E ch \in Channels : AnsweredFrame(ch) \/ OpenShell(ch) \/ ShellInput(ch)
             \/ \E s \in Sessions : ReaderGoesOn(s)
      PROVE  UNCHANGED unity
  BY <1>8 DEF Violation, AuthNone, AuthPublicKey, SubmitReturns, AuthSignature, ReadFails,
       OpenShellFails, OpenShellSucceeds, CloseShells, vars, AnsweredFrame, OpenShell, ShellInput,
       ReaderGoesOn, ReaderRemoves, ReaderUntracks, ReaderNotifies
<1>9. ASSUME \/ CloseBridges
             \/ \E ch \in Channels : ChannelClose(ch) \/ RejectChannel(ch)
      PROVE  \E C \in SUBSET Channels : CloseStreams(C)
  BY <1>9 DEF CloseBridges, ChannelClose, RejectChannel, Teardown
<1>10. ASSUME \/ \E ch \in Channels : UnityFrame(ch)
              \/ \E u \in Streams : StreamGoesOn(u) \/ Watchdog(u)
       PROVE  Goal
  BY <1>2, <1>4, <1>5, <1>6, <1>7, <1>10 DEF UnityFrame, StreamGoesOn, Watchdog
<1>11. CASE CloseBridges \/ \E ch \in Channels : ChannelClose(ch) \/ RejectChannel(ch)
  BY <1>3, <1>9, <1>11
<1> QED
  BY <1>1, <1>8, <1>10, <1>11 DEF Next, Frame, MainGoesOn

\* The rest of the types.
LEMMA TypeNext ==
  ASSUME Inv, [Next]_vars
  PROVE  /\ phase' \in {"start", "pubkey", "signature", "done"} /\ armed' \in BOOLEAN
         /\ loop' \in {"read", "submit", "open", "end", "wait", "closed"}
         /\ opening' \in Channels \cup {None}
         /\ slots' \in SUBSET Channels /\ told' \in SUBSET Channels
<1> DEFINE Goal == /\ phase' \in {"start", "pubkey", "signature", "done"} /\ armed' \in BOOLEAN
                   /\ loop' \in {"read", "submit", "open", "end", "wait", "closed"}
                   /\ opening' \in Channels \cup {None}
                   /\ slots' \in SUBSET Channels /\ told' \in SUBSET Channels
<1>0. /\ phase \in {"start", "pubkey", "signature", "done"} /\ armed \in BOOLEAN
      /\ loop \in {"read", "submit", "open", "end", "wait", "closed"}
      /\ opening \in Channels \cup {None}
      /\ slots \in SUBSET Channels /\ told \in SUBSET Channels
      /\ SessForm /\ StreamForm
  BY DEF Inv, TypeOK, ShellInv, StreamInv
<1>1. ASSUME \/ Violation \/ AuthNone \/ AuthPublicKey \/ SubmitReturns \/ AuthSignature \/ ReadFails
             \/ OpenShellFails \/ OpenShellSucceeds \/ CloseBridges \/ CloseShells \/ UNCHANGED vars
      PROVE  Goal
  BY <1>0, <1>1 DEF Violation, AuthNone, AuthPublicKey, SubmitReturns, AuthSignature, ReadFails,
       OpenShellFails, OpenShellSucceeds, CloseBridges, CloseShells, vars, chans
<1>2. ASSUME NEW ch \in Channels, Frame(ch) PROVE Goal
  BY <1>0, <1>2 DEF Frame, ChannelClose, RejectChannel, Teardown, AnsweredFrame, OpenShell,
       ShellInput, UnityFrame
<1>3. ASSUME NEW u \in Streams, StreamGoesOn(u) \/ Watchdog(u) PROVE Goal
  BY <1>0, <1>3 DEF StreamGoesOn, Watchdog, StreamTells, StreamForm, chans
<1>4. ASSUME NEW s \in Sessions, ReaderGoesOn(s) PROVE Goal
  BY <1>0, <1>4 DEF ReaderGoesOn, ReaderRemoves, ReaderUntracks, ReaderNotifies, SessForm
<1> QED
  BY <1>1, <1>2, <1>3, <1>4 DEF Next, MainGoesOn

\* A new connection has neither shells nor streams.
LEMMA InitInv == Init => Inv
<1> SUFFICES ASSUME Init PROVE Inv
  OBVIOUS
<1>1. TypeOK
  BY DEF Init, UnityInit, TypeOK, SessRec, NoSess, StreamRec, NoStream
<1>2. ShellInv
  BY DEF Init, ShellInv, ShellEntry, SessForm, OpensAlone, NoSess
<1>3. StreamInv
  BY DEF Init, UnityInit, StreamInv, StreamEntry, StreamForm, NoStream
<1> QED
  BY <1>1, <1>2, <1>3 DEF Inv

\* The invariant is inductive.
LEMMA NextInv == Inv /\ [Next]_vars => Inv'
BY ShellNext, StreamNext, TypeNext DEF Inv, TypeOK

\* It holds at every step of every behaviour.
LEMMA Invariance == Spec => []Inv
<1> QED
  BY InitInv, NextInv, PTL DEF Spec

-----------------------------------------------------------------------------
(* The theorems *)

\* The state of a connection is well-formed.
THEOREM ConnectionTypes == Spec => []TypeOK
<1>1. Inv => TypeOK
  BY DEF Inv
<1> QED
  BY <1>1, Invariance, PTL

\* Entries and targets match, whichever side of a shell or a stream ends first.
THEOREM ConnectionTargetsPaired == Spec => []TargetsPaired
<1>1. Inv => TargetsPaired
  BY DEF Inv, ShellInv, StreamInv, ShellEntry, SessForm, StreamEntry, StreamForm, TargetsPaired
<1> QED
  BY <1>1, Invariance, PTL

\* A step that ends a session or a stream answers it, or leaves it to a goroutine
\* that is going to.
LEMMA EndStep ==
  ASSUME Inv, Next
  PROVE  AnswersTheEnd
<1> SUFFICES ASSUME NEW ch \in Channels, loop' \notin {"wait", "closed"},
                    \/ shells[ch] # None /\ shells'[ch] = None
                    \/ streams[ch] # None /\ streams'[ch] = None
             PROVE  \/ ch \in told'
                    \/ \E s \in Sessions : /\ sess'[s].chan = ch /\ ~sess'[s].byUs
                                           /\ sess'[s].reader \in {"untrack", "notify"}
                    \/ \E u \in Streams : strm'[u].chan = ch /\ strm'[u].pc = "tell"
  BY DEF AnswersTheEnd
<1>0. /\ shells \in [Channels -> Sessions \cup {None}] /\ sess \in [Sessions -> SessRec]
      /\ streams \in [Channels -> Streams \cup {None}] /\ strm \in [Streams -> StreamRec]
      /\ ShellEntry /\ SessForm /\ OpensAlone /\ StreamEntry /\ StreamForm
  BY DEF Inv, TypeOK, ShellInv, StreamInv
<1>1. ASSUME UNCHANGED <<shells, streams>> PROVE FALSE
  BY <1>1
<1>2. ASSUME NEW d \in Channels, ChannelClose(d) \/ RejectChannel(d) PROVE ch \in told'
  <2>1. /\ shells' = [shells EXCEPT ![d] = None] /\ told' = told \cup {d}
        /\ streams' = [e \in Channels |-> IF e \in {d} THEN None ELSE streams[e]]
    BY <1>2 DEF ChannelClose, RejectChannel, Teardown, CloseStreams
  <2> QED
    BY <1>0, <2>1
<1>3. ASSUME OpenShellSucceeds PROVE FALSE
  <2>1. (CHOOSE s \in {t \in Sessions : sess[t] = NoSess} : TRUE) \in {t \in Sessions : sess[t] = NoSess}
    BY <1>3, FreeMember DEF OpenShellSucceeds
  <2>2. /\ UNCHANGED streams /\ opening \in Channels
        /\ shells' = [shells EXCEPT ![opening] = CHOOSE s \in {t \in Sessions : sess[t] = NoSess} : TRUE]
    BY <1>0, <1>3 DEF OpenShellSucceeds, OpensAlone, unity
  <2> QED
    BY <1>0, <2>1, <2>2, DaemonAssumption
<1>4. ASSUME NEW d \in Channels, UnityFrame(d) PROVE FALSE
  <2>1. (CHOOSE u \in {v \in Streams : strm[v] = NoStream} : TRUE) \in {v \in Streams : strm[v] = NoStream}
    BY <1>4, FreeMember DEF UnityFrame, StartStream
  <2>2. /\ UNCHANGED shells
        /\ streams' = [streams EXCEPT ![d] = CHOOSE u \in {v \in Streams : strm[v] = NoStream} : TRUE]
    BY <1>4 DEF UnityFrame, StartStream
  <2> QED
    BY <1>0, <2>1, <2>2, UnityAssumption
<1>5. ASSUME NEW s \in Sessions, ReaderRemoves(s)
      PROVE  sess'[s].chan = ch /\ ~sess'[s].byUs /\ sess'[s].reader \in {"untrack", "notify"}
  <2>1. UNCHANGED streams /\ sess[s].reader = "read" /\ sess[s].chan \in Channels
    BY <1>0, <1>5 DEF ReaderRemoves, unity, SessForm
  <2>2. shells[ch] = s /\ sess[s].chan = ch
    BY <1>0, <1>5, <2>1 DEF ReaderRemoves, ShellEntry
  <2>3. ~sess[s].byUs
    BY <1>0, <2>2, DaemonAssumption DEF ShellEntry, SessForm
  <2>4. sess' = [sess EXCEPT ![s].reader = "untrack"]
    BY <1>5, <2>2 DEF ReaderRemoves
  <2> QED
    BY <1>0, <2>2, <2>3, <2>4 DEF SessRec
<1>6. ASSUME NEW u \in Streams, StreamGoesOn(u) PROVE strm'[u].chan = ch /\ strm'[u].pc = "tell"
  <2>1. UNCHANGED shells /\ FinishStream(u) /\ streams[strm[u].chan] = u
    BY <1>6 DEF StreamGoesOn, AttachStream, StreamTells, FinishStream
  <2>2. strm[u].chan = ch /\ strm' = [strm EXCEPT ![u] = [ClosedStream(u) EXCEPT !.pc = "tell"]]
    BY <1>0, <2>1 DEF FinishStream
  <2> QED
    BY <1>0, <2>2, ClosedStreamForm DEF StreamRec
<1>7. ASSUME \/ Violation \/ AuthNone \/ AuthPublicKey \/ SubmitReturns \/ AuthSignature \/ ReadFails
             \/ OpenShellFails \/ \E d \in Channels : AnsweredFrame(d) \/ OpenShell(d) \/ ShellInput(d)
             \/ \E u \in Streams : Watchdog(u)
             \/ \E s \in Sessions : ReaderUntracks(s) \/ ReaderNotifies(s)
      PROVE  FALSE
  <2>1. UNCHANGED <<shells, streams>>
    BY <1>7 DEF Violation, AuthNone, AuthPublicKey, SubmitReturns, AuthSignature, ReadFails,
         OpenShellFails, chans, unity, AnsweredFrame, OpenShell, ShellInput, Watchdog, StreamTimesOut,
         ReaderUntracks, ReaderNotifies
  <2> QED
    BY <1>1, <2>1
<1>8. ASSUME CloseBridges \/ CloseShells PROVE FALSE
  BY <1>8 DEF CloseBridges, CloseShells
<1> QED
  BY <1>2, <1>3, <1>4, <1>5, <1>6, <1>7, <1>8 DEF Next, Frame, MainGoesOn, ReaderGoesOn

\* The peer is told of every end: the notice survives the race between the read
\* loop, which has taken its session out of the map, and a close that no longer
\* finds it there.
THEOREM ConnectionEndIsTold == Spec => EndIsTold
<1>1. Inv /\ [Next]_vars => [AnswersTheEnd]_vars
  BY EndStep
<1> QED
  BY <1>1, Invariance, PTL DEF Spec, EndIsTold

=============================================================================
