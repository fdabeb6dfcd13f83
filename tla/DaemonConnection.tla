-------------------------- MODULE DaemonConnection --------------------------
(***************************************************************************)
(* One accepted tconn connection (daemonConnection in gateway.go and       *)
(* handshake.go): the multi-round host key handshake, the routing of       *)
(* frames, the per-connection limit on channels and the shell sessions.    *)
(*                                                                         *)
(* The main loop is one goroutine: it handles a frame to its end before it *)
(* reads the next, and blocks in Submit and in OpenTarget.  Every shell    *)
(* session has a goroutine of its own (readLoop) that forwards the output  *)
(* of the device and cleans up when the device side ends; its steps        *)
(* interleave with the main loop's.  A frame is a choice of the peer; what *)
(* policy, device and target answer is nondeterministic.  Of the bridges   *)
(* the unity one, whose streams share the channels with the shells, is     *)
(* composed here; the file, app and forward bridges have modules of their  *)
(* own, and a frame for them only takes its slot.                          *)
(***************************************************************************)
EXTENDS UnityBridge

CONSTANTS
  Sessions,     \* pool of shell sessions
  MaxChannels   \* cfg.MaxChannelsPerConnection

ASSUME DaemonAssumption == MaxChannels \in Nat \ {0} /\ None \notin Sessions

VARIABLES
  phase,     \* authPhase; handshakeAccepted is phase = "done"
  armed,     \* is a read deadline set?
  loop,      \* what the main loop is doing
  opening,   \* the channel it opens a shell on, or None
  slots,     \* openChannels
  shells,    \* shells: the current session of a channel, or None
  sess,      \* the sessions and their read loops
  told       \* channels whose work the peer was told has ended, and has not used since

chans == <<slots, shells, sess, told>>
vars  == <<phase, armed, loop, opening, chans, unity>>

SessRec == [chan: Channels \cup {None}, target: {"none", "open", "closed"}, byUs: BOOLEAN,
            reader: {"free", "read", "untrack", "notify"}]
NoSess == [chan |-> None, target |-> "none", byUs |-> FALSE, reader |-> "free"]

Init ==
  /\ phase = "start" /\ armed = TRUE
  /\ loop = "read" /\ opening = None
  /\ slots = {} /\ told = {}
  /\ shells = [ch \in Channels |-> None]
  /\ sess = [s \in Sessions |-> NoSess]
  /\ UnityInit

Accepted == phase = "done"

-----------------------------------------------------------------------------
(* Handshake: NONE, PUBLICKEY, SIGNATURE, each a frame of the main loop *)

\* A frame out of order, malformed or too early: answer and end the connection.
Violation ==
  /\ loop = "read"
  /\ loop' = "end"
  /\ UNCHANGED <<phase, armed, opening, chans, unity>>

AuthNone ==
  /\ loop = "read" /\ phase = "start"
  /\ \/ phase' = "pubkey" /\ UNCHANGED loop
     \/ loop' = "end" /\ UNCHANGED phase        \* the client's version is too old
  /\ UNCHANGED <<armed, opening, chans, unity>>

\* The host is trusted, or authorisation is off: send the challenge.  Otherwise
\* clear the read deadline and block in Submit.
AuthPublicKey ==
  /\ loop = "read" /\ phase = "pubkey"
  /\ \/ phase' = "signature" /\ UNCHANGED <<armed, loop>>
     \/ loop' = "submit" /\ armed' = FALSE /\ UNCHANGED phase
  /\ UNCHANGED <<opening, chans, unity>>

\* Mutant: the deadline stays off after the operator's decision.
SubmitReturns_NotRearmed ==
  /\ loop = "submit"
  /\ \/ phase' = "signature" /\ loop' = "read"
     \/ loop' = "end" /\ UNCHANGED phase
  /\ UNCHANGED <<armed, opening, chans, unity>>

\* Submit returns: set the deadline again; go on if the operator allowed it.
\* It returns an error only for an empty fingerprint, which no parsed key has.
SubmitReturns ==
  /\ loop = "submit"
  /\ armed' = TRUE
  /\ \/ phase' = "signature" /\ loop' = "read"
     \/ loop' = "end" /\ UNCHANGED phase
  /\ UNCHANGED <<opening, chans, unity>>

\* A wrong signature is answered, and the peer may try again.
AuthSignature ==
  /\ loop = "read" /\ phase = "signature"
  /\ \/ phase' = "done" /\ armed' = FALSE
     \/ UNCHANGED <<phase, armed>>
  /\ UNCHANGED <<loop, opening, chans, unity>>

\* The read deadline passes, the peer hangs up or the socket is closed under it.
ReadFails ==
  /\ loop = "read"
  /\ loop' = "end"
  /\ UNCHANGED <<phase, armed, opening, chans, unity>>

-----------------------------------------------------------------------------
(* Channels *)

\* admitChannel: a channel keeps its slot, a new one takes one if there is any.
Admitted(ch) == ch \in slots \/ Cardinality(slots) < MaxChannels

\* What route does before it dispatches a frame.
Route(ch) == loop = "read" /\ Accepted /\ Admitted(ch)

Closed(s) == [sess EXCEPT ![s].byUs = TRUE, ![s].target = "closed"]

\* teardownChannel: the slot, the shell and the stream.
Teardown(ch) ==
  /\ slots' = slots \ {ch}
  /\ shells' = [shells EXCEPT ![ch] = None]
  /\ sess' = IF shells[ch] = None THEN sess ELSE Closed(shells[ch])
  /\ CloseStreams({ch})

\* The peer closes the channel, before or after the handshake.
ChannelClose(ch) ==
  /\ loop = "read"
  /\ Teardown(ch)
  /\ told' = told \cup {ch}
  /\ UNCHANGED <<phase, armed, loop, opening>>

\* Mutant: the channel is torn down without an answer.
RejectChannel_Silent(ch) ==
  /\ loop = "read" /\ Accepted
  /\ Teardown(ch)
  /\ UNCHANGED <<phase, armed, loop, opening, told>>

\* rejectChannel: the frame's family is forbidden, or input to a shell is.
RejectChannel(ch) ==
  /\ loop = "read" /\ Accepted
  /\ Teardown(ch)
  /\ told' = told \cup {ch}
  /\ UNCHANGED <<phase, armed, loop, opening>>

\* A frame that ends where it is answered: keepalive, echo and check frames, an
\* unknown one, a shell frame without a session, a command that policy denies, a
\* request a bridge refuses.  The channel keeps the slot.  Over the limit a frame is
\* answered with a close and has none.
AnsweredFrame(ch) ==
  /\ Route(ch)
  /\ slots' = slots \cup {ch}
  /\ UNCHANGED <<phase, armed, loop, opening, shells, sess, told, unity>>

\* A unity frame on a channel without a stream starts one.
UnityFrame(ch) ==
  /\ Route(ch) /\ StartStream(ch)
  /\ slots' = slots \cup {ch} /\ told' = told \ {ch}
  /\ UNCHANGED <<phase, armed, loop, opening, shells, sess>>

\* The goroutine of a stream, whose last step tells the peer.
StreamGoesOn(u) ==
  /\ \/ (AttachStream(u) \/ FinishStream(u)) /\ UNCHANGED told
     \/ StreamTells(u) /\ told' = told \cup {strm[u].chan}
  /\ UNCHANGED <<phase, armed, loop, opening, slots, shells, sess>>

Watchdog(u) == StreamTimesOut(u) /\ UNCHANGED <<phase, armed, loop, opening, chans>>

-----------------------------------------------------------------------------
(* Shells *)

\* ShellInit, or a permitted command on a channel without a session: the main
\* loop blocks in OpenTarget.  With a session, ShellInit changes nothing.
OpenShell(ch) ==
  /\ Route(ch) /\ shells[ch] = None
  /\ slots' = slots \cup {ch} /\ told' = told \ {ch}
  /\ loop' = "open" /\ opening' = ch
  /\ UNCHANGED <<phase, armed, shells, sess, unity>>

\* Any free session of the pool will do.
OpenShellSucceeds ==
  LET free == {s \in Sessions : sess[s] = NoSess}  s == CHOOSE t \in free : TRUE IN
  /\ loop = "open" /\ free # {}
  /\ sess' = [sess EXCEPT ![s] = [chan |-> opening, target |-> "open", byUs |-> FALSE,
                                  reader |-> "read"]]
  /\ shells' = [shells EXCEPT ![opening] = s]
  /\ loop' = "read" /\ opening' = None
  /\ UNCHANGED <<phase, armed, slots, told, unity>>

\* The device is offline or the target refuses: the main loop answers the error.
OpenShellFails ==
  /\ loop = "open"
  /\ loop' = "read" /\ opening' = None
  /\ UNCHANGED <<phase, armed, chans, unity>>

\* Input for a session takes its slot again, if it has lost it.
ShellInput(ch) ==
  /\ Route(ch) /\ shells[ch] # None
  /\ slots' = slots \cup {ch}
  /\ UNCHANGED <<phase, armed, loop, opening, shells, sess, told, unity>>

\* readLoop ends, by the device or because the target was closed.  removeShell,
\* first half: under shellMu, is this session still the channel's?
ReaderRemoves(s) ==
  LET ch == sess[s].chan  current == shells[ch] = s IN
  /\ sess[s].reader = "read"
  /\ shells' = IF current THEN [shells EXCEPT ![ch] = None] ELSE shells
  /\ sess' = [sess EXCEPT ![s].reader = IF current THEN "untrack" ELSE "notify"]
  /\ UNCHANGED <<phase, armed, loop, opening, slots, told, unity>>

\* removeShell, second half: release the slot, under another lock.
ReaderUntracks(s) ==
  /\ sess[s].reader = "untrack"
  /\ slots' = slots \ {sess[s].chan}
  /\ sess' = [sess EXCEPT ![s].reader = "notify"]
  /\ UNCHANGED <<phase, armed, loop, opening, shells, told, unity>>

\* Tell the peer unless this side closed the session, and close the target.
ReaderNotifies(s) ==
  /\ sess[s].reader = "notify"
  /\ told' = IF sess[s].byUs THEN told ELSE told \cup {sess[s].chan}
  /\ sess' = [sess EXCEPT ![s] = NoSess]
  /\ UNCHANGED <<phase, armed, loop, opening, slots, shells, unity>>

-----------------------------------------------------------------------------
(* The end of the connection *)

\* close: cancel the context and close the bridges ...
CloseBridges ==
  /\ loop = "end"
  /\ loop' = "wait"
  /\ CloseStreams(Channels)
  /\ UNCHANGED <<phase, armed, opening, chans>>

\* ... wait for their goroutines, then take every session out, close it and close
\* the socket.
CloseShells ==
  /\ loop = "wait" /\ \A u \in Streams : strm[u] = NoStream
  /\ loop' = "closed"
  /\ shells' = [ch \in Channels |-> None]
  /\ sess' = [s \in Sessions |-> IF \E ch \in Channels : shells[ch] = s
                                 THEN Closed(s)[s] ELSE sess[s]]
  /\ UNCHANGED <<phase, armed, opening, slots, told, unity>>

MainGoesOn ==
  \/ SubmitReturns \/ OpenShellFails \/ OpenShellSucceeds
  \/ CloseBridges \/ CloseShells

ReaderGoesOn(s) == ReaderRemoves(s) \/ ReaderUntracks(s) \/ ReaderNotifies(s)

Frame(ch) ==
  \/ ChannelClose(ch) \/ RejectChannel(ch) \/ AnsweredFrame(ch) \/ OpenShell(ch) \/ ShellInput(ch)
  \/ UnityFrame(ch)

Next ==
  \/ AuthNone \/ AuthPublicKey \/ AuthSignature \/ Violation \/ ReadFails \/ MainGoesOn
  \/ \E ch \in Channels : Frame(ch)
  \/ \E u \in Streams : StreamGoesOn(u) \/ Watchdog(u)
  \/ \E s \in Sessions : ReaderGoesOn(s)

Spec == Init /\ [][Next]_vars

(***************************************************************************)
(* A set deadline passes; Submit has its own timer, OpenTarget and streams *)
(* their timeouts; reading a closed target fails, a write to the peer ends *)
(* and goroutines run on.  Nothing is assumed about what the peer sends.   *)
(***************************************************************************)
Fairness ==
  /\ WF_vars(armed /\ ReadFails) /\ WF_vars(MainGoesOn)
  /\ \A u \in Streams : /\ WF_vars((strm[u].pc = "read" => strm[u].closed) /\ StreamGoesOn(u))
                        /\ WF_vars(Watchdog(u))
  /\ \A s \in Sessions : WF_vars((sess[s].reader = "read" => sess[s].target = "closed") /\ ReaderGoesOn(s))

FairSpec == Spec /\ Fairness

-----------------------------------------------------------------------------
\* The state is well-formed: the main loop only ever answers on a channel it has.
TypeOK ==
  /\ phase \in {"start", "pubkey", "signature", "done"}
  /\ armed \in BOOLEAN
  /\ loop \in {"read", "submit", "open", "end", "wait", "closed"}
  /\ opening \in Channels \cup {None}
  /\ slots \in SUBSET Channels /\ told \in SUBSET Channels
  /\ shells \in [Channels -> Sessions \cup {None}]
  /\ sess \in [Sessions -> SessRec]
  /\ streams \in [Channels -> Streams \cup {None}] /\ strm \in [Streams -> StreamRec]

\* Entries and targets match.  What a channel's entry names is alive and the channel's
\* own: a shell session with an open target and a running read loop, a stream whose
\* goroutine has not finished; the clean-up of an older one never leaves a dead entry,
\* which would refuse every later request on the channel.  And every open target is
\* its channel's current session or stream, or its read loop has ended already: none
\* outlives its channel or is lost to the clean-up of an older one.
TargetsPaired ==
  /\ \A ch \in Channels :
       /\ shells[ch] # None =>
            LET s == sess[shells[ch]] IN s.chan = ch /\ s.reader = "read" /\ s.target = "open"
       /\ streams[ch] # None =>
            LET u == strm[streams[ch]] IN u.chan = ch /\ u.pc \in {"open", "read"}
  /\ \A s \in Sessions : sess[s].reader = "read" /\ sess[s].target = "open" => shells[sess[s].chan] = s
  /\ \A u \in Streams : strm[u].target = "open" => streams[strm[u].chan] = u

\* What an end in this step is answered with.
AnswersTheEnd ==
  \A ch \in Channels :
    /\ loop' \notin {"wait", "closed"}
    /\ \/ shells[ch] # None /\ shells'[ch] = None
       \/ streams[ch] # None /\ streams'[ch] = None
    => \/ ch \in told'
       \/ \E s \in Sessions : /\ sess'[s].chan = ch /\ ~sess'[s].byUs
                             /\ sess'[s].reader \in {"untrack", "notify"}
       \/ \E u \in Streams : strm'[u].chan = ch /\ strm'[u].pc = "tell"

\* A peer always learns that work of its has ended: a session or a stream that
\* leaves a channel is answered in the same step, or its goroutine, which has not
\* been silenced by close, is about to (the end of the connection tells it all).
EndIsTold == [][AnswersTheEnd]_vars

\* A connection serves or it is gone.  The handshake comes to its end however the
\* peer spends its time, so that nobody holds a place under MaxConnections without
\* having signed; and so does close, although it waits for goroutines that may be
\* opening a target or blocked reading one, and the read loops of the shells, for
\* which it does not wait.
ServesOrEnds ==
  []<>(\/ Accepted /\ loop \in {"read", "open"}
       \/ /\ loop = "closed"
          /\ \A u \in Streams : strm[u] = NoStream
          /\ \A s \in Sessions : sess[s] = NoSess)
=============================================================================
