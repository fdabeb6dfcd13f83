----------------------------- MODULE ShellGuard -----------------------------
(***************************************************************************)
(* The guard on interactive shell input (handleShell, appendShellInput,    *)
(* removeShell and stopShell in gateway.go) on one channel.  Input comes   *)
(* in frames that cut lines anywhere.  The guard keeps the unfinished line *)
(* of the channel, judges it together with the new frame, and passes the   *)
(* frame on to the device only if that is allowed.                         *)
(*                                                                         *)
(* The main loop looks the session up, then appends, judges and writes;    *)
(* the read loop of the session may remove it at any point, when the       *)
(* device ends the shell.                                                  *)
(***************************************************************************)
EXTENDS ShellPolicy

CONSTANTS
  GuardLimit,    \* shellInputGuardLimit
  InspectLimit,  \* shellInputInspectLimit
  MaxFrame       \* bound: symbols in a frame

ASSUME GuardAssumption == GuardLimit \in Nat \ {0} /\ InspectLimit \in Nat /\ MaxFrame \in Nat \ {0}

VARIABLES
  shell,  \* has the channel a session?
  input,  \* shellInput: the text kept for the channel
  frame,  \* the frame the main loop handles, or <<>>
  line,   \* history: what the device has of the current line, its last GuardLimit symbols
  long,   \* history: the current line is longer than that
  stale,  \* history: input was kept after its session had ended, and is still there
  ran     \* history: a forbidden line has reached the device, whole before the guard

vars == <<shell, input, frame, line, long, stale, ran>>

Init ==
  /\ shell = FALSE /\ input = <<>> /\ frame = <<>>
  /\ line = <<>> /\ long = FALSE /\ stale = FALSE /\ ran = FALSE

Frames == UNION {[1..n -> Symbols] : n \in 1..MaxFrame}

\* The line of a text that has not been ended.
Unfinished(text) == SubSeq(text, SelectLastInSeq(text, LAMBDA v : v = "newline") + 1, Len(text))

LastSymbols(text, n) == IF Len(text) > n THEN SubSeq(text, Len(text) - n + 1, Len(text)) ELSE text

\* openShell, on a channel that has no session.  The kept input is left alone.
OpenShell ==
  /\ frame = <<>> /\ ~shell
  /\ shell' = TRUE /\ line' = <<>> /\ long' = FALSE
  /\ UNCHANGED <<input, frame, stale, ran>>

\* ShellData, or UnityExecute on a channel with a session, as far as getShell.
ReceiveInput(f) ==
  /\ frame = <<>> /\ shell
  /\ frame' = f
  /\ UNCHANGED <<shell, input, line, long, stale, ran>>

\* Mutant: a frame is judged on its own.
Retained_Nothing(text) == <<>>

\* What appendShellInput keeps of the text: the unfinished line, or its end.
Retained(text) == LastSymbols(Unfinished(text), GuardLimit)

TooLarge == Len(input) + Len(frame) > InspectLimit
Guarded  == input \o frame

\* The frame is too large or denied: rejectChannel, which ends in stopShell.
RejectInput ==
  /\ frame # <<>> /\ (TooLarge \/ ~InspectShell(Guarded))
  /\ shell' = FALSE /\ input' = <<>> /\ frame' = <<>> /\ stale' = FALSE
  /\ UNCHANGED <<line, long, ran>>

\* The device takes a frame: its current line, and the lines that it now has whole.
NewLines(f) ==
  LET text == line \o f
      first == SelectInSeq(text, LAMBDA v : v = "newline")
  IN  IF ~long /\ ~stale THEN LinesOf(text)
      ELSE IF first = 0 THEN {} ELSE LinesOf(SubSeq(text, first + 1, Len(text)))

\* The frame is allowed: appendShellInput keeps its part and the target gets the
\* frame, unless the session has ended since getShell: then the write fails.
PassInput ==
  LET now == Unfinished(line \o frame)
      fresh == \E i \in DOMAIN frame : frame[i] = "newline"
  IN
  /\ frame # <<>> /\ ~TooLarge /\ InspectShell(Guarded)
  /\ input' = Retained(Guarded) /\ frame' = <<>>
  /\ IF shell
     THEN /\ line' = LastSymbols(now, GuardLimit)
          /\ long' = (Len(now) > GuardLimit \/ (long /\ ~fresh))
          /\ ran' = (ran \/ \E l \in NewLines(frame) : ~Glued(l) /\ Forbidden(l))
          /\ stale' = (stale /\ ~fresh)
     ELSE stale' = (input' # <<>>) /\ UNCHANGED <<line, long, ran>>
  /\ UNCHANGED shell

\* The device ends the shell: removeShell, in its read loop.
RemoveShell ==
  /\ shell
  /\ shell' = FALSE /\ input' = <<>> /\ stale' = FALSE
  /\ UNCHANGED <<frame, line, long, ran>>

\* The peer closes the channel: stopShell, in the main loop.
StopShell ==
  /\ frame = <<>>
  /\ shell' = FALSE /\ input' = <<>> /\ stale' = FALSE
  /\ UNCHANGED <<frame, line, long, ran>>

Next ==
  \/ OpenShell \/ RejectInput \/ PassInput \/ RemoveShell \/ StopShell
  \/ \E f \in Frames : ReceiveInput(f)

Spec == Init /\ [][Next]_vars

-----------------------------------------------------------------------------
TypeOK ==
  /\ shell \in BOOLEAN /\ long \in BOOLEAN /\ stale \in BOOLEAN /\ ran \in BOOLEAN
  /\ input \in Seq(Symbols) /\ Len(input) <= GuardLimit
  /\ frame \in Frames \cup {<<>>}
  /\ line \in Seq(Symbols) /\ Len(line) <= GuardLimit

\* The scanner judges a text as what it is: a sequence of lines, each of which is
\* allowed or forbidden by itself, whatever words, pipes and redirections meet at
\* the ends of lines and where the kept input meets the frame.  Lines with a pipe
\* glued to the word of a redirection are left out.
JudgedByLine ==
  frame # <<>> /\ ~TooLarge /\ (\A l \in LinesOf(Guarded) : ~Glued(l)) =>
    (InspectShell(Guarded) <=> \A l \in LinesOf(Guarded) : ~Forbidden(l))

\* However a line is cut into frames, no forbidden one reaches the device, as long
\* as what the device had of it before fits the guard and the session began with no
\* input kept for it (and no pipe is glued to the word of a redirection).
NoForbiddenLine == ~ran
=============================================================================
