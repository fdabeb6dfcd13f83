---------------------------- MODULE ShellPolicy ----------------------------
(***************************************************************************)
(* The command policy on shell input (internal/policy/shell.go), for text  *)
(* without quotes, escapes and substitutions: how a text is cut into       *)
(* segments, which words of a segment are the commands it runs, and which  *)
(* commands and redirections are denied.  A word is a sequence of letters; *)
(* the sets of words that matter are parameters.  The rules modelled are   *)
(* those that judge one segment by its commands or its redirections; those *)
(* that look at arguments, or relate several segments, are not.            *)
(***************************************************************************)
EXTENDS Naturals, SequencesExt

CONSTANTS
  Letters,    \* what words are made of
  Denied,     \* words that are denied as a command: reboot, poweroff, ...
  Skipped,    \* words before the command: keywords, assignments, env, toybox
  Wrappers,   \* words whose arguments may be commands: nohup, timeout, ...
  Protected   \* words that must not be written to: sensitiveWritePaths

ASSUME PolicyAssumption ==
  /\ Denied \cup Skipped \cup Wrappers \cup Protected \subseteq Seq(Letters)
  /\ Skipped \cap (Denied \cup Wrappers) = {}
  /\ Letters \cap {"space", "semi", "pipe", "redirect", "newline"} = {}

Symbols == Letters \cup {"space", "semi", "pipe", "redirect", "newline"}

\* Mutant: a new line is taken for a space.
Separators_NotNewline == {"semi"}

\* isSegmentSeparator; a pipe is one too, unless it belongs to a redirection.
Separators == {"semi", "newline"}

-----------------------------------------------------------------------------
(* lexShellSegments, one symbol after the other *)

\* A segment, and the scanner: the segments so far, the current one, the current
\* word, and whether the next word is the target of a redirection.
NoSegment == [tokens |-> <<>>, redirects |-> {}]
Start     == [done |-> {}, cur |-> NoSegment, word |-> <<>>, pending |-> FALSE]

FlushToken(s) ==
  IF s.word = <<>> THEN s
  ELSE IF s.pending
  THEN [s EXCEPT !.cur.redirects = @ \cup {s.word}, !.word = <<>>, !.pending = FALSE]
  ELSE [s EXCEPT !.cur.tokens = Append(@, s.word), !.word = <<>>]

FlushSegment(s) ==
  LET t == FlushToken(s) IN [Start EXCEPT !.done = t.done \cup {t.cur}]

Scan(s, v) ==
  CASE v = "pipe"        -> IF s.pending THEN s ELSE FlushSegment(s)
    [] v \in Separators  -> FlushSegment(s)
    [] v = "redirect"    -> [FlushToken(s) EXCEPT !.pending = TRUE]
    [] v \in Letters     -> [s EXCEPT !.word = Append(@, v)]
    [] OTHER             -> FlushToken(s)

\* The scanner after every prefix of the text.
Scanned(text) ==
  LET scanned[i \in 0..Len(text)] == IF i = 0 THEN Start ELSE Scan(scanned[i - 1], text[i])
  IN  scanned

LexShellSegments(text) == FlushSegment(Scanned(text)[Len(text)]).done

\* resolveCommands: the first word that is not skipped and, if it is a wrapper,
\* every word after it.
ResolveCommands(tokens) ==
  LET rest == {i \in DOMAIN tokens : tokens[i] \notin Skipped}
      first == {i \in rest : \A k \in rest : i <= k}
  IN  {tokens[i] : i \in first \cup {j \in DOMAIN tokens : \E i \in first : i < j /\ tokens[i] \in Wrappers}}

\* InspectShell: is the text allowed?
SegmentAllowed(seg) ==
  ResolveCommands(seg.tokens) \cap Denied = {} /\ seg.redirects \cap Protected = {}

InspectShell(text) == \A seg \in LexShellSegments(text) : SegmentAllowed(seg)

-----------------------------------------------------------------------------
(* The reference: the same, said of the positions of one line *)

\* The words of a line: its maximal runs of letters.
WordsOf(line) ==
  {w \in (DOMAIN line) \X (DOMAIN line) :
     /\ w[1] <= w[2] /\ \A i \in w[1]..w[2] : line[i] \in Letters
     /\ w[1] = 1 \/ line[w[1] - 1] \notin Letters
     /\ w[2] = Len(line) \/ line[w[2] + 1] \notin Letters}

TextOf(line, w) == SubSeq(line, w[1], w[2])

\* Position i is right behind a redirection, but for spaces and pipes.
BehindRedirect(line, i) ==
  \E r \in 1..(i - 1) : line[r] = "redirect" /\ \A k \in (r + 1)..(i - 1) : line[k] \in {"space", "pipe"}

\* A command ends at a semicolon, and at a pipe that belongs to no redirection.
EndsCommand(line, k) == line[k] = "semi" \/ (line[k] = "pipe" /\ ~BehindRedirect(line, k))

SameCommand(line, i, j) == \A k \in i..j : ~EndsCommand(line, k)

\* The words before w in its command that are not targets of redirections.
Before(line, w) ==
  {v \in WordsOf(line) : v[2] < w[1] /\ SameCommand(line, v[2], w[1]) /\ ~BehindRedirect(line, v[1])}

IsHead(line, w) == \A v \in Before(line, w) : TextOf(line, v) \in Skipped

\* A line is forbidden if a word of it runs a denied command, as the command or
\* through a wrapper, or names a protected place that a redirection writes to.
ForbiddenWord(line, w) ==
  IF BehindRedirect(line, w[1]) THEN TextOf(line, w) \in Protected
  ELSE /\ TextOf(line, w) \in Denied
       /\ \/ IsHead(line, w)
          \/ \E v \in Before(line, w) : TextOf(line, v) \in Wrappers /\ IsHead(line, v)

Forbidden(line) == \E w \in WordsOf(line) : ForbiddenWord(line, w)

\* A pipe that touches the word a redirection writes to: the scanner, which asks
\* whether a redirection still waits for its word to end, takes it for part of >|.
\* The reference says nothing about such a line.
Glued(line) ==
  \E w \in WordsOf(line) : BehindRedirect(line, w[1]) /\ w[2] < Len(line) /\ line[w[2] + 1] = "pipe"

\* The lines of a text, each from its first position to the one after its last; the
\* last line need not be complete.
Bounds(text) ==
  {p \in (1..(Len(text) + 1)) \X (1..(Len(text) + 1)) :
     /\ p[1] <= p[2] /\ \A k \in p[1]..(p[2] - 1) : text[k] # "newline"
     /\ p[1] = 1 \/ text[p[1] - 1] = "newline"
     /\ p[2] = Len(text) + 1 \/ text[p[2]] = "newline"}

LinesOf(text) == {SubSeq(text, p[1], p[2] - 1) : p \in Bounds(text)}
=============================================================================
