-------------------------- MODULE ShellGuardProofs --------------------------
(***************************************************************************)
(* The scanner of lexShellSegments against the reference, for texts of any *)
(* length and any sets of words, and the guard on interactive input, for   *)
(* any limits, frames and interleavings.  The scanner is proved symbol by  *)
(* symbol: after every prefix of a line it knows the words of the line so  *)
(* far as the reference tells them by position.  Induction on positions    *)
(* goes by the least position at which a fact could fail.                  *)
(***************************************************************************)
EXTENDS ShellGuard, SequenceTheorems, WellFoundedInduction, TLAPS

-----------------------------------------------------------------------------
(* Induction on the positions of a text *)

\* Every set of natural numbers that is not empty has a least member.
LEMMA LeastNat ==
  ASSUME NEW T \in SUBSET Nat, T # {}
  PROVE  \E x \in T : \A y \in T : x <= y
<1> DEFINE Less == {ss \in Nat \X Nat : ss[1] < ss[2]}
<1>1. IsWellFoundedOn(Less, Nat)
  BY NatLessThanWellFounded DEF OpToRel
<1> HIDE DEF Less
<1>2. PICK x \in T : \A y \in T : <<y, x>> \notin Less
  BY <1>1, WFMin
<1>3. \A y \in T : ~(y < x)
  BY <1>2 DEF Less
<1> QED
  BY <1>3

\* What holds of 0 and passes from every number below n to the next one holds
\* up to n.
LEMMA UpTo ==
  ASSUME NEW n \in Nat, NEW S, 0 \in S, \A i \in 0..(n - 1) : i \in S => i + 1 \in S
  PROVE  0..n \subseteq S
<1> DEFINE T == (0..n) \ S
<1> SUFFICES ASSUME T # {} PROVE FALSE
  OBVIOUS
<1>0. T \in SUBSET Nat
  OBVIOUS
<1>1. PICK x \in T : \A y \in T : x <= y
  <2> HIDE DEF T
  <2> QED
    BY <1>0, LeastNat
<1>2. x # 0 /\ x - 1 \in 0..(n - 1) /\ x - 1 \notin T
  BY <1>1
<1> QED
  BY <1>1, <1>2

\* The recursive function of Scanned exists: the scanner starts in Start, and
\* every symbol takes it from the state before the symbol to the state after.
LEMMA ScannedStates ==
  ASSUME NEW text \in Seq(Symbols)
  PROVE  /\ Scanned(text)[0] = Start
         /\ \A i \in 1..Len(text) : Scanned(text)[i] = Scan(Scanned(text)[i - 1], text[i])
<1> DEFINE N == Len(text)
           Def(f) == [i \in 0..N |-> IF i = 0 THEN Start ELSE Scan(f[i - 1], text[i])]
           Runs(f, n) == f[0] = Start /\ \A i \in 1..n : f[i] = Scan(f[i - 1], text[i])
           S == {n \in 0..N : \E f : Runs(f, n)}
<1>0. N \in Nat
  OBVIOUS
<1>1. 0 \in S
  <2>1. Runs([i \in {0} |-> Start], 0)
    OBVIOUS
  <2> HIDE DEF Runs
  <2> QED
    BY <1>0, <2>1
<1>2. ASSUME NEW n \in 0..(N - 1), n \in S PROVE n + 1 \in S
  <2>1. PICK f : Runs(f, n)
    BY <1>2
  <2> DEFINE g == [i \in 0..(n + 1) |-> IF i = n + 1 THEN Scan(f[n], text[n + 1]) ELSE f[i]]
  <2>2. Runs(g, n + 1)
    BY <1>0, <2>1
  <2> HIDE DEF Runs, g
  <2> QED
    BY <1>0, <2>2
<1>3. N \in S
  <2> HIDE DEF S, N
  <2>1. 0..N \subseteq S
    BY <1>0, <1>1, <1>2, UpTo
  <2> QED
    BY <1>0, <2>1
<1>4. PICK f : Runs(f, N)
  BY <1>3
<1> DEFINE g == [i \in 0..N |-> f[i]]
<1>5. g = Def(g)
  BY <1>0, <1>4
<1>6. \E h : h = Def(h)
  BY <1>5
<1>7. Scanned(text) = Def(Scanned(text))
  <2> DEFINE h == CHOOSE h : h = Def(h)
  <2>1. Scanned(text) = h
    BY DEF Scanned
  <2>2. h = Def(h)
    <3> HIDE DEF N
    <3> QED BY <1>6
  <2> QED
    BY <2>1, <2>2
<1> HIDE DEF N
<1> QED
  BY <1>0, <1>7

-----------------------------------------------------------------------------
(* The scanner: lexShellSegments *)

\* The types of a segment and of the scanner.
Segments == [tokens : Seq(Seq(Letters)), redirects : SUBSET Seq(Letters)]
Scanners == [done : SUBSET Segments, cur : Segments, word : Seq(Letters), pending : BOOLEAN]

\* flushToken, field by field: the word goes to the redirections if one waits
\* for it, and to the tokens otherwise.
LEMMA FlushTokenFields ==
  ASSUME NEW s \in Scanners
  PROVE  /\ FlushToken(s) \in Scanners
         /\ FlushToken(s).done = s.done
         /\ FlushToken(s).word = <<>>
         /\ FlushToken(s).pending <=> s.pending /\ s.word = <<>>
         /\ FlushToken(s).cur.tokens =
              IF s.word # <<>> /\ ~s.pending THEN Append(s.cur.tokens, s.word) ELSE s.cur.tokens
         /\ FlushToken(s).cur.redirects =
              IF s.word # <<>> /\ s.pending THEN s.cur.redirects \cup {s.word} ELSE s.cur.redirects
<1>1. CASE s.word = <<>>
  BY <1>1 DEF FlushToken, Scanners, Segments
<1>0. /\ s.done \in SUBSET Segments /\ s.cur \in Segments /\ s.word \in Seq(Letters)
      /\ s.cur.tokens \in Seq(Seq(Letters)) /\ s.cur.redirects \in SUBSET Seq(Letters)
      /\ s.pending \in BOOLEAN
  BY DEF Scanners, Segments
<1>2. CASE s.word # <<>> /\ s.pending
  <2> DEFINE c == [tokens |-> s.cur.tokens, redirects |-> s.cur.redirects \cup {s.word}]
             t == [done |-> s.done, cur |-> c, word |-> <<>>, pending |-> FALSE]
  <2>1. FlushToken(s) = t
    BY <1>2 DEF FlushToken, Scanners, Segments
  <2>2. c \in Segments
    BY <1>0 DEF Segments
  <2>3. t \in Scanners
    BY <1>0, <2>2 DEF Scanners
  <2> QED
    BY <1>2, <2>1, <2>3
<1>3. CASE s.word # <<>> /\ ~s.pending
  <2> DEFINE c == [tokens |-> Append(s.cur.tokens, s.word), redirects |-> s.cur.redirects]
             t == [done |-> s.done, cur |-> c, word |-> <<>>, pending |-> FALSE]
  <2>1. FlushToken(s) = t
    BY <1>0, <1>3 DEF FlushToken, Scanners, Segments
  <2>2. c \in Segments
    BY <1>0 DEF Segments
  <2>3. t \in Scanners
    BY <1>0, <2>2 DEF Scanners
  <2> QED
    BY <1>3, <2>1, <2>3
<1> QED
  BY <1>1, <1>2, <1>3

\* The scanner at the start of a segment, with the segments D behind it.
Fresh(D) == [done |-> D, cur |-> NoSegment, word |-> <<>>, pending |-> FALSE]

\* flushSegment adds the current segment, its last word included, and starts
\* a new one.
LEMMA FlushSegmentFields ==
  ASSUME NEW s \in Scanners
  PROVE  /\ FlushSegment(s) \in Scanners
         /\ FlushSegment(s).done = s.done \cup {FlushToken(s).cur}
         /\ FlushSegment(s) = Fresh(s.done \cup {FlushToken(s).cur})
         /\ FlushSegment(s).cur.tokens = <<>> /\ FlushSegment(s).cur.redirects = {}
         /\ FlushSegment(s).word = <<>> /\ ~FlushSegment(s).pending
<1> DEFINE t == FlushToken(s)
<1>1. t \in Scanners /\ t.done = s.done
  BY FlushTokenFields
<1> HIDE DEF t
<1>2. FlushSegment(s) = [Start EXCEPT !.done = t.done \cup {t.cur}]
  BY DEF FlushSegment, t
<1>3. t.done \cup {t.cur} \in SUBSET Segments
  BY <1>1 DEF Scanners
<1>4. FlushSegment(s) = [done |-> t.done \cup {t.cur}, cur |-> NoSegment, word |-> <<>>, pending |-> FALSE]
  BY <1>2 DEF Start
<1>5. NoSegment \in Segments
  BY DEF NoSegment, Segments
<1>6. FlushSegment(s) \in Scanners
  BY <1>3, <1>4, <1>5 DEF Scanners
<1> QED
  BY <1>1, <1>4, <1>6 DEF t, NoSegment, Fresh

\* What the scanner does with each kind of symbol.
LEMMA ScanCases ==
  ASSUME NEW s \in Scanners, NEW v \in Symbols
  PROVE  /\ v = "pipe" => Scan(s, v) = IF s.pending THEN s ELSE FlushSegment(s)
         /\ v = "semi" \/ v = "newline" => Scan(s, v) = FlushSegment(s)
         /\ v = "redirect" => Scan(s, v) = [FlushToken(s) EXCEPT !.pending = TRUE]
         /\ v = "space" => Scan(s, v) = FlushToken(s)
         /\ v \in Letters => Scan(s, v) = [s EXCEPT !.word = Append(s.word, v)]
<1> USE PolicyAssumption DEF Symbols, Separators
<1>1. ASSUME v = "pipe" PROVE Scan(s, v) = IF s.pending THEN s ELSE FlushSegment(s)
  BY <1>1 DEF Scan
<1>2. ASSUME v = "semi" \/ v = "newline" PROVE Scan(s, v) = FlushSegment(s)
  BY <1>2 DEF Scan
<1>3. ASSUME v = "redirect" PROVE Scan(s, v) = [FlushToken(s) EXCEPT !.pending = TRUE]
  BY <1>3 DEF Scan
<1>4. ASSUME v = "space" PROVE Scan(s, v) = FlushToken(s)
  BY <1>4 DEF Scan
<1>5. ASSUME v \in Letters PROVE Scan(s, v) = [s EXCEPT !.word = Append(s.word, v)]
  BY <1>5 DEF Scan
<1> QED
  BY <1>1, <1>2, <1>3, <1>4, <1>5

\* The scanner keeps its type, and never drops a segment.
LEMMA ScanType ==
  ASSUME NEW s \in Scanners, NEW v \in Symbols
  PROVE  Scan(s, v) \in Scanners /\ s.done \subseteq Scan(s, v).done
<1>1. CASE v \in Letters
  <2>1. Scan(s, v) = [s EXCEPT !.word = Append(s.word, v)]
    BY <1>1, ScanCases
  <2>2. Append(s.word, v) \in Seq(Letters)
    BY <1>1 DEF Scanners
  <2> QED
    BY <2>1, <2>2 DEF Scanners
<1>2. CASE v = "redirect"
  <2> DEFINE t == FlushToken(s)
  <2>1. t \in Scanners /\ t.done = s.done
    BY FlushTokenFields
  <2>2. Scan(s, v) = [t EXCEPT !.pending = TRUE]
    BY <1>2, ScanCases
  <2> HIDE DEF t
  <2> QED
    BY <2>1, <2>2 DEF Scanners
<1>3. CASE v \in {"pipe", "semi", "newline", "space"}
  <2>1. Scan(s, v) \in {s, FlushToken(s), FlushSegment(s)}
    BY <1>3, ScanCases
  <2>2. CASE Scan(s, v) = s
    BY <2>2
  <2>3. CASE Scan(s, v) = FlushToken(s)
    BY <2>3, FlushTokenFields
  <2>4. CASE Scan(s, v) = FlushSegment(s)
    BY <2>4, FlushSegmentFields
  <2> QED
    BY <2>1, <2>2, <2>3, <2>4
<1> QED
  BY <1>1, <1>2, <1>3 DEF Symbols

-----------------------------------------------------------------------------
(* The commands of a segment: resolveCommands, as the tokens come one by one *)

\* What a segment's tokens say about the token that comes next: whether it is
\* the command, whether a wrapper runs it, and whether the tokens are allowed.
AllSkipped(tokens) == \A j \in DOMAIN tokens : tokens[j] \in Skipped
Wrapped(tokens) ==
  \E j \in DOMAIN tokens : tokens[j] \in Wrappers /\ \A m \in 1..(j - 1) : tokens[m] \in Skipped
Clean(tokens) == ResolveCommands(tokens) \cap Denied = {}

\* A segment without tokens runs nothing.
LEMMA NoTokens == AllSkipped(<<>>) /\ ~Wrapped(<<>>) /\ Clean(<<>>)
BY DEF AllSkipped, Wrapped, Clean, ResolveCommands

\* Token i is the first that is not skipped.
IsFirst(tokens, i) == /\ i \in DOMAIN tokens /\ tokens[i] \notin Skipped
                      /\ \A m \in 1..(i - 1) : tokens[m] \in Skipped

\* resolveCommands, by position: the first token that is not skipped and, if
\* it is a wrapper, every token after it.
LEMMA Resolved ==
  ASSUME NEW tokens \in Seq(Seq(Letters)), NEW w
  PROVE  w \in ResolveCommands(tokens) <=>
           \E j \in DOMAIN tokens :
             /\ w = tokens[j]
             /\ IsFirst(tokens, j) \/ \E i \in 1..(j - 1) : IsFirst(tokens, i) /\ tokens[i] \in Wrappers
<1> DEFINE rest == {i \in DOMAIN tokens : tokens[i] \notin Skipped}
           first == {i \in rest : \A k \in rest : i <= k}
<1>0. DOMAIN tokens = 1..Len(tokens) /\ Len(tokens) \in Nat
  OBVIOUS
<1>1. \A i \in DOMAIN tokens : i \in first <=> IsFirst(tokens, i)
  <2> TAKE i \in DOMAIN tokens
  <2>1. i \in Nat \ {0}
    BY <1>0
  <2>2. ASSUME i \in first PROVE IsFirst(tokens, i)
    <3>1. ASSUME NEW m \in 1..(i - 1) PROVE tokens[m] \in Skipped
      <4>1. m \in DOMAIN tokens /\ ~(i <= m)
        BY <1>0, <2>1
      <4> QED
        BY <2>2, <4>1
    <3> QED
      BY <2>2, <3>1 DEF IsFirst
  <2>3. ASSUME IsFirst(tokens, i) PROVE i \in first
    <3>1. ASSUME NEW k \in rest, ~(i <= k) PROVE FALSE
      <4>1. k \in 1..(i - 1)
        BY <1>0, <2>1, <3>1
      <4> QED
        BY <2>3, <3>1, <4>1 DEF IsFirst
    <3> QED
      BY <2>3, <3>1 DEF IsFirst
  <2> QED
    BY <2>2, <2>3
<1>2. first \subseteq DOMAIN tokens
  OBVIOUS
<1>3. ResolveCommands(tokens) =
        {tokens[i] : i \in first \cup {j \in DOMAIN tokens :
                                       \E i \in first : i < j /\ tokens[i] \in Wrappers}}
  BY DEF ResolveCommands
<1> HIDE DEF first
<1>4. \A j \in DOMAIN tokens :
        (\E i \in first : i < j /\ tokens[i] \in Wrappers) <=>
          \E i \in 1..(j - 1) : IsFirst(tokens, i) /\ tokens[i] \in Wrappers
  <2> TAKE j \in DOMAIN tokens
  <2>1. \A i \in DOMAIN tokens : i < j <=> i \in 1..(j - 1)
    BY <1>0
  <2>2. \A i \in 1..(j - 1) : i \in DOMAIN tokens
    BY <1>0
  <2> QED
    BY <1>1, <1>2, <2>1, <2>2
<1> QED
  BY <1>1, <1>2, <1>3, <1>4

\* One more token: it is the command if all before it are skipped, and is run
\* by a wrapper if one of those before it is the command and a wrapper.
LEMMA TokensAppend ==
  ASSUME NEW tokens \in Seq(Seq(Letters)), NEW w \in Seq(Letters)
  PROVE  LET more == Append(tokens, w) IN
         /\ AllSkipped(more) <=> AllSkipped(tokens) /\ w \in Skipped
         /\ Wrapped(more) <=> Wrapped(tokens) \/ (w \in Wrappers /\ AllSkipped(tokens))
         /\ Clean(more) <=> Clean(tokens) /\ (w \in Denied => ~AllSkipped(tokens) /\ ~Wrapped(tokens))
<1> DEFINE more == Append(tokens, w)
           n == Len(tokens)
<1>1. /\ n \in Nat /\ DOMAIN tokens = 1..n /\ DOMAIN more = 1..(n + 1)
      /\ \A i \in 1..n : more[i] = tokens[i]
      /\ more[n + 1] = w /\ more \in Seq(Seq(Letters))
  OBVIOUS
<1> HIDE DEF more, n
<1>2. AllSkipped(more) <=> AllSkipped(tokens) /\ w \in Skipped
  BY <1>1 DEF AllSkipped
<1>3. Wrapped(more) <=> Wrapped(tokens) \/ (w \in Wrappers /\ AllSkipped(tokens))
  <2>1. \A j \in 1..n : /\ more[j] \in Wrappers <=> tokens[j] \in Wrappers
                       /\ (\A m \in 1..(j - 1) : more[m] \in Skipped) <=>
                            (\A m \in 1..(j - 1) : tokens[m] \in Skipped)
    <3> TAKE j \in 1..n
    <3>1. \A m \in 1..(j - 1) : more[m] = tokens[m]
      BY <1>1
    <3> QED
      BY <1>1, <3>1
  <2>2. (\A m \in 1..((n + 1) - 1) : more[m] \in Skipped) <=> AllSkipped(tokens)
    <3>1. 1..((n + 1) - 1) = 1..n
      BY <1>1
    <3> QED
      BY <1>1, <3>1 DEF AllSkipped
  <2>3. Wrapped(more) <=>
          \/ \E j \in 1..n : more[j] \in Wrappers /\ \A m \in 1..(j - 1) : more[m] \in Skipped
          \/ more[n + 1] \in Wrappers /\ \A m \in 1..((n + 1) - 1) : more[m] \in Skipped
    <3>1. \A j : j \in 1..(n + 1) <=> j \in 1..n \/ j = n + 1
      BY <1>1
    <3> QED
      BY <1>1, <3>1 DEF Wrapped
  <2> QED
    BY <1>1, <2>1, <2>2, <2>3 DEF Wrapped
<1>4. /\ \A i \in 1..n : IsFirst(more, i) <=> IsFirst(tokens, i)
      /\ IsFirst(more, n + 1) <=> AllSkipped(tokens) /\ w \notin Skipped
  <2>1. ASSUME NEW i \in 1..n PROVE IsFirst(more, i) <=> IsFirst(tokens, i)
    <3>1. \A m \in 1..(i - 1) : more[m] = tokens[m]
      BY <1>1
    <3> QED
      BY <1>1, <3>1 DEF IsFirst
  <2>2. (\A m \in 1..((n + 1) - 1) : more[m] \in Skipped) <=> AllSkipped(tokens)
    <3>1. 1..((n + 1) - 1) = 1..n
      BY <1>1
    <3> QED
      BY <1>1, <3>1 DEF AllSkipped
  <2>3. IsFirst(more, n + 1) <=> AllSkipped(tokens) /\ w \notin Skipped
    BY <1>1, <2>2 DEF IsFirst
  <2> QED
    BY <2>1, <2>3
<1>5. Wrapped(tokens) <=> \E i \in 1..n : IsFirst(tokens, i) /\ tokens[i] \in Wrappers
  BY <1>1, PolicyAssumption DEF IsFirst, Wrapped
<1>6. \A x : x \in ResolveCommands(more) <=>
               \/ x \in ResolveCommands(tokens)
               \/ x = w /\ (Wrapped(tokens) \/ (AllSkipped(tokens) /\ w \notin Skipped))
  <2> TAKE x
  <2>1. x \in ResolveCommands(more) <=>
           \E j \in 1..(n + 1) :
             /\ x = more[j]
             /\ IsFirst(more, j) \/ \E i \in 1..(j - 1) : IsFirst(more, i) /\ more[i] \in Wrappers
    BY <1>1, Resolved
  <2>2. x \in ResolveCommands(tokens) <=>
           \E j \in 1..n :
             /\ x = tokens[j]
             /\ IsFirst(tokens, j) \/ \E i \in 1..(j - 1) : IsFirst(tokens, i) /\ tokens[i] \in Wrappers
    BY <1>1, Resolved
  <2>3. (\E i \in 1..((n + 1) - 1) : IsFirst(more, i) /\ more[i] \in Wrappers) <=> Wrapped(tokens)
    BY <1>1, <1>4, <1>5
  <2>4. \A j \in 1..n :
          (IsFirst(more, j) \/ \E i \in 1..(j - 1) : IsFirst(more, i) /\ more[i] \in Wrappers)
          <=> (IsFirst(tokens, j) \/ \E i \in 1..(j - 1) : IsFirst(tokens, i) /\ tokens[i] \in Wrappers)
    BY <1>1, <1>4
  <2> QED
    BY <1>1, <1>4, <2>1, <2>2, <2>3, <2>4
<1>7. w \in Denied => w \notin Skipped
  BY PolicyAssumption
<1>8. Clean(more) <=> Clean(tokens) /\ (w \in Denied => ~AllSkipped(tokens) /\ ~Wrapped(tokens))
  BY <1>6, <1>7 DEF Clean
<1> QED
  BY <1>2, <1>3, <1>8 DEF more

-----------------------------------------------------------------------------
(* The reference: redirections, words and commands of a line, by position *)

\* Nothing is behind a redirection at the start of a line; a position is if the
\* symbol before it is a redirection, or a space or a pipe that is behind one.
LEMMA BehindStep ==
  ASSUME NEW l \in Seq(Symbols)
  PROVE  /\ ~BehindRedirect(l, 1)
         /\ \A i \in 1..Len(l) :
              BehindRedirect(l, i + 1) <=>
                l[i] = "redirect" \/ (l[i] \in {"space", "pipe"} /\ BehindRedirect(l, i))
<1>0. Len(l) \in Nat
  OBVIOUS
<1>1. ~BehindRedirect(l, 1)
  BY DEF BehindRedirect
<1>2. ASSUME NEW i \in 1..Len(l)
      PROVE  BehindRedirect(l, i + 1) <=>
               l[i] = "redirect" \/ (l[i] \in {"space", "pipe"} /\ BehindRedirect(l, i))
  <2>0. (i + 1) - 1 = i /\ i \in Nat \ {0}
    BY <1>0
  <2>1. ASSUME NEW r \in 1..i, l[r] = "redirect",
               \A k \in (r + 1)..i : l[k] \in {"space", "pipe"}
        PROVE  l[i] = "redirect" \/ (l[i] \in {"space", "pipe"} /\ BehindRedirect(l, i))
    <3>1. CASE r = i
      BY <2>1, <3>1
    <3>2. CASE r # i
      <4>1. r \in 1..(i - 1) /\ i \in (r + 1)..i /\ \A k \in (r + 1)..(i - 1) : k \in (r + 1)..i
        BY <2>0, <3>2
      <4> QED
        BY <2>1, <4>1 DEF BehindRedirect
    <3> QED
      BY <3>1, <3>2
  <2>2. ASSUME l[i] = "redirect" PROVE BehindRedirect(l, i + 1)
    <3>1. i \in 1..((i + 1) - 1) /\ \A k \in (i + 1)..((i + 1) - 1) : FALSE
      BY <2>0
    <3> QED
      BY <2>2, <3>1 DEF BehindRedirect
  <2>3. ASSUME l[i] \in {"space", "pipe"}, BehindRedirect(l, i) PROVE BehindRedirect(l, i + 1)
    <3>1. PICK r \in 1..(i - 1) : l[r] = "redirect" /\ \A k \in (r + 1)..(i - 1) : l[k] \in {"space", "pipe"}
      BY <2>3 DEF BehindRedirect
    <3>2. r \in 1..((i + 1) - 1) /\ \A k \in (r + 1)..((i + 1) - 1) : k = i \/ k \in (r + 1)..(i - 1)
      BY <2>0
    <3> QED
      BY <2>3, <3>1, <3>2 DEF BehindRedirect
  <2> QED
    BY <2>0, <2>1, <2>2, <2>3 DEF BehindRedirect
<1> QED
  BY <1>1, <1>2

\* The symbols from k + 1 to i are the letters that end at i, all of them.
RunsTo(l, k, i) ==
  /\ k \in 0..i
  /\ k = 0 \/ l[k] \notin Letters
  /\ \A j \in (k + 1)..i : l[j] \in Letters

\* A word is a maximal run of letters.
LEMMA WordFields ==
  ASSUME NEW l \in Seq(Symbols), NEW w \in WordsOf(l)
  PROVE  /\ w[1] \in 1..Len(l) /\ w[2] \in 1..Len(l) /\ w[1] <= w[2]
         /\ w = <<w[1], w[2]>>
         /\ \A i \in w[1]..w[2] : l[i] \in Letters
         /\ w[1] = 1 \/ l[w[1] - 1] \notin Letters
         /\ w[2] = Len(l) \/ l[w[2] + 1] \notin Letters
BY DEF WordsOf

\* Where a run of letters ends there is one word, unless the run is empty.
LEMMA WordAt ==
  ASSUME NEW l \in Seq(Symbols), NEW i \in 0..Len(l), NEW k, RunsTo(l, k, i),
         i = Len(l) \/ l[i + 1] \notin Letters
  PROVE  /\ k < i => <<k + 1, i>> \in WordsOf(l)
         /\ \A w \in WordsOf(l) : w[2] = i => k < i /\ w = <<k + 1, i>>
<1>0. Len(l) \in Nat /\ i \in Nat /\ k \in 0..i
  BY DEF RunsTo
<1>1. ASSUME k < i PROVE <<k + 1, i>> \in WordsOf(l)
  <2>1. k + 1 \in 1..Len(l) /\ i \in 1..Len(l) /\ k + 1 <= i /\ (k + 1) - 1 = k
    BY <1>0, <1>1
  <2>2. DOMAIN l = 1..Len(l)
    OBVIOUS
  <2>3. k + 1 = 1 <=> k = 0
    BY <1>0
  <2> QED
    BY <1>0, <2>1, <2>2, <2>3 DEF WordsOf, RunsTo
<1>2. ASSUME NEW w \in WordsOf(l), w[2] = i PROVE k < i /\ w = <<k + 1, i>>
  <2> DEFINE a == w[1]
  <2>1. /\ a \in 1..Len(l) /\ a <= i /\ w = <<a, i>>
        /\ \A j \in a..i : l[j] \in Letters
        /\ a = 1 \/ l[a - 1] \notin Letters
    BY <1>2, WordFields
  <2> HIDE DEF a
  <2>2. k < a
    <3> SUFFICES ASSUME ~(k < a) PROVE FALSE
      OBVIOUS
    <3>1. k \in a..i /\ k # 0
      BY <1>0, <2>1
    <3> QED
      BY <2>1, <3>1 DEF RunsTo
  <2>3. ~(k + 1 < a)
    <3> SUFFICES ASSUME k + 1 < a PROVE FALSE
      OBVIOUS
    <3>1. a - 1 \in (k + 1)..i /\ a # 1
      BY <1>0, <2>1
    <3> QED
      BY <2>1, <3>1 DEF RunsTo
  <2>4. a = k + 1
    BY <1>0, <2>1, <2>2, <2>3
  <2> QED
    BY <1>0, <2>1, <2>4
<1> QED
  BY <1>1, <1>2

\* No word ends where a letter follows.
LEMMA NoWordWithin ==
  ASSUME NEW l \in Seq(Symbols), NEW i \in 0..(Len(l) - 1), l[i + 1] \in Letters, NEW w \in WordsOf(l)
  PROVE  w[2] # i
BY WordFields

-----------------------------------------------------------------------------
(* What the scanner knows of a line, after i symbols of it *)

\* The words that have ended before position i: those of the command that is
\* not over there, and the others; and with those that end at i.
Open(l, i)   == {w \in WordsOf(l) : w[2] < i /\ SameCommand(l, w[2], i)}
Ended(l, i)  == {w \in WordsOf(l) : w[2] < i /\ ~SameCommand(l, w[2], i)}
OpenTo(l, i) == {w \in WordsOf(l) : w[2] <= i /\ SameCommand(l, w[2], i)}

\* The current segment says of the words W of the command: whether a redirection
\* writes to a protected place, whether one of them is run and denied, whether the
\* next word is the command, and whether it is run by a wrapper.
CurInv(l, seg, W) ==
  /\ seg.redirects \cap Protected = {} <=>
       \A w \in W : BehindRedirect(l, w[1]) => ~ForbiddenWord(l, w)
  /\ Clean(seg.tokens) <=> \A w \in W : ~BehindRedirect(l, w[1]) => ~ForbiddenWord(l, w)
  /\ AllSkipped(seg.tokens) <=>
       \A w \in W : ~BehindRedirect(l, w[1]) => TextOf(l, w) \in Skipped
  /\ Wrapped(seg.tokens) <=>
       \E w \in W : ~BehindRedirect(l, w[1]) /\ TextOf(l, w) \in Wrappers /\ IsHead(l, w)

\* InspectShell, of a set of segments.
Allowed(segs) == \A seg \in segs : SegmentAllowed(seg)

\* The segments that are done are allowed if those before the line were and no
\* word of W is forbidden.
DoneInv(l, D, segs, W) == Allowed(segs) <=> Allowed(D) /\ \A w \in W : ~ForbiddenWord(l, w)

\* The scanner's word is the run of letters it is in, and it waits for the word
\* of a redirection exactly where the word that begins here is behind one.
WordInv(l, s, i) ==
  \E k : RunsTo(l, k, i) /\ s.word = SubSeq(l, k + 1, i) /\ (s.pending <=> BehindRedirect(l, k + 1))

\* The invariant of the scanner on a line l, with the segments D behind it.
LineInv(l, D, s, i) ==
  /\ s \in Scanners
  /\ WordInv(l, s, i)
  /\ DoneInv(l, D, s.done, Ended(l, i))
  /\ CurInv(l, s.cur, Open(l, i))

\* A letter does not end a command.
LEMMA LetterStays ==
  ASSUME NEW l, NEW i, l[i] \in Letters
  PROVE  ~EndsCommand(l, i)
BY PolicyAssumption DEF EndsCommand

\* For a word that ends at i, the words before it in its command are those of
\* the open command that no redirection takes.
LEMMA BeforeIsOpen ==
  ASSUME NEW l \in Seq(Symbols), NEW i \in 0..Len(l), NEW k, RunsTo(l, k, i), k < i
  PROVE  Before(l, <<k + 1, i>>) = {v \in Open(l, i) : ~BehindRedirect(l, v[1])}
<1>0. Len(l) \in Nat /\ i \in Nat /\ k \in 0..i
  BY DEF RunsTo
<1>1. ASSUME NEW v \in WordsOf(l)
      PROVE  v[2] < k + 1 /\ SameCommand(l, v[2], k + 1) <=> v[2] < i /\ SameCommand(l, v[2], i)
  <2>1. v[2] \in 1..Len(l) /\ (v[2] = Len(l) \/ l[v[2] + 1] \notin Letters)
    BY WordFields
  <2>2. v[2] < i => v[2] < k + 1
    <3> SUFFICES ASSUME v[2] < i, ~(v[2] < k + 1) PROVE FALSE
      OBVIOUS
    <3>1. v[2] # Len(l) /\ v[2] + 1 \in (k + 1)..i
      BY <1>0, <2>1
    <3> QED
      BY <2>1, <3>1 DEF RunsTo
  <2>3. v[2] < k + 1 => v[2] < i
    BY <1>0, <2>1
  <2>4. ASSUME v[2] < k + 1
        PROVE  SameCommand(l, v[2], k + 1) <=> SameCommand(l, v[2], i)
    <3>1. \A j \in v[2]..i : j \in v[2]..(k + 1) \/ j \in (k + 1)..i
      BY <1>0, <2>1, <2>4
    <3>2. \A j \in v[2]..(k + 1) : j \in v[2]..i
      BY <1>0, <2>1, <2>4
    <3>3. \A j \in (k + 1)..i : ~EndsCommand(l, j)
      BY LetterStays DEF RunsTo
    <3> QED
      BY <3>1, <3>2, <3>3 DEF SameCommand
  <2> QED
    BY <2>2, <2>3, <2>4
<1>2. Before(l, <<k + 1, i>>) =
        {v \in WordsOf(l) :
           v[2] < k + 1 /\ SameCommand(l, v[2], k + 1) /\ ~BehindRedirect(l, v[1])}
  BY DEF Before
<1> QED
  BY <1>1, <1>2 DEF Open

\* A part of a text is empty if it ends before it begins.
LEMMA SubSeqOfText ==
  ASSUME NEW l \in Seq(Symbols), NEW i \in 0..Len(l), NEW k \in 0..i
  PROVE  SubSeq(l, k + 1, i) = <<>> <=> k = i
<1>1. /\ SubSeq(l, k + 1, i) \in Seq(Symbols)
      /\ Len(SubSeq(l, k + 1, i)) = IF k + 1 <= i THEN i - (k + 1) + 1 ELSE 0
  <2>1. \A j \in (k + 1)..i : l[j] \in Symbols
    OBVIOUS
  <2> QED
    BY <2>1, SubSeqProperties
<1> QED
  BY <1>1

\* When a word ends, flushToken makes the current segment say of the word what
\* the reference says: a denied command, a protected target, or neither.
LEMMA FlushWord ==
  ASSUME NEW l \in Seq(Symbols), NEW i \in 0..Len(l), i = Len(l) \/ l[i + 1] \notin Letters,
         NEW s \in Scanners, WordInv(l, s, i), CurInv(l, s.cur, Open(l, i))
  PROVE  CurInv(l, FlushToken(s).cur, OpenTo(l, i))
<1>0. Len(l) \in Nat /\ i \in Nat
  OBVIOUS
<1>1. PICK k : RunsTo(l, k, i) /\ s.word = SubSeq(l, k + 1, i) /\ (s.pending <=> BehindRedirect(l, k + 1))
  BY DEF WordInv
<1>2. k \in 0..i /\ (s.word = <<>> <=> k = i)
  BY <1>0, <1>1, SubSeqOfText DEF RunsTo
<1>3. /\ k < i => <<k + 1, i>> \in WordsOf(l)
      /\ \A w \in WordsOf(l) : w[2] = i => k < i /\ w = <<k + 1, i>>
  BY <1>1, WordAt
<1>4. \A w \in WordsOf(l) : w[2] \in 1..Len(l)
  BY WordFields
<1>5. CASE k = i
  <2>1. FlushToken(s).cur = s.cur
    BY <1>2, <1>5 DEF FlushToken
  <2>2. OpenTo(l, i) = Open(l, i)
    BY <1>0, <1>2, <1>3, <1>4, <1>5 DEF OpenTo, Open
  <2> QED
    BY <2>1, <2>2
<1>6. CASE k < i
  <2> DEFINE w == <<k + 1, i>>
             t == FlushToken(s).cur
             c == s.cur
  <2>1. w \in WordsOf(l) /\ w[1] = k + 1 /\ w[2] = i
    BY <1>3, <1>6
  <2>2. SameCommand(l, i, i)
    <3>1. \A j \in i..i : l[j] \in Letters
      BY <1>0, <1>1, <1>2, <1>6 DEF RunsTo
    <3> QED
      BY <3>1, LetterStays DEF SameCommand
  <2>3. OpenTo(l, i) = Open(l, i) \cup {w}
    BY <1>0, <1>3, <1>4, <2>1, <2>2 DEF OpenTo, Open
  <2>4. TextOf(l, w) = s.word /\ s.word \in Seq(Letters) /\ s.word # <<>>
    BY <1>1, <1>2, <1>6, <2>1 DEF TextOf, Scanners
  <2>5. Before(l, w) = {v \in Open(l, i) : ~BehindRedirect(l, v[1])}
    BY <1>1, <1>6, BeforeIsOpen
  <2>6. s.cur.tokens \in Seq(Seq(Letters))
    BY DEF Scanners, Segments
  <2>7. s.pending <=> BehindRedirect(l, w[1])
    BY <1>1, <2>1
  <2>8. IsHead(l, w) <=> AllSkipped(c.tokens)
    BY <2>5 DEF IsHead, CurInv
  <2>9. (\E v \in Before(l, w) : TextOf(l, v) \in Wrappers /\ IsHead(l, v)) <=> Wrapped(c.tokens)
    BY <2>5 DEF CurInv
  <2> HIDE DEF w
  <2>10. CASE s.pending
    <3>1. t.tokens = c.tokens /\ t.redirects = c.redirects \cup {s.word}
      BY <2>4, <2>10, FlushTokenFields
    <3>2. ForbiddenWord(l, w) <=> s.word \in Protected
      BY <2>4, <2>7, <2>10 DEF ForbiddenWord
    <3> HIDE DEF t, c
    <3>3. CurInv(l, c, Open(l, i))
      BY DEF c
    <3> QED
      BY <2>3, <2>7, <2>10, <3>1, <3>2, <3>3 DEF CurInv, t
  <2>11. CASE ~s.pending
    <3>1. t.tokens = Append(c.tokens, s.word) /\ t.redirects = c.redirects
      BY <2>4, <2>11, FlushTokenFields
    <3>2. ForbiddenWord(l, w) <=> s.word \in Denied /\ (AllSkipped(c.tokens) \/ Wrapped(c.tokens))
      BY <2>4, <2>7, <2>8, <2>9, <2>11 DEF ForbiddenWord
    <3>3. /\ AllSkipped(t.tokens) <=> AllSkipped(c.tokens) /\ s.word \in Skipped
          /\ Wrapped(t.tokens) <=> Wrapped(c.tokens) \/ (s.word \in Wrappers /\ AllSkipped(c.tokens))
          /\ Clean(t.tokens) <=>
               Clean(c.tokens) /\ (s.word \in Denied => ~AllSkipped(c.tokens) /\ ~Wrapped(c.tokens))
      BY <2>4, <2>6, <3>1, TokensAppend
    <3>4. CurInv(l, c, Open(l, i))
      BY DEF c
    <3> HIDE DEF t, c
    <3> QED
      BY <2>3, <2>4, <2>7, <2>8, <2>11, <3>1, <3>2, <3>3, <3>4 DEF CurInv, t
  <2> QED
    BY <2>10, <2>11
<1> QED
  BY <1>0, <1>2, <1>5, <1>6

\* A text without a new line.
OneLine(text) == \A i \in 1..Len(text) : text[i] # "newline"

\* A command goes on to the next position unless it ends there.
LEMMA SameCommandStep ==
  ASSUME NEW l, NEW i \in Nat, NEW j \in 0..i
  PROVE  SameCommand(l, j, i + 1) <=> SameCommand(l, j, i) /\ ~EndsCommand(l, i + 1)
<1>1. \A k : k \in j..(i + 1) <=> k \in j..i \/ k = i + 1
  OBVIOUS
<1> QED
  BY <1>1 DEF SameCommand

\* How the next symbol divides the words: a letter ends none, another symbol
\* ends the word before it, and one that ends a command closes its words.
LEMMA WordsStep ==
  ASSUME NEW l \in Seq(Symbols), NEW i \in 0..(Len(l) - 1)
  PROVE  /\ l[i + 1] \in Letters => Open(l, i + 1) = Open(l, i) /\ Ended(l, i + 1) = Ended(l, i)
         /\ l[i + 1] \notin Letters /\ ~EndsCommand(l, i + 1) =>
              Open(l, i + 1) = OpenTo(l, i) /\ Ended(l, i + 1) = Ended(l, i)
         /\ EndsCommand(l, i + 1) =>
              Open(l, i + 1) = {} /\ Ended(l, i + 1) = Ended(l, i) \cup OpenTo(l, i)
<1>0. Len(l) \in Nat /\ i \in Nat
  OBVIOUS
<1>1. \A w \in WordsOf(l) :
        w[2] \in Nat /\ (w[2] < i + 1 <=> w[2] <= i) /\ (w[2] <= i <=> w[2] < i \/ w[2] = i)
  BY <1>0, WordFields
<1>2. \A w \in WordsOf(l) : w[2] <= i =>
        (SameCommand(l, w[2], i + 1) <=> SameCommand(l, w[2], i) /\ ~EndsCommand(l, i + 1))
  <2> TAKE w \in WordsOf(l)
  <2> HAVE w[2] <= i
  <2>1. w[2] \in 0..i
    BY <1>0, <1>1
  <2> QED
    BY <1>0, <2>1, SameCommandStep
<1>3. \A w \in WordsOf(l) : w[2] = i => SameCommand(l, i, i)
  <2> SUFFICES ASSUME NEW w \in WordsOf(l), w[2] = i PROVE SameCommand(l, i, i)
    OBVIOUS
  <2>1. l[i] \in Letters
    BY WordFields
  <2>2. \A j \in i..i : j = i
    BY <1>0
  <2> QED
    BY <2>1, <2>2, LetterStays DEF SameCommand
<1>4. ASSUME l[i + 1] \in Letters
      PROVE  Open(l, i + 1) = Open(l, i) /\ Ended(l, i + 1) = Ended(l, i)
  <2>1. ~EndsCommand(l, i + 1) /\ \A w \in WordsOf(l) : w[2] # i
    BY <1>4, LetterStays, NoWordWithin
  <2> QED
    BY <1>1, <1>2, <2>1 DEF Open, Ended
<1>5. ASSUME ~EndsCommand(l, i + 1)
      PROVE  Open(l, i + 1) = OpenTo(l, i) /\ Ended(l, i + 1) = Ended(l, i)
  BY <1>1, <1>2, <1>3, <1>5 DEF Open, OpenTo, Ended
<1>6. ASSUME EndsCommand(l, i + 1)
      PROVE  Open(l, i + 1) = {} /\ Ended(l, i + 1) = Ended(l, i) \cup OpenTo(l, i)
  BY <1>1, <1>2, <1>3, <1>6 DEF Open, OpenTo, Ended
<1> QED
  BY <1>4, <1>5, <1>6

\* The end of a segment moves its words to those of the segments that are done.
LEMMA SegmentEnds ==
  ASSUME NEW l, NEW D, NEW done, NEW seg, NEW W, NEW V,
         DoneInv(l, D, done, W), CurInv(l, seg, V)
  PROVE  DoneInv(l, D, done \cup {seg}, W \cup V)
<1>1. SegmentAllowed(seg) <=> \A w \in V : ~ForbiddenWord(l, w)
  BY DEF CurInv, SegmentAllowed, Clean
<1> QED
  BY <1>1 DEF DoneInv, Allowed

\* An empty segment says what is true of no words at all.
LEMMA EmptySegment ==
  ASSUME NEW l, NEW seg, seg.tokens = <<>>, seg.redirects = {}
  PROVE  CurInv(l, seg, {})
BY NoTokens DEF CurInv

\* Every symbol of a line keeps the invariant, if no pipe is glued to the word
\* of a redirection: there the scanner asks for a redirection that still waits, and
\* the reference for one that is behind the pipe but for spaces.
LEMMA LineStep ==
  ASSUME NEW l \in Seq(Symbols), OneLine(l), ~Glued(l), NEW D,
         NEW i \in 0..(Len(l) - 1), NEW s, LineInv(l, D, s, i)
  PROVE  LineInv(l, D, Scan(s, l[i + 1]), i + 1)
<1> DEFINE v == l[i + 1]
           z == Scan(s, v)
<1>0. Len(l) \in Nat /\ i \in Nat /\ i + 1 \in 1..Len(l) /\ i \in 0..Len(l)
  OBVIOUS
<1>1. s \in Scanners /\ v \in Symbols /\ v # "newline"
  BY <1>0 DEF LineInv, OneLine
<1>2. z \in Scanners
  BY <1>1, ScanType
<1>3. PICK k : RunsTo(l, k, i) /\ s.word = SubSeq(l, k + 1, i) /\ (s.pending <=> BehindRedirect(l, k + 1))
  BY DEF LineInv, WordInv
<1>4. k \in 0..i /\ (s.word = <<>> <=> k = i)
  BY <1>0, <1>3, SubSeqOfText DEF RunsTo
<1>5. /\ DoneInv(l, D, s.done, Ended(l, i)) /\ CurInv(l, s.cur, Open(l, i)) /\ WordInv(l, s, i)
  BY DEF LineInv
<1>6. BehindRedirect(l, (i + 1) + 1) <=>
        v = "redirect" \/ (v \in {"space", "pipe"} /\ BehindRedirect(l, i + 1))
  BY <1>0, BehindStep
<1>7. v \in Letters => ~(v \in {"space", "semi", "pipe", "redirect", "newline"})
  BY PolicyAssumption
<1> HIDE DEF v, z
<1>8. CASE v \in Letters
  <2>1. z = [s EXCEPT !.word = Append(s.word, v)]
    BY <1>1, <1>8, ScanCases DEF z
  <2>2. z.done = s.done /\ z.cur = s.cur /\ z.word = Append(s.word, v) /\ z.pending = s.pending
    BY <1>1, <2>1 DEF Scanners
  <2>3. Open(l, i + 1) = Open(l, i) /\ Ended(l, i + 1) = Ended(l, i)
    BY <1>8, WordsStep DEF v
  <2>4. RunsTo(l, k, i + 1)
    <3>1. \A j \in (k + 1)..(i + 1) : j \in (k + 1)..i \/ j = i + 1
      BY <1>0, <1>4
    <3> QED
      BY <1>0, <1>3, <1>4, <1>8, <3>1 DEF RunsTo, v
  <2>5. z.word = SubSeq(l, k + 1, i + 1)
    <3>1. SubSeq(l, k + 1, i + 1) = SubSeq(l, k + 1, (i + 1) - 1) \o <<l[i + 1]>>
      <4>1. k + 1 \in 1..Len(l) /\ i + 1 \in (k + 1)..Len(l)
        BY <1>0, <1>4
      <4> QED
        BY <4>1, SubSeqRecursiveSecond
    <3>2. (i + 1) - 1 = i /\ SubSeq(l, k + 1, i) \in Seq(Symbols)
      BY <1>0, <1>4
    <3>3. Append(SubSeq(l, k + 1, i), l[i + 1]) = SubSeq(l, k + 1, i + 1)
      BY <3>1, <3>2, <1>1, AppendIsConcat DEF v
    <3> QED
      BY <1>3, <2>2, <3>3 DEF v
  <2>6. WordInv(l, z, i + 1)
    BY <1>3, <2>2, <2>4, <2>5 DEF WordInv
  <2> QED
    BY <1>2, <1>5, <2>2, <2>3, <2>6 DEF LineInv, z, v
<1>9. CASE v \notin Letters
  <2> DEFINE t == FlushToken(s)
  <2>1. /\ t \in Scanners /\ t.done = s.done /\ t.word = <<>>
        /\ t.pending <=> s.pending /\ s.word = <<>>
    BY <1>1, FlushTokenFields
  <2>2. CurInv(l, t.cur, OpenTo(l, i))
    BY <1>0, <1>1, <1>5, <1>9, FlushWord DEF v
  <2> HIDE DEF t
  <2>3. t.pending <=> BehindRedirect(l, i + 1)
    <3>1. CASE k = i
      BY <1>3, <1>4, <2>1, <3>1
    <3>2. CASE k # i
      <4>0. i \in 1..Len(l) /\ i \in (k + 1)..i
        BY <1>0, <1>4, <3>2
      <4>1. i \in 1..Len(l) /\ l[i] \in Letters
        BY <1>3, <4>0 DEF RunsTo
      <4>2. ~BehindRedirect(l, i + 1)
        BY <4>1, BehindStep, PolicyAssumption
      <4> QED
        BY <1>4, <2>1, <3>2, <4>2
    <3> QED
      BY <3>1, <3>2
  <2>4. RunsTo(l, i + 1, i + 1) /\ SubSeq(l, (i + 1) + 1, i + 1) = <<>>
    <3>1. i + 1 \in 0..(i + 1) /\ \A j \in ((i + 1) + 1)..(i + 1) : FALSE
      BY <1>0
    <3>2. SubSeq(l, (i + 1) + 1, i + 1) = <<>>
      BY <1>0, SubSeqEmpty
    <3> QED
      BY <1>9, <3>1, <3>2 DEF RunsTo, v
  <2>5. ASSUME z.word = <<>>, z.pending <=> BehindRedirect(l, (i + 1) + 1) PROVE WordInv(l, z, i + 1)
    BY <2>4, <2>5 DEF WordInv
  <2>6. ASSUME z.word = <<>>, z.pending <=> BehindRedirect(l, (i + 1) + 1),
               ~EndsCommand(l, i + 1), z.done = s.done, z.cur = t.cur
        PROVE  LineInv(l, D, z, i + 1)
    <3>1. Open(l, i + 1) = OpenTo(l, i) /\ Ended(l, i + 1) = Ended(l, i)
      BY <1>9, <2>6, WordsStep DEF v
    <3> QED
      BY <1>2, <1>5, <2>2, <2>5, <2>6, <3>1 DEF LineInv
  <2>7. CASE v = "space"
    <3>1. z = t
      BY <1>1, <2>7, ScanCases DEF z, t
    <3>2. ~EndsCommand(l, i + 1)
      BY <2>7 DEF EndsCommand, v
    <3> QED
      BY <1>6, <2>1, <2>3, <2>6, <2>7, <3>1, <3>2 DEF z, v
  <2>8. CASE v = "redirect"
    <3>1. z = [t EXCEPT !.pending = TRUE]
      BY <1>1, <2>8, ScanCases DEF z, t
    <3>2. z.done = t.done /\ z.cur = t.cur /\ z.word = t.word /\ z.pending
      BY <2>1, <3>1 DEF Scanners
    <3>3. ~EndsCommand(l, i + 1)
      BY <2>8 DEF EndsCommand, v
    <3> QED
      BY <1>6, <2>1, <2>6, <2>8, <3>2, <3>3 DEF z, v
  <2>9. CASE v = "pipe" /\ s.pending
    <3>1. z = s
      BY <1>1, <2>9, ScanCases DEF z
    <3>2. k = i
      <4> SUFFICES ASSUME k < i PROVE FALSE
        BY <1>0, <1>4
      <4>1. <<k + 1, i>> \in WordsOf(l)
        BY <1>0, <1>3, <1>9, WordAt DEF v
      <4>2. i < Len(l)
        BY <1>0
      <4> QED
        BY <1>3, <2>9, <4>1, <4>2 DEF Glued, v
    <3>3. BehindRedirect(l, i + 1) /\ s.word = <<>>
      BY <1>3, <1>4, <2>9, <3>2
    <3>4. ~EndsCommand(l, i + 1)
      BY <2>9, <3>3 DEF EndsCommand, v
    <3>5. t = s
      BY <3>3 DEF t, FlushToken
    <3> QED
      BY <1>6, <2>1, <2>6, <2>9, <3>1, <3>3, <3>4, <3>5 DEF z, v
  <2>10. CASE v = "semi" \/ (v = "pipe" /\ ~s.pending)
    <3>1. z = FlushSegment(s)
      BY <1>1, <2>10, ScanCases DEF z
    <3>2. /\ z.done = s.done \cup {t.cur} /\ z.cur.tokens = <<>> /\ z.cur.redirects = {}
          /\ z.word = <<>> /\ ~z.pending
      BY <1>1, <3>1, FlushSegmentFields DEF t
    <3>3. v = "pipe" => ~BehindRedirect(l, i + 1)
      BY <2>1, <2>3, <2>10
    <3>4. EndsCommand(l, i + 1)
      BY <2>10, <3>3 DEF EndsCommand, v
    <3>5. Open(l, i + 1) = {} /\ Ended(l, i + 1) = Ended(l, i) \cup OpenTo(l, i)
      BY <3>4, WordsStep
    <3>6. DoneInv(l, D, z.done, Ended(l, i + 1))
      BY <1>5, <2>2, <3>2, <3>5, SegmentEnds
    <3>7. CurInv(l, z.cur, Open(l, i + 1))
      BY <3>2, <3>5, EmptySegment
    <3>8. WordInv(l, z, i + 1)
      BY <1>6, <2>5, <2>10, <3>2, <3>3
    <3> QED
      BY <1>2, <3>6, <3>7, <3>8 DEF LineInv, z, v
  <2> QED
    BY <1>1, <1>9, <2>7, <2>8, <2>9, <2>10 DEF Symbols
<1> QED
  BY <1>8, <1>9

-----------------------------------------------------------------------------
(* Texts: a line by itself, a line of a text, and a text by its lines *)

\* The scanner starts afresh at the start of a text, and after every segment.
LEMMA FreshStates ==
  /\ Start = Fresh({})
  /\ \A s \in Scanners : FlushSegment(s) = Fresh(FlushSegment(s).done)
<1>1. Start = Fresh({})
  BY DEF Start, Fresh
<1>2. ASSUME NEW s \in Scanners PROVE FlushSegment(s) = Fresh(FlushSegment(s).done)
  BY FlushSegmentFields
<1> QED
  BY <1>1, <1>2

\* A line scanned from a fresh state is judged as the reference does, whatever
\* segments lie behind it.
LEMMA LineJudged ==
  ASSUME NEW l \in Seq(Symbols), OneLine(l), ~Glued(l), NEW D \in SUBSET Segments, NEW S,
         S[0] = Fresh(D),
         \A i \in 1..Len(l) : S[i] = Scan(S[i - 1], l[i])
  PROVE  Allowed(FlushSegment(S[Len(l)]).done) <=> Allowed(D) /\ ~Forbidden(l)
<1> DEFINE N == Len(l)
           P == {i \in 0..N : LineInv(l, D, S[i], i)}
<1>0. N \in Nat
  OBVIOUS
<1>1. 0 \in P
  <2>1. S[0] = [done |-> D, cur |-> NoSegment, word |-> <<>>, pending |-> FALSE]
    BY DEF Fresh
  <2>2. S[0] \in Scanners
    <3>1. NoSegment \in Segments
      BY DEF NoSegment, Segments
    <3>2. <<>> \in Seq(Letters) /\ FALSE \in BOOLEAN
      OBVIOUS
    <3> QED
      BY <2>1, <3>1, <3>2 DEF Scanners
  <2>3. WordInv(l, S[0], 0)
    <3>1. RunsTo(l, 0, 0)
      BY <1>0 DEF RunsTo
    <3>2. SubSeq(l, 0 + 1, 0) = <<>>
      BY <1>0, SubSeqOfText
    <3>3. ~BehindRedirect(l, 0 + 1)
      BY BehindStep
    <3>4. S[0].word = <<>> /\ S[0].pending = FALSE
      BY <2>1
    <3> QED
      BY <3>1, <3>2, <3>3, <3>4 DEF WordInv
  <2>4. \A w \in WordsOf(l) : ~(w[2] < 0)
    BY WordFields
  <2>5. Open(l, 0) = {} /\ Ended(l, 0) = {}
    BY <2>4 DEF Open, Ended
  <2>6. S[0].done = D /\ S[0].cur.tokens = <<>> /\ S[0].cur.redirects = {}
    BY <2>1 DEF NoSegment
  <2>7. DoneInv(l, D, S[0].done, {})
    BY <2>6 DEF DoneInv
  <2>8. CurInv(l, S[0].cur, {})
    BY <2>6, EmptySegment
  <2>9. LineInv(l, D, S[0], 0)
    BY <2>2, <2>3, <2>5, <2>7, <2>8 DEF LineInv
  <2> QED
    BY <1>0, <2>9
<1>2. ASSUME NEW i \in 0..(N - 1), i \in P PROVE i + 1 \in P
  <2>1. i + 1 \in 1..N /\ (i + 1) - 1 = i
    BY <1>0
  <2>2. S[i + 1] = Scan(S[i], l[i + 1])
    BY <2>1
  <2>3. LineInv(l, D, Scan(S[i], l[i + 1]), i + 1)
    BY <1>2, LineStep
  <2> QED
    BY <1>0, <2>1, <2>2, <2>3
<1>3. LineInv(l, D, S[N], N)
  <2> HIDE DEF P, N
  <2>1. 0..N \subseteq P
    BY <1>0, <1>1, <1>2, UpTo
  <2> QED
    BY <1>0, <2>1 DEF P
<1> DEFINE s == S[N]
           t == FlushToken(s)
<1>4. /\ s \in Scanners /\ WordInv(l, s, N)
      /\ DoneInv(l, D, s.done, Ended(l, N)) /\ CurInv(l, s.cur, Open(l, N))
  BY <1>3 DEF LineInv
<1>5. CurInv(l, t.cur, OpenTo(l, N))
  BY <1>0, <1>4, FlushWord
<1>6. FlushSegment(s).done = s.done \cup {t.cur}
  BY <1>4, FlushSegmentFields
<1>7. DoneInv(l, D, s.done \cup {t.cur}, Ended(l, N) \cup OpenTo(l, N))
  BY <1>4, <1>5, SegmentEnds
<1>8. Ended(l, N) \cup OpenTo(l, N) = WordsOf(l)
  <2>1. \A w \in WordsOf(l) : w[2] \in 1..N /\ l[w[2]] \in Letters
    BY WordFields
  <2>2. \A w \in WordsOf(l) : w[2] = N => SameCommand(l, w[2], N)
    <3> SUFFICES ASSUME NEW w \in WordsOf(l), w[2] = N PROVE SameCommand(l, N, N)
      OBVIOUS
    <3>1. l[N] \in Letters /\ \A j \in N..N : j = N
      BY <1>0, <2>1
    <3> QED
      BY <3>1, LetterStays DEF SameCommand
  <2>3. \A w \in WordsOf(l) : w[2] <= N /\ (w[2] < N \/ w[2] = N)
    BY <1>0, <2>1
  <2> QED
    BY <2>2, <2>3 DEF Ended, OpenTo
<1> QED
  BY <1>6, <1>7, <1>8 DEF DoneInv, Forbidden

\* The scanner has its type after every prefix, and never drops a segment.
LEMMA ScannedType ==
  ASSUME NEW text \in Seq(Symbols)
  PROVE  /\ \A i \in 0..Len(text) : Scanned(text)[i] \in Scanners
         /\ \A i \in 1..Len(text) : Scanned(text)[i - 1].done \subseteq Scanned(text)[i].done
<1> DEFINE S == Scanned(text)
           N == Len(text)
           P == {i \in 0..N : S[i] \in Scanners}
<1>0. N \in Nat
  OBVIOUS
<1>1. S[0] = Start /\ \A i \in 1..N : S[i] = Scan(S[i - 1], text[i])
  BY ScannedStates
<1>2. Start \in Scanners
  BY DEF Start, NoSegment, Scanners, Segments
<1>3. 0 \in P
  BY <1>0, <1>1, <1>2
<1> HIDE DEF S
<1>4. ASSUME NEW i \in 0..(N - 1), i \in P PROVE i + 1 \in P
  <2>1. i + 1 \in 1..N /\ (i + 1) - 1 = i /\ text[i + 1] \in Symbols
    BY <1>0
  <2>2. S[i + 1] = Scan(S[i], text[i + 1])
    BY <1>1, <2>1
  <2> QED
    BY <1>0, <1>4, <2>1, <2>2, ScanType
<1>5. 0..N \subseteq P
  <2> HIDE DEF P, N
  <2> QED
    BY <1>0, <1>3, <1>4, UpTo
<1>6. ASSUME NEW i \in 1..N PROVE S[i - 1].done \subseteq S[i].done
  <2>1. i - 1 \in 0..N /\ text[i] \in Symbols
    BY <1>0
  <2>2. S[i - 1] \in Scanners
    BY <1>5, <2>1
  <2> QED
    BY <1>1, <2>1, <2>2, ScanType
<1> QED
  BY <1>5, <1>6 DEF S

\* The bounds of a line: from the start or behind a new line, to the end or up
\* to the next one.
LEMMA BoundsFields ==
  ASSUME NEW text \in Seq(Symbols), NEW p \in Bounds(text)
  PROVE  /\ p[1] \in 1..(Len(text) + 1) /\ p[2] \in 1..(Len(text) + 1) /\ p[1] <= p[2]
         /\ \A k \in p[1]..(p[2] - 1) : text[k] # "newline"
         /\ p[1] = 1 \/ text[p[1] - 1] = "newline"
         /\ p[2] = Len(text) + 1 \/ text[p[2]] = "newline"
BY DEF Bounds

\* Each line of a text is judged by itself: the segments up to the end of the line
\* are allowed if those before it are and the line is not forbidden.
LEMMA OneOfTheLines ==
  ASSUME NEW text \in Seq(Symbols), NEW p \in Bounds(text),
         ~Glued(SubSeq(text, p[1], p[2] - 1))
  PROVE  Allowed(FlushSegment(Scanned(text)[p[2] - 1]).done) <=>
           /\ Allowed(Scanned(text)[p[1] - 1].done)
           /\ ~Forbidden(SubSeq(text, p[1], p[2] - 1))
<1> DEFINE a == p[1]
           b == p[2] - 1
           l == SubSeq(text, a, b)
           N == Len(text)
           S == Scanned(text)
           D == S[a - 1].done
           R == [i \in 0..Len(l) |-> S[(a - 1) + i]]
<1>0. /\ N \in Nat /\ a \in 1..(N + 1) /\ b \in 0..N /\ a <= b + 1
      /\ \A k \in a..b : text[k] # "newline"
      /\ a = 1 \/ text[a - 1] = "newline"
  BY BoundsFields
<1> HIDE DEF a, b, N
<1>1. /\ l \in Seq(Symbols) /\ Len(l) = (b - a) + 1 /\ Len(l) \in Nat
      /\ \A i \in 1..Len(l) : l[i] = text[(a - 1) + i]
  <2>1. \A k \in a..b : text[k] \in Symbols
    BY <1>0 DEF N
  <2>2. /\ l \in Seq(Symbols) /\ Len(l) = IF a <= b THEN b - a + 1 ELSE 0
        /\ \A i \in 1..(b - a + 1) : l[i] = text[a + i - 1]
    BY <1>0, <2>1, SubSeqProperties
  <2>3. Len(l) = b - a + 1
    BY <1>0, <2>2
  <2>4. \A i \in 1..(b - a + 1) : a + i - 1 = (a - 1) + i
    BY <1>0
  <2> QED
    BY <1>0, <2>2, <2>3, <2>4
<1> HIDE DEF l
<1>2. OneLine(l)
  <2>1. \A i \in 1..Len(l) : (a - 1) + i \in a..b
    BY <1>0, <1>1
  <2> QED
    BY <1>0, <1>1, <2>1 DEF OneLine
<1>3. S[0] = Start /\ \A i \in 1..N : S[i] = Scan(S[i - 1], text[i])
  BY ScannedStates DEF N
<1>4. \A i \in 0..N : S[i] \in Scanners
  BY ScannedType DEF N
<1> HIDE DEF S
<1>5. a - 1 \in 0..N /\ S[a - 1] \in Scanners /\ D \in SUBSET Segments
  <2>1. a - 1 \in 0..N
    BY <1>0
  <2> QED
    BY <1>4, <2>1 DEF Scanners
<1>6. S[a - 1] = Fresh(D)
  <2>1. CASE a = 1
    <3>1. S[a - 1] = Fresh({})
      BY <1>3, <2>1, FreshStates
    <3>2. Fresh({}).done = {}
      BY DEF Fresh
    <3> QED
      BY <3>1, <3>2
  <2>2. CASE a # 1
    <3>1. a - 1 \in 1..N /\ text[a - 1] = "newline" /\ (a - 1) - 1 \in 0..N
      BY <1>0, <2>2
    <3>2. S[a - 1] = Scan(S[(a - 1) - 1], "newline") /\ S[(a - 1) - 1] \in Scanners
      BY <1>3, <1>4, <3>1
    <3>3. S[a - 1] = FlushSegment(S[(a - 1) - 1])
      BY <3>2, ScanCases DEF Symbols
    <3> QED
      BY <3>2, <3>3, FreshStates
  <2> QED
    BY <2>1, <2>2
<1>7. R[0] = Fresh(D)
  BY <1>0, <1>1, <1>6
<1>8. \A i \in 1..Len(l) : R[i] = Scan(R[i - 1], l[i])
  <2> TAKE i \in 1..Len(l)
  <2>1. /\ (a - 1) + i \in 1..N /\ i - 1 \in 0..Len(l) /\ i \in 0..Len(l)
        /\ ((a - 1) + i) - 1 = (a - 1) + (i - 1)
    BY <1>0, <1>1
  <2>2. S[(a - 1) + i] = Scan(S[(a - 1) + (i - 1)], text[(a - 1) + i])
    BY <1>3, <2>1
  <2> QED
    BY <1>1, <2>1, <2>2
<1>9. R[Len(l)] = S[b]
  BY <1>0, <1>1
<1>10. ~Glued(l)
  BY DEF l, a, b
<1> HIDE DEF R, D
<1>11. Allowed(FlushSegment(R[Len(l)]).done) <=> Allowed(D) /\ ~Forbidden(l)
  BY <1>1, <1>2, <1>5, <1>7, <1>8, <1>10, LineJudged
<1> QED
  BY <1>9, <1>11 DEF D, S, l, a, b

\* The segments at any position are among those InspectShell sees, and a new line
\* ends the segment before it.
LEMMA DoneGrows ==
  ASSUME NEW text \in Seq(Symbols), NEW i \in 0..Len(text)
  PROVE  /\ Scanned(text)[i].done \subseteq LexShellSegments(text)
         /\ i # Len(text) /\ text[i + 1] = "newline" =>
              Scanned(text)[i + 1] = FlushSegment(Scanned(text)[i])
<1> DEFINE S == Scanned(text)
           N == Len(text)
           P == {j \in 0..N : i <= j => S[i].done \subseteq S[j].done}
<1>0. N \in Nat /\ i \in 0..N
  OBVIOUS
<1>1. /\ \A j \in 1..N : S[j] = Scan(S[j - 1], text[j])
      /\ \A j \in 0..N : S[j] \in Scanners
      /\ \A j \in 1..N : S[j - 1].done \subseteq S[j].done
  BY ScannedStates, ScannedType
<1>2. LexShellSegments(text) = FlushSegment(S[N]).done
  BY DEF LexShellSegments
<1> HIDE DEF S
<1>3. 0 \in P
  BY <1>0
<1>4. ASSUME NEW j \in 0..(N - 1), j \in P PROVE j + 1 \in P
  <2>1. j + 1 \in 1..N /\ (j + 1) - 1 = j
    BY <1>0
  <2>2. S[j].done \subseteq S[j + 1].done
    BY <1>1, <2>1
  <2>3. i <= j + 1 => i <= j \/ i = j + 1
    BY <1>0
  <2> QED
    BY <1>0, <1>4, <2>1, <2>2, <2>3
<1>5. 0..N \subseteq P
  <2> HIDE DEF P, N
  <2> QED
    BY <1>0, <1>3, <1>4, UpTo
<1>6. S[i].done \subseteq S[N].done
  <2>1. N \in P /\ i <= N
    <3> HIDE DEF P, N
    <3> QED
      BY <1>0, <1>5
  <2> QED
    BY <2>1
<1>7. S[N].done \subseteq FlushSegment(S[N]).done
  <2>1. S[N] \in Scanners
    BY <1>0, <1>1
  <2>2. FlushSegment(S[N]).done = S[N].done \cup {FlushToken(S[N]).cur}
    BY <2>1, FlushSegmentFields
  <2> QED
    BY <2>2
<1>8. ASSUME i # N, text[i + 1] = "newline" PROVE S[i + 1] = FlushSegment(S[i])
  <2>1. i + 1 \in 1..N /\ (i + 1) - 1 = i
    BY <1>0, <1>8
  <2>2. S[i + 1] = Scan(S[i], "newline") /\ S[i] \in Scanners
    BY <1>0, <1>1, <1>8, <2>1
  <2> QED
    BY <2>2, ScanCases DEF Symbols
<1> QED
  BY <1>2, <1>6, <1>7, <1>8 DEF S

\* No line of a text that InspectShell allows is forbidden.
LEMMA AllowedLines ==
  ASSUME NEW text \in Seq(Symbols), InspectShell(text), NEW l \in LinesOf(text), ~Glued(l)
  PROVE  ~Forbidden(l)
<1> DEFINE S == Scanned(text)
           N == Len(text)
<1>0. N \in Nat
  OBVIOUS
<1>1. PICK p \in Bounds(text) : l = SubSeq(text, p[1], p[2] - 1)
  BY DEF LinesOf
<1>2. /\ p[2] \in 1..(N + 1) /\ p[2] - 1 \in 0..N /\ (p[2] - 1) + 1 = p[2]
      /\ p[2] = N + 1 \/ (p[2] # N + 1 /\ text[p[2]] = "newline")
  BY <1>0, BoundsFields
<1>3. FlushSegment(S[p[2] - 1]).done \subseteq LexShellSegments(text)
  <2>1. CASE p[2] = N + 1
    <3>1. p[2] - 1 = N
      BY <1>0, <2>1
    <3> QED
      BY <3>1 DEF LexShellSegments
  <2>2. CASE p[2] # N + 1
    <3>1. p[2] - 1 # N /\ text[(p[2] - 1) + 1] = "newline" /\ p[2] \in 0..N
      BY <1>0, <1>2, <2>2
    <3>2. S[(p[2] - 1) + 1] = FlushSegment(S[p[2] - 1])
      BY <1>2, <3>1, DoneGrows
    <3>3. S[p[2]].done \subseteq LexShellSegments(text)
      BY <3>1, DoneGrows
    <3> QED
      BY <1>2, <3>2, <3>3
  <2> QED
    BY <2>1, <2>2
<1>4. Allowed(FlushSegment(S[p[2] - 1]).done)
  BY <1>3 DEF InspectShell, Allowed
<1> QED
  BY <1>1, <1>4, OneOfTheLines

\* InspectShell allows a text if no line of it is forbidden.
LEMMA AllowedText ==
  ASSUME NEW text \in Seq(Symbols), \A l \in LinesOf(text) : ~Glued(l) /\ ~Forbidden(l)
  PROVE  InspectShell(text)
<1> DEFINE S == Scanned(text)
           N == Len(text)
           From(a, i) == /\ a = 1 \/ text[a - 1] = "newline"
                         /\ \A k \in a..i : text[k] # "newline"
                         /\ Allowed(S[a - 1].done)
           P == {i \in 0..N : \E a \in 1..(i + 1) : From(a, i)}
<1>0. N \in Nat
  OBVIOUS
<1>1. ASSUME NEW i \in 0..N, NEW a \in 1..(i + 1), From(a, i), i = N \/ text[i + 1] = "newline"
      PROVE  Allowed(FlushSegment(S[i]).done)
  <2> DEFINE p == <<a, i + 1>>
  <2>1. p \in (1..(N + 1)) \X (1..(N + 1)) /\ p[1] = a /\ p[2] = i + 1 /\ p[2] - 1 = i /\ a <= i + 1
    BY <1>0
  <2> HIDE DEF p
  <2>2. p \in Bounds(text)
    BY <1>0, <1>1, <2>1 DEF Bounds
  <2>3. SubSeq(text, p[1], p[2] - 1) \in LinesOf(text)
    BY <2>2 DEF LinesOf
  <2>4. Allowed(FlushSegment(S[p[2] - 1]).done) <=>
          Allowed(S[p[1] - 1].done) /\ ~Forbidden(SubSeq(text, p[1], p[2] - 1))
    BY <2>2, <2>3, OneOfTheLines
  <2> QED
    BY <1>1, <2>1, <2>3, <2>4
<1>2. 0 \in P
  <2>1. S[0] = Start
    BY ScannedStates
  <2>2. S[1 - 1].done = {}
    BY <2>1 DEF Start
  <2>3. From(1, 0)
    BY <2>2 DEF Allowed
  <2>4. 1 \in 1..(0 + 1) /\ 0 \in 0..N
    BY <1>0
  <2> HIDE DEF From
  <2> QED
    BY <2>3, <2>4
<1>3. ASSUME NEW i \in 0..(N - 1), i \in P PROVE i + 1 \in P
  <2>1. PICK a \in 1..(i + 1) : From(a, i)
    BY <1>3
  <2>2. i \in 0..N /\ i + 1 \in 0..N /\ i # N
    BY <1>0
  <2>3. CASE text[i + 1] = "newline"
    <3>1. Allowed(FlushSegment(S[i]).done)
      BY <1>1, <2>1, <2>2, <2>3
    <3>2. S[i + 1] = FlushSegment(S[i])
      BY <2>2, <2>3, DoneGrows
    <3>3. (i + 2) - 1 = i + 1 /\ (i + 2) \in 1..((i + 1) + 1) /\ (i + 2)..(i + 1) = {}
      BY <2>2
    <3>4. From(i + 2, i + 1)
      BY <2>3, <3>1, <3>2, <3>3
    <3> HIDE DEF From
    <3> QED
      BY <2>2, <3>3, <3>4
  <2>4. CASE text[i + 1] # "newline"
    <3>1. \A k \in a..(i + 1) : k \in a..i \/ k = i + 1
      BY <2>2
    <3>2. From(a, i + 1)
      BY <2>1, <2>4, <3>1
    <3>3. a \in 1..((i + 1) + 1)
      BY <2>2
    <3> HIDE DEF From
    <3> QED
      BY <2>2, <3>2, <3>3
  <2> QED
    BY <2>3, <2>4
<1>4. N \in P
  <2> HIDE DEF P, N
  <2>1. 0..N \subseteq P
    BY <1>0, <1>2, <1>3, UpTo
  <2> QED
    BY <1>0, <2>1
<1>5. PICK a \in 1..(N + 1) : From(a, N)
  BY <1>4
<1>6. Allowed(FlushSegment(S[N]).done)
  <2>1. N \in 0..N
    BY <1>0
  <2> HIDE DEF From
  <2> QED
    BY <1>1, <1>5, <2>1
<1> QED
  BY <1>6 DEF InspectShell, Allowed, LexShellSegments

-----------------------------------------------------------------------------
(* The unfinished line, and where two texts meet *)

\* The part of a text behind position q.
LEMMA Tails ==
  ASSUME NEW text \in Seq(Symbols), NEW q \in 0..Len(text)
  PROVE  /\ SubSeq(text, q + 1, Len(text)) \in Seq(Symbols)
         /\ Len(SubSeq(text, q + 1, Len(text))) = Len(text) - q
         /\ \A i \in 1..(Len(text) - q) : SubSeq(text, q + 1, Len(text))[i] = text[q + i]
<1> DEFINE N == Len(text)
           t == SubSeq(text, q + 1, N)
<1>0. N \in Nat /\ q \in 0..N
  OBVIOUS
<1>1. \A i \in (q + 1)..N : text[i] \in Symbols
  OBVIOUS
<1>2. /\ t \in Seq(Symbols) /\ Len(t) = IF q + 1 <= N THEN N - (q + 1) + 1 ELSE 0
      /\ \A i \in 1..(N - (q + 1) + 1) : t[i] = text[(q + 1) + i - 1]
  BY <1>0, <1>1, SubSeqProperties
<1> HIDE DEF t, N
<1>3. Len(t) = N - q
  BY <1>0, <1>2
<1>4. ASSUME NEW i \in 1..(N - q) PROVE t[i] = text[q + i]
  <2>1. i \in 1..(N - (q + 1) + 1) /\ (q + 1) + i - 1 = q + i
    BY <1>0
  <2> QED
    BY <1>2, <2>1
<1> QED
  BY <1>2, <1>3, <1>4 DEF t, N

\* The unfinished line is what follows the last new line, or the whole text if
\* there is none.
LEMMA UnfinishedIs ==
  ASSUME NEW text \in Seq(Symbols), NEW q \in 0..Len(text),
         q = 0 \/ text[q] = "newline", \A k \in (q + 1)..Len(text) : text[k] # "newline"
  PROVE  Unfinished(text) = SubSeq(text, q + 1, Len(text))
<1> DEFINE I == {i \in 1..Len(text) : text[i] = "newline"}
           last == SelectLastInSeq(text, LAMBDA v : v = "newline")
<1>0. Len(text) \in Nat
  OBVIOUS
<1>1. last = IF I # {} THEN Max(I) ELSE 0
  BY DEF SelectLastInSeq
<1>2. \A i \in I : i \in Nat /\ i <= q
  BY <1>0
<1>3. CASE q = 0
  <2>1. I = {}
    BY <1>0, <1>2, <1>3
  <2> QED
    BY <1>1, <1>3, <2>1 DEF Unfinished
<1>4. CASE q # 0
  <2>1. q \in I /\ I # {}
    BY <1>0, <1>4
  <2> HIDE DEF I
  <2>2. \E x \in I : \A y \in I : x >= y
    BY <1>0, <1>2, <2>1
  <2>3. Max(I) \in I /\ \A y \in I : Max(I) >= y
    BY <2>2 DEF Max
  <2>4. Max(I) = q
    <3>1. Max(I) \in Nat /\ Max(I) <= q /\ Max(I) >= q
      BY <1>2, <2>1, <2>3
    <3> QED
      BY <1>0, <3>1
  <2> QED
    BY <1>1, <2>1, <2>4 DEF Unfinished
<1> QED
  BY <1>3, <1>4

\* A text has a last new line, or none.
LEMMA LastNewline ==
  ASSUME NEW text \in Seq(Symbols)
  PROVE  \E q \in 0..Len(text) :
           (q = 0 \/ text[q] = "newline") /\ \A k \in (q + 1)..Len(text) : text[k] # "newline"
<1> DEFINE N == Len(text)
           At(q) == (q = 0 \/ text[q] = "newline") /\ \A k \in (q + 1)..N : text[k] # "newline"
           I == {i \in 0..N : \A k \in (i + 1)..N : text[k] # "newline"}
<1>0. N \in Nat
  OBVIOUS
<1>1. N \in I /\ I \in SUBSET Nat
  BY <1>0
<1>2. PICK q \in I : \A y \in I : q <= y
  <2> HIDE DEF I, N
  <2> QED
    BY <1>1, LeastNat
<1>3. ASSUME q # 0, text[q] # "newline" PROVE FALSE
  <2>1. q \in Nat /\ q - 1 \in 0..N /\ ~(q <= q - 1)
    BY <1>0, <1>3
  <2>2. \A k \in ((q - 1) + 1)..N : k = q \/ k \in (q + 1)..N
    BY <1>0
  <2>3. \A k \in ((q - 1) + 1)..N : text[k] # "newline"
    BY <1>2, <1>3, <2>2
  <2>4. q - 1 \in I
    BY <2>1, <2>3
  <2> HIDE DEF I
  <2> QED
    BY <1>2, <2>1, <2>4
<1>4. q \in 0..N /\ At(q)
  BY <1>2, <1>3
<1> QED
  BY <1>4

\* An unfinished line is a text without a new line.
LEMMA UnfinishedType ==
  ASSUME NEW text \in Seq(Symbols)
  PROVE  Unfinished(text) \in Seq(Symbols) /\ OneLine(Unfinished(text))
<1>0. Len(text) \in Nat
  OBVIOUS
<1>1. PICK q \in 0..Len(text) :
        (q = 0 \/ text[q] = "newline") /\ \A k \in (q + 1)..Len(text) : text[k] # "newline"
  BY LastNewline
<1>2. Unfinished(text) = SubSeq(text, q + 1, Len(text))
  BY <1>1, UnfinishedIs
<1> DEFINE t == SubSeq(text, q + 1, Len(text))
<1>3. /\ t \in Seq(Symbols) /\ Len(t) = Len(text) - q
      /\ \A i \in 1..(Len(text) - q) : t[i] = text[q + i]
  BY Tails
<1> HIDE DEF t
<1>4. \A i \in 1..Len(t) : i \in 1..(Len(text) - q) /\ q + i \in (q + 1)..Len(text)
  BY <1>0, <1>3
<1>5. OneLine(t)
  BY <1>1, <1>3, <1>4 DEF OneLine
<1> QED
  BY <1>2, <1>3, <1>5 DEF t

\* The end of a text is a text of at most n symbols, and has no other lines.
LEMMA LastSymbolsType ==
  ASSUME NEW text \in Seq(Symbols), NEW n \in Nat
  PROVE  /\ LastSymbols(text, n) \in Seq(Symbols) /\ Len(LastSymbols(text, n)) <= n
         /\ OneLine(text) => OneLine(LastSymbols(text, n))
<1> DEFINE N == Len(text)
           q == N - n
           t == SubSeq(text, q + 1, N)
<1>0. N \in Nat
  OBVIOUS
<1>1. CASE N > n
  <2>1. q \in 0..N
    BY <1>0, <1>1
  <2>2. t \in Seq(Symbols) /\ Len(t) = N - q /\ \A i \in 1..(N - q) : t[i] = text[q + i]
    <3> HIDE DEF q
    <3> QED
      BY <2>1, Tails
  <2>3. LastSymbols(text, n) = t
    BY <1>1 DEF LastSymbols
  <2>4. N - q = n /\ \A i \in 1..(N - q) : q + i \in 1..N
    BY <1>0, <1>1
  <2> HIDE DEF t, q
  <2>5. OneLine(text) => OneLine(t)
    BY <2>2, <2>4 DEF OneLine
  <2> QED
    BY <1>0, <2>2, <2>3, <2>4, <2>5
<1>2. CASE ~(N > n)
  <2>1. LastSymbols(text, n) = text
    BY <1>2 DEF LastSymbols
  <2> QED
    BY <1>0, <1>2, <2>1
<1> QED
  BY <1>1, <1>2

\* The positions of two texts that follow each other.
LEMMA Joined ==
  ASSUME NEW t \in Seq(Symbols), NEW f \in Seq(Symbols)
  PROVE  /\ t \o f \in Seq(Symbols) /\ Len(t \o f) = Len(t) + Len(f)
         /\ \A i \in 1..Len(t) : (t \o f)[i] = t[i]
         /\ \A m \in 1..Len(f) : (t \o f)[Len(t) + m] = f[m]
<1>0. Len(t) \in Nat /\ Len(f) \in Nat
  OBVIOUS
<1>1. /\ t \o f \in Seq(Symbols) /\ Len(t \o f) = Len(t) + Len(f)
      /\ \A i \in 1..(Len(t) + Len(f)) : (t \o f)[i] = IF i <= Len(t) THEN t[i] ELSE f[i - Len(t)]
  BY ConcatProperties
<1>2. ASSUME NEW i \in 1..Len(t) PROVE (t \o f)[i] = t[i]
  <2>1. i \in 1..(Len(t) + Len(f)) /\ i <= Len(t)
    BY <1>0
  <2> QED
    BY <1>1, <2>1
<1>3. ASSUME NEW m \in 1..Len(f) PROVE (t \o f)[Len(t) + m] = f[m]
  <2>1. Len(t) + m \in 1..(Len(t) + Len(f)) /\ ~(Len(t) + m <= Len(t)) /\ (Len(t) + m) - Len(t) = m
    BY <1>0
  <2> QED
    BY <1>1, <2>1
<1> QED
  BY <1>1, <1>2, <1>3

\* What lies behind a position of the second text does not depend on the first.
LEMMA JoinedTail ==
  ASSUME NEW t \in Seq(Symbols), NEW f \in Seq(Symbols), NEW m \in 0..Len(f)
  PROVE  SubSeq(t \o f, (Len(t) + m) + 1, Len(t \o f)) = SubSeq(f, m + 1, Len(f))
<1> DEFINE u == t \o f
           q == Len(t) + m
           a == SubSeq(u, q + 1, Len(u))
           b == SubSeq(f, m + 1, Len(f))
<1>0. Len(t) \in Nat /\ Len(f) \in Nat
  OBVIOUS
<1>1. /\ u \in Seq(Symbols) /\ Len(u) = Len(t) + Len(f)
      /\ \A j \in 1..Len(f) : u[Len(t) + j] = f[j]
  BY Joined
<1> HIDE DEF u
<1>2. q \in 0..Len(u) /\ Len(u) - q = Len(f) - m
  BY <1>0, <1>1
<1>3. a \in Seq(Symbols) /\ Len(a) = Len(u) - q /\ \A i \in 1..(Len(u) - q) : a[i] = u[q + i]
  <2> HIDE DEF q
  <2> QED
    BY <1>1, <1>2, Tails
<1>4. b \in Seq(Symbols) /\ Len(b) = Len(f) - m /\ \A i \in 1..(Len(f) - m) : b[i] = f[m + i]
  BY Tails
<1> HIDE DEF a, b
<1>5. ASSUME NEW i \in 1..Len(a) PROVE a[i] = b[i]
  <2>1. i \in 1..(Len(f) - m) /\ i \in 1..(Len(u) - q) /\ m + i \in 1..Len(f) /\ q + i = Len(t) + (m + i)
    BY <1>0, <1>2, <1>3
  <2> HIDE DEF q
  <2>2. a[i] = u[q + i] /\ u[Len(t) + (m + i)] = f[m + i] /\ b[i] = f[m + i]
    BY <1>1, <1>3, <1>4, <2>1
  <2> QED
    BY <2>1, <2>2
<1>6. a = b
  <2>1. Len(a) = Len(b)
    BY <1>2, <1>3, <1>4
  <2> QED
    BY <1>3, <1>4, <1>5, <2>1, SeqEqual
<1> QED
  BY <1>6 DEF a, b, q, u

\* After a frame with a new line the unfinished line is that of the frame.
LEMMA JoinedUnfinished ==
  ASSUME NEW t \in Seq(Symbols), NEW f \in Seq(Symbols), \E i \in DOMAIN f : f[i] = "newline"
  PROVE  Unfinished(t \o f) = Unfinished(f)
<1>0. Len(t) \in Nat /\ Len(f) \in Nat /\ DOMAIN f = 1..Len(f)
  OBVIOUS
<1>1. PICK q \in 0..Len(f) :
        (q = 0 \/ f[q] = "newline") /\ \A k \in (q + 1)..Len(f) : f[k] # "newline"
  BY LastNewline
<1>2. Unfinished(f) = SubSeq(f, q + 1, Len(f))
  BY <1>1, UnfinishedIs
<1>3. q \in 1..Len(f) /\ f[q] = "newline"
  <2>1. PICK i \in 1..Len(f) : f[i] = "newline"
    BY <1>0
  <2>2. i \notin (q + 1)..Len(f)
    BY <1>1, <2>1
  <2>3. q # 0
    BY <1>0, <2>2
  <2> QED
    BY <1>0, <1>1, <2>3
<1> DEFINE u == t \o f
           r == Len(t) + q
<1>4. /\ u \in Seq(Symbols) /\ Len(u) = Len(t) + Len(f)
      /\ \A j \in 1..Len(f) : u[Len(t) + j] = f[j]
  BY Joined
<1>5. SubSeq(u, r + 1, Len(u)) = SubSeq(f, q + 1, Len(f))
  BY JoinedTail
<1> HIDE DEF u
<1>6. r \in 0..Len(u) /\ u[r] = "newline"
  BY <1>0, <1>3, <1>4
<1>7. ASSUME NEW k \in (r + 1)..Len(u) PROVE u[k] # "newline"
  <2>1. k - Len(t) \in (q + 1)..Len(f) /\ k - Len(t) \in 1..Len(f) /\ Len(t) + (k - Len(t)) = k
    BY <1>0, <1>3, <1>4
  <2>2. u[Len(t) + (k - Len(t))] = f[k - Len(t)]
    BY <1>4, <2>1
  <2> QED
    BY <1>1, <2>1, <2>2
<1>8. Unfinished(u) = SubSeq(u, r + 1, Len(u))
  <2> HIDE DEF r
  <2> QED
    BY <1>4, <1>6, <1>7, UnfinishedIs
<1> QED
  BY <1>2, <1>5, <1>8 DEF u

\* The lines behind a new line are lines of the text.
LEMMA LinesBehind ==
  ASSUME NEW text \in Seq(Symbols), NEW q \in 1..Len(text), text[q] = "newline"
  PROVE  LinesOf(SubSeq(text, q + 1, Len(text))) \subseteq LinesOf(text)
<1> DEFINE N == Len(text)
           t == SubSeq(text, q + 1, N)
<1>0. N \in Nat /\ q \in 1..N /\ q \in 0..N
  OBVIOUS
<1>1. t \in Seq(Symbols) /\ Len(t) = N - q /\ \A i \in 1..(N - q) : t[i] = text[q + i]
  BY <1>0, Tails
<1> HIDE DEF t, N
<1> SUFFICES ASSUME NEW l \in LinesOf(t) PROVE l \in LinesOf(text)
  BY DEF t, N
<1>2. PICK p \in Bounds(t) : l = SubSeq(t, p[1], p[2] - 1)
  BY DEF LinesOf
<1> DEFINE a == p[1]
           b == p[2]
           r == <<q + a, q + b>>
<1>3. /\ a \in 1..(Len(t) + 1) /\ b \in 1..(Len(t) + 1) /\ a <= b
      /\ \A k \in a..(b - 1) : t[k] # "newline"
      /\ a = 1 \/ t[a - 1] = "newline"
      /\ b = Len(t) + 1 \/ t[b] = "newline"
  BY <1>1, BoundsFields
<1>4. l = SubSeq(t, a, b - 1)
  BY <1>2
<1> HIDE DEF a, b
<1>5. /\ r \in (1..(N + 1)) \X (1..(N + 1)) /\ r[1] = q + a /\ r[2] = q + b /\ r[1] <= r[2]
      /\ a \in Nat /\ b \in Nat
  BY <1>0, <1>1, <1>3
<1> HIDE DEF r
<1>6. \A k \in (q + a)..((q + b) - 1) : text[k] # "newline"
  <2> TAKE k \in (q + a)..((q + b) - 1)
  <2>1. k - q \in a..(b - 1) /\ k - q \in 1..(N - q) /\ q + (k - q) = k
    BY <1>0, <1>1, <1>3
  <2>2. t[k - q] = text[q + (k - q)]
    BY <1>1, <2>1
  <2> QED
    BY <1>3, <2>1, <2>2
<1>7. text[(q + a) - 1] = "newline"
  <2>1. CASE a = 1
    <3>1. (q + a) - 1 = q
      BY <1>0, <2>1
    <3> QED
      BY <3>1
  <2>2. CASE a # 1
    <3>1. a - 1 \in 1..(N - q) /\ q + (a - 1) = (q + a) - 1
      BY <1>0, <1>1, <1>3, <2>2
    <3>2. t[a - 1] = text[q + (a - 1)]
      BY <1>1, <3>1
    <3> QED
      BY <1>3, <2>2, <3>1, <3>2
  <2> QED
    BY <2>1, <2>2
<1>8. q + b = N + 1 \/ text[q + b] = "newline"
  <2>1. CASE b = Len(t) + 1
    BY <1>0, <1>1, <2>1
  <2>2. CASE b # Len(t) + 1
    <3>1. b \in 1..(N - q)
      BY <1>0, <1>1, <1>3, <2>2
    <3>2. t[b] = text[q + b]
      BY <1>1, <3>1
    <3> QED
      BY <1>3, <2>2, <3>2
  <2> QED
    BY <2>1, <2>2
<1>9. r \in Bounds(text)
  BY <1>5, <1>6, <1>7, <1>8 DEF Bounds, N
<1> DEFINE m == SubSeq(text, r[1], r[2] - 1)
<1>10. m \in LinesOf(text)
  BY <1>9 DEF LinesOf
<1>11. l = m
  <2>1. \A k \in a..(b - 1) : t[k] \in Symbols
    BY <1>1, <1>3
  <2>2. /\ l \in Seq(Symbols) /\ Len(l) = IF a <= b - 1 THEN (b - 1) - a + 1 ELSE 0
        /\ \A i \in 1..((b - 1) - a + 1) : l[i] = t[a + i - 1]
    BY <1>4, <1>5, <2>1, SubSeqProperties
  <2>3. \A k \in (q + a)..((q + b) - 1) : text[k] \in Symbols
    <3>1. \A k \in (q + a)..((q + b) - 1) : k \in 1..N
      BY <1>0, <1>1, <1>3
    <3> QED
      BY <3>1 DEF N
  <2>4. m = SubSeq(text, q + a, (q + b) - 1) /\ q + a \in Int /\ (q + b) - 1 \in Int
    BY <1>0, <1>5
  <2>5. /\ m \in Seq(Symbols) /\ Len(m) = IF q + a <= (q + b) - 1 THEN ((q + b) - 1) - (q + a) + 1 ELSE 0
        /\ \A i \in 1..(((q + b) - 1) - (q + a) + 1) : m[i] = text[(q + a) + i - 1]
    <3> HIDE DEF m
    <3> QED
      BY <2>3, <2>4, SubSeqProperties
  <2> HIDE DEF m
  <2>6. Len(l) = b - a /\ Len(m) = b - a
    BY <1>0, <1>3, <1>5, <2>2, <2>5
  <2>7. ASSUME NEW i \in 1..(b - a) PROVE l[i] = m[i]
    <3>1. /\ i \in 1..((b - 1) - a + 1) /\ i \in 1..(((q + b) - 1) - (q + a) + 1)
          /\ a + i - 1 \in 1..(N - q) /\ (q + a) + i - 1 = q + (a + i - 1)
      BY <1>0, <1>1, <1>3, <1>5
    <3>2. l[i] = t[a + i - 1] /\ m[i] = text[(q + a) + i - 1] /\ t[a + i - 1] = text[q + (a + i - 1)]
      BY <1>1, <2>2, <2>5, <3>1
    <3> QED
      BY <3>1, <3>2
  <2> QED
    BY <2>2, <2>5, <2>6, <2>7, SeqEqual
<1> QED
  BY <1>10, <1>11

-----------------------------------------------------------------------------
(* The guard *)

\* A frame is a text, and not empty.
LEMMA FramesAreTexts == Frames \subseteq Seq(Symbols) /\ <<>> \notin Frames
<1>1. ASSUME NEW f \in Frames PROVE f \in Seq(Symbols) /\ f # <<>>
  <2>1. PICK n \in 1..MaxFrame : f \in [1..n -> Symbols]
    BY DEF Frames
  <2>2. n \in Nat /\ n # 0
    BY GuardAssumption
  <2>3. f \in Seq(Symbols) /\ Len(f) = n
    BY <2>1, <2>2
  <2> QED
    BY <2>2, <2>3
<1> QED
  BY <1>1

\* What the guard judges, and what the device then has, are texts.
LEMMA GuardedIsText ==
  ASSUME TypeOK
  PROVE  /\ input \in Seq(Symbols) /\ frame \in Seq(Symbols) /\ line \in Seq(Symbols)
         /\ Guarded \in Seq(Symbols) /\ line \o frame \in Seq(Symbols)
<1>1. frame \in Seq(Symbols)
  <2>1. <<>> \in Seq(Symbols)
    BY EmptySeq
  <2> QED
    BY <2>1, FramesAreTexts DEF TypeOK
<1>2. input \in Seq(Symbols) /\ line \in Seq(Symbols)
  BY DEF TypeOK
<1> QED
  BY <1>1, <1>2, Joined DEF Guarded

\* Every line that a frame completes on the device, or begins there, is a line of
\* the text that was judged: where the device's line is the kept one the texts are
\* the same, and otherwise the lines counted begin behind a new line of the frame.
LEMMA NewLinesJudged ==
  ASSUME TypeOK, OneLine(line), OneLine(input), shell, ~stale => input = line
  PROVE  NewLines(frame) \subseteq LinesOf(Guarded)
<1> DEFINE u == line \o frame
           I == {i \in 1..Len(u) : u[i] = "newline"}
           first == SelectInSeq(u, LAMBDA v : v = "newline")
           N == Len(line)
<1>0. /\ input \in Seq(Symbols) /\ frame \in Seq(Symbols) /\ line \in Seq(Symbols)
      /\ Guarded \in Seq(Symbols) /\ u \in Seq(Symbols) /\ Guarded = input \o frame
  BY GuardedIsText DEF Guarded
<1>1. N \in Nat /\ Len(frame) \in Nat /\ Len(input) \in Nat
  BY <1>0
<1>2. CASE ~long /\ ~stale
  <2>1. NewLines(frame) = LinesOf(u)
    BY <1>2 DEF NewLines
  <2>2. u = Guarded
    BY <1>0, <1>2
  <2> QED
    BY <2>1, <2>2
<1>3. CASE ~(~long /\ ~stale)
  <2>1. NewLines(frame) = IF first = 0 THEN {} ELSE LinesOf(SubSeq(u, first + 1, Len(u)))
    BY <1>3 DEF NewLines
  <2>2. first = IF I # {} THEN Min(I) ELSE 0
    BY DEF SelectInSeq
  <2> HIDE DEF first
  <2>3. CASE I = {}
    BY <2>1, <2>2, <2>3
  <2>4. CASE I # {}
    <3>1. I \in SUBSET Nat
      OBVIOUS
    <3>2. \E x \in I : \A y \in I : x =< y
      <4> HIDE DEF I
      <4> QED
        BY <2>4, <3>1, LeastNat
    <3>3. first \in I
      <4> HIDE DEF I
      <4> QED
        BY <2>2, <2>4, <3>2 DEF Min
    <3>4. /\ Len(u) = N + Len(frame)
          /\ \A i \in 1..N : u[i] = line[i]
          /\ \A j \in 1..Len(frame) : u[N + j] = frame[j]
      BY <1>0, Joined
    <3>5. first \in 1..Len(u) /\ u[first] = "newline"
      BY <3>3
    <3> HIDE DEF I, u
    <3>6. first \notin 1..N
      BY <3>4, <3>5 DEF OneLine
    <3> DEFINE m == first - N
               q == Len(input) + m
    <3>7. m \in 1..Len(frame) /\ m \in 0..Len(frame) /\ N + m = first
      BY <1>1, <3>4, <3>5, <3>6
    <3> HIDE DEF m
    <3>8. frame[m] = "newline"
      BY <3>4, <3>5, <3>7
    <3>9. SubSeq(u, first + 1, Len(u)) = SubSeq(frame, m + 1, Len(frame))
      <4>1. SubSeq(u, (N + m) + 1, Len(u)) = SubSeq(frame, m + 1, Len(frame))
        BY <1>0, <3>7, JoinedTail DEF u
      <4> QED
        BY <3>7, <4>1
    <3>10. /\ Len(Guarded) = Len(input) + Len(frame)
           /\ Guarded[q] = "newline"
      BY <1>0, <3>7, <3>8, Joined
    <3>11. q \in 1..Len(Guarded)
      BY <1>1, <3>7, <3>10
    <3>12. SubSeq(Guarded, q + 1, Len(Guarded)) = SubSeq(frame, m + 1, Len(frame))
      BY <1>0, <3>7, JoinedTail
    <3>13. LinesOf(SubSeq(Guarded, q + 1, Len(Guarded))) \subseteq LinesOf(Guarded)
      <4> HIDE DEF q
      <4> QED
        BY <1>0, <3>10, <3>11, LinesBehind
    <3>14. first # 0
      BY <3>5
    <3> QED
      BY <2>1, <3>9, <3>12, <3>13, <3>14
  <2> QED
    BY <2>3, <2>4
<1> QED
  BY <1>2, <1>3

\* The kept input is what the device has of its current line, unless it was kept
\* for a session that had ended.
Matched == ~stale => input = IF shell THEN line ELSE <<>>

\* The inductive invariant: neither the kept input nor the device's line has a
\* new line in it, they are the same, and nothing forbidden has got through.
GuardInv == TypeOK /\ OneLine(line) /\ OneLine(input) /\ Matched /\ ~ran

\* Opening, closing and removing a session, taking a frame, and passing or
\* rejecting it preserve the invariant.
LEMMA GuardStep == GuardInv /\ [Next]_vars => GuardInv'
<1> SUFFICES ASSUME GuardInv, [Next]_vars PROVE GuardInv'
  OBVIOUS
<1>0. /\ TypeOK /\ OneLine(line) /\ OneLine(input) /\ Matched /\ ~ran
      /\ GuardLimit \in Nat
  BY GuardAssumption DEF GuardInv
<1>e. <<>> \in Seq(Symbols) /\ Len(<<>>) <= GuardLimit /\ OneLine(<<>>)
  <2>1. <<>> \in Seq(Symbols) /\ Len(<<>>) = 0
    BY EmptySeq
  <2>2. OneLine(<<>>)
    BY <2>1 DEF OneLine
  <2> QED
    BY <1>0, <2>1, <2>2
<1>1. CASE OpenShell
  <2>1. TypeOK'
    BY <1>0, <1>1, <1>e DEF OpenShell, TypeOK
  <2>2. OneLine(line)' /\ OneLine(input)'
    BY <1>0, <1>1, <1>e DEF OpenShell, OneLine
  <2>3. Matched'
    BY <1>0, <1>1 DEF OpenShell, Matched
  <2> QED
    BY <1>0, <1>1, <2>1, <2>2, <2>3 DEF OpenShell, GuardInv
<1>2. CASE RejectInput \/ RemoveShell \/ StopShell
  <2>1. shell' = FALSE /\ input' = <<>> /\ stale' = FALSE /\ (frame' = <<>> \/ frame' = frame)
        /\ line' = line /\ long' = long /\ ran' = ran
    BY <1>2 DEF RejectInput, RemoveShell, StopShell
  <2>2. TypeOK'
    BY <1>0, <2>1, <1>e DEF TypeOK
  <2>3. OneLine(line)' /\ OneLine(input)'
    BY <1>0, <2>1, <1>e DEF OneLine
  <2> QED
    BY <1>0, <2>1, <2>2, <2>3 DEF GuardInv, Matched
<1>3. CASE \E f \in Frames : ReceiveInput(f)
  <2>1. frame' \in Frames /\ UNCHANGED <<shell, input, line, long, stale, ran>>
    BY <1>3 DEF ReceiveInput
  <2>2. TypeOK'
    BY <1>0, <2>1 DEF TypeOK
  <2>3. OneLine(line)' /\ OneLine(input)' /\ Matched'
    BY <1>0, <2>1 DEF OneLine, Matched
  <2> QED
    BY <1>0, <2>1, <2>2, <2>3 DEF GuardInv
<1>4. CASE PassInput
  <2> DEFINE now == Unfinished(line \o frame)
             fresh == \E i \in DOMAIN frame : frame[i] = "newline"
  <2>1. /\ InspectShell(Guarded)
        /\ input' = Retained(Guarded) /\ frame' = <<>> /\ shell' = shell
        /\ shell => /\ line' = LastSymbols(now, GuardLimit)
                    /\ long' = (Len(now) > GuardLimit \/ (long /\ ~fresh))
                    /\ ran' = (ran \/ \E l \in NewLines(frame) : ~Glued(l) /\ Forbidden(l))
                    /\ stale' = (stale /\ ~fresh)
        /\ ~shell => stale' = (input' # <<>>) /\ line' = line /\ long' = long /\ ran' = ran
    BY <1>4 DEF PassInput
  <2>2. /\ input \in Seq(Symbols) /\ frame \in Seq(Symbols) /\ line \in Seq(Symbols)
        /\ Guarded \in Seq(Symbols) /\ line \o frame \in Seq(Symbols)
    BY <1>0, GuardedIsText
  <2>3. /\ now \in Seq(Symbols) /\ OneLine(now)
        /\ Unfinished(Guarded) \in Seq(Symbols) /\ OneLine(Unfinished(Guarded))
    BY <2>2, UnfinishedType
  <2>4. input' \in Seq(Symbols) /\ Len(input') <= GuardLimit /\ OneLine(input')
    BY <1>0, <2>1, <2>3, LastSymbolsType DEF Retained
  <2>5. line' \in Seq(Symbols) /\ Len(line') <= GuardLimit /\ OneLine(line')
    <3>1. CASE shell
      <4> HIDE DEF now
      <4> QED
        BY <1>0, <2>1, <2>3, <3>1, LastSymbolsType
    <3>2. CASE ~shell
      BY <1>0, <2>1, <3>2 DEF TypeOK
    <3> QED
      BY <3>1, <3>2
  <2>6. long' \in BOOLEAN /\ stale' \in BOOLEAN
    <3> HIDE DEF now, fresh
    <3>1. long \in BOOLEAN /\ stale \in BOOLEAN
      BY <1>0 DEF TypeOK
    <3>2. CASE shell
      BY <2>1, <3>1, <3>2
    <3>3. CASE ~shell
      BY <2>1, <3>1, <3>3
    <3> QED
      BY <3>2, <3>3
  <2>7. ran' = FALSE
    <3>1. CASE shell
      <4>1. NewLines(frame) \subseteq LinesOf(Guarded)
        BY <1>0, <3>1, NewLinesJudged DEF Matched
      <4>2. \A l \in NewLines(frame) : ~Glued(l) => ~Forbidden(l)
        BY <2>1, <2>2, <4>1, AllowedLines
      <4>3. ~(\E l \in NewLines(frame) : ~Glued(l) /\ Forbidden(l))
        BY <4>2
      <4>4. ran = FALSE
        BY <1>0 DEF TypeOK
      <4> QED
        BY <2>1, <3>1, <4>3, <4>4
    <3>2. CASE ~shell
      BY <1>0, <2>1, <3>2 DEF TypeOK
    <3> QED
      BY <3>1, <3>2
  <2>8. TypeOK'
    BY <1>0, <2>1, <2>4, <2>5, <2>6, <2>7 DEF TypeOK
  <2>9. ASSUME ~stale' PROVE input' = IF shell' THEN line' ELSE <<>>
    <3>1. CASE ~shell
      BY <2>1, <2>9, <3>1
    <3>2. CASE shell
      <4>1. Unfinished(Guarded) = now
        <5>1. CASE ~stale
          <6>1. input = line
            BY <1>0, <3>2, <5>1 DEF Matched
          <6> QED
            BY <6>1 DEF Guarded
        <5>2. CASE stale
          <6>1. fresh
            BY <2>1, <2>9, <3>2, <5>2
          <6>2. Unfinished(input \o frame) = Unfinished(frame)
            BY <2>2, <6>1, JoinedUnfinished
          <6>3. now = Unfinished(frame)
            BY <2>2, <6>1, JoinedUnfinished
          <6> QED
            BY <6>2, <6>3 DEF Guarded
        <5> QED
          BY <5>1, <5>2
      <4> HIDE DEF now, fresh
      <4> QED
        BY <2>1, <3>2, <4>1 DEF Retained
    <3> QED
      BY <3>1, <3>2
  <2>10. Matched'
    BY <2>9 DEF Matched
  <2>11. OneLine(line)' /\ OneLine(input)'
    BY <2>4, <2>5 DEF OneLine
  <2> QED
    BY <2>7, <2>8, <2>10, <2>11 DEF GuardInv
<1>5. CASE UNCHANGED vars
  <2>1. TypeOK'
    BY <1>0, <1>5 DEF TypeOK, vars
  <2> QED
    BY <1>0, <1>5, <2>1 DEF GuardInv, Matched, OneLine, vars
<1> QED
  BY <1>1, <1>2, <1>3, <1>4, <1>5 DEF Next

\* A channel without a session satisfies it.
LEMMA GuardStart == Init => GuardInv
<1> SUFFICES ASSUME Init PROVE GuardInv
  OBVIOUS
<1>1. <<>> \in Seq(Symbols) /\ Len(<<>>) = 0 /\ GuardLimit \in Nat
  BY GuardAssumption, EmptySeq
<1>2. OneLine(<<>>)
  BY <1>1 DEF OneLine
<1>3. TypeOK
  <2>1. Len(<<>>) <= GuardLimit
    BY <1>1
  <2> QED
    BY <1>1, <2>1 DEF Init, TypeOK
<1> QED
  BY <1>2, <1>3 DEF Init, GuardInv, Matched

\* The invariant holds of every channel, whatever the limits and the policy.
LEMMA GuardInvariant == Spec => []GuardInv
BY GuardStart, GuardStep, PTL DEF Spec

\* shellInput never outgrows shellInputGuardLimit, and nothing else leaves its
\* type.
THEOREM GuardTypes == Spec => []TypeOK
<1>1. GuardInv => TypeOK
  BY DEF GuardInv
<1> QED
  BY <1>1, GuardInvariant, PTL

\* However handleShell gets a line in frames, and whenever the device ends the
\* session between the lookup and the write, no forbidden line reaches the device
\* that the guard could see from its beginning.
THEOREM GuardStopsForbidden == Spec => []NoForbiddenLine
<1>1. GuardInv => NoForbiddenLine
  BY DEF GuardInv, NoForbiddenLine
<1> QED
  BY <1>1, GuardInvariant, PTL

\* lexShellSegments and InspectShell judge every text the guard builds as the
\* sequence of its lines: it is allowed if and only if none of them is forbidden.
THEOREM GuardJudgesLines == Spec => []JudgedByLine
<1>1. GuardInv => JudgedByLine
  <2> SUFFICES ASSUME GuardInv, \A l \in LinesOf(Guarded) : ~Glued(l)
               PROVE  InspectShell(Guarded) <=> \A l \in LinesOf(Guarded) : ~Forbidden(l)
    BY DEF JudgedByLine
  <2>1. Guarded \in Seq(Symbols)
    BY GuardedIsText DEF GuardInv
  <2>2. ASSUME InspectShell(Guarded), NEW l \in LinesOf(Guarded) PROVE ~Forbidden(l)
    BY <2>1, <2>2, AllowedLines
  <2>3. ASSUME \A l \in LinesOf(Guarded) : ~Forbidden(l) PROVE InspectShell(Guarded)
    BY <2>1, <2>3, AllowedText
  <2> QED
    BY <2>2, <2>3
<1> QED
  BY <1>1, GuardInvariant, PTL
=============================================================================
