-------------------------- MODULE AppBridgeProofs --------------------------
(***************************************************************************)
(* The app family for any number of channels, sessions, commands and       *)
(* packages, and any quota: every package has one owner, a session knows   *)
(* its command, and Close leaves nothing behind.                           *)
(***************************************************************************)
EXTENDS AppBridge, FiniteSetTheorems, TLAPS

\* The types of everything but the counter of the store.
Shape ==
  /\ alloc \in [Transfers -> AllocRec] /\ used \in Nat
  /\ sessions \in [Channels -> Sessions \cup {None}]
  /\ sess \in [Sessions -> SessRec] /\ cmds \in [Commands -> CmdRec]
  /\ main \in {"idle", "cancel", "wait", "closed"}

-----------------------------------------------------------------------------
(* Sessions and commands *)

\* A session is registered for one channel.
OneChannel == \A c, d \in Channels : sessions[c] = sessions[d] /\ sessions[c] # None => c = d

\* A registered session is open; any other one has given up its target and its
\* package; and an attached target is that of a command that reads for the session.
SessForm ==
  \A s \in Sessions :
    /\ Registered(s) => ~sess[s].closed
    /\ ~Registered(s) => sess[s].target = None /\ sess[s].transfer = None
    /\ sess[s].target # None =>
         /\ sess[s].running /\ cmds[sess[s].target].sess = s
         /\ cmds[sess[s].target].pc \in {"read", "finish"}

\* A command that is not over has a session, which is registered or closed; one that
\* is over owns nothing.
CmdForm ==
  \A k \in Commands :
    /\ cmds[k].pc = "none" => cmds[k] = NoCmd
    /\ cmds[k].pc = "done" => cmds[k].cleanup = None
    /\ cmds[k].pc = "open" => cmds[k].target = "none"
    /\ cmds[k].pc # "none" =>
         cmds[k].sess \in Sessions /\ (Registered(cmds[k].sess) \/ sess[cmds[k].sess].closed)

\* A target that is open and not about to be attached is its session's, or the
\* session has lost track of its commands.
TargetKnown ==
  \A k \in Commands : cmds[k].target = "open" /\ cmds[k].pc # "attach" =>
    sess[cmds[k].sess].target = k \/ sess[cmds[k].sess].strayed

\* The commands a session is going to hear from.
Mine(s) == Opening(s) \cup ({sess[s].target} \ {None})

CommandKnown ==
  \A s \in Sessions : Registered(s) /\ ~sess[s].strayed =>
    /\ sess[s].running => \E k \in Commands : Mine(s) = {k}
    /\ ~sess[s].running => Mine(s) = {}

-----------------------------------------------------------------------------
(* Packages *)

\* A package is received by one session at most or installed by one command at most,
\* and by one of the two exactly as long as it is on disk.
Owned ==
  /\ \A s \in Sessions : sess[s].transfer # None => alloc[sess[s].transfer].st = "held"
  /\ \A k \in Commands : cmds[k].cleanup # None => alloc[cmds[k].cleanup].st = "held"
  /\ \A s, r \in Sessions : sess[s].transfer = sess[r].transfer /\ sess[s].transfer # None => s = r
  /\ \A k, j \in Commands : cmds[k].cleanup = cmds[j].cleanup /\ cmds[k].cleanup # None => k = j
  /\ \A s \in Sessions, k \in Commands : cmds[k].cleanup = sess[s].transfer => sess[s].transfer = None
  /\ \A t \in Transfers : alloc[t].st = "held" =>
       (\E s \in Sessions : sess[s].transfer = t) \/ (\E k \in Commands : cmds[k].cleanup = t)

\* An allocation is whole or it is none.
AllocForm ==
  \A t \in Transfers : alloc[t] = NoAlloc \/ (alloc[t].st = "held" /\ alloc[t].back = 0)

Quota == used = Accounted /\ used <= MaxBytes

-----------------------------------------------------------------------------
(* The end *)

Ending ==
  /\ main \in {"wait", "closed"} => \A ch \in Channels : sessions[ch] = None
  /\ main = "closed" => \A k \in Commands : ~Alive(k)

\* A package never gets more bytes than it has declared.
Fits == \A s \in Sessions : sess[s].got <= sess[s].want

Inv ==
  /\ Shape /\ OneChannel /\ SessForm /\ CmdForm /\ TargetKnown /\ CommandKnown
  /\ Owned /\ AllocForm /\ Quota /\ Ending /\ Fits

-----------------------------------------------------------------------------
(* The quota *)

\* Numbered bytes of finitely many owners are finitely many.
LEMMA FiniteShares ==
  ASSUME NEW S, IsFiniteSet(S), NEW n \in [S -> Nat]
  PROVE  IsFiniteSet(UNION {{q} \X (1..n[q]) : q \in S})
<1> DEFINE T == {{q} \X (1..n[q]) : q \in S}
           f == [q \in S |-> {q} \X (1..n[q])]
<1>1. f \in Surjection(S, T)
  BY DEF Surjection
<1>2. IsFiniteSet(T)
  BY <1>1, FS_Surjection
<1>3. \A q \in S : IsFiniteSet({q} \X (1..n[q]))
  <2> TAKE q \in S
  <2>1. IsFiniteSet({q})
    BY FS_Singleton
  <2>2. n[q] \in Int
    OBVIOUS
  <2>3. IsFiniteSet(1..n[q])
    BY <2>2, FS_Interval
  <2> QED
    BY <2>1, <2>3, FS_Product
<1>4. \A X \in T : IsFiniteSet(X)
  BY <1>3
<1> HIDE DEF T
<1>5. IsFiniteSet(UNION T)
  BY <1>2, <1>4, FS_UNION
<1> QED
  BY <1>5 DEF T

\* One owner's bytes come on top of the others'.
LEMMA SharesAdd ==
  ASSUME NEW S, IsFiniteSet(S), NEW n \in [S -> Nat], NEW t \in S
  PROVE  /\ Cardinality(UNION {{q} \X (1..n[q]) : q \in S \ {t}}) \in Nat
         /\ Cardinality(UNION {{q} \X (1..n[q]) : q \in S}) =
              Cardinality(UNION {{q} \X (1..n[q]) : q \in S \ {t}}) + n[t]
<1> DEFINE All  == UNION {{q} \X (1..n[q]) : q \in S}
           Rest == UNION {{q} \X (1..n[q]) : q \in S \ {t}}
           Own  == {t} \X (1..n[t])
<1>1. All = Rest \cup Own /\ Rest \cap Own = {}
  OBVIOUS
<1>2. IsFiniteSet(Own) /\ Cardinality(Own) = n[t]
  <2>1. IsFiniteSet({t}) /\ Cardinality({t}) = 1
    BY FS_Singleton
  <2>2. IsFiniteSet(1..n[t]) /\ Cardinality(1..n[t]) = n[t]
    BY FS_Interval
  <2>3. IsFiniteSet(Own) /\ Cardinality(Own) = Cardinality({t}) * Cardinality(1..n[t])
    BY <2>1, <2>2, FS_Product
  <2> QED
    BY <2>1, <2>2, <2>3
<1>3. IsFiniteSet(All)
  BY FiniteShares
<1>4. IsFiniteSet(Rest)
  BY <1>1, <1>3, FS_Subset
<1> HIDE DEF All, Rest, Own
<1>5. Cardinality(All) = Cardinality(Rest) + Cardinality(Own) - Cardinality(Rest \cap Own)
  BY <1>1, <1>2, <1>4, FS_Union
<1>6. Cardinality(Rest) \in Nat /\ Cardinality({}) = 0
  BY <1>4, FS_CardinalityType, FS_EmptySet
<1>7. Cardinality(All) = Cardinality(Rest) + n[t]
  BY <1>1, <1>2, <1>5, <1>6
<1> QED
  BY <1>6, <1>7 DEF All, Rest

\* A step that touches one allocation moves the account by its difference.
LEMMA AccountMoves ==
  ASSUME alloc \in [Transfers -> AllocRec], alloc' \in [Transfers -> AllocRec], NEW t \in Transfers,
         \A q \in Transfers \ {t} : alloc'[q] = alloc[q]
  PROVE  /\ Accounted \in Nat /\ Accounted' \in Nat
         /\ Accounted >= alloc[t].size + alloc[t].back
         /\ Accounted' = Accounted - (alloc[t].size + alloc[t].back) + (alloc'[t].size + alloc'[t].back)
<1> DEFINE n == [q \in Transfers |-> alloc[q].size + alloc[q].back]
           m == [q \in Transfers |-> alloc'[q].size + alloc'[q].back]
           Rest(f) == UNION {{q} \X (1..f[q]) : q \in Transfers \ {t}}
<1>1. n \in [Transfers -> Nat] /\ m \in [Transfers -> Nat]
  BY DEF AllocRec
<1>2. \A q \in Transfers \ {t} : n[q] = m[q]
  OBVIOUS
<1>3. Rest(n) = Rest(m)
  BY <1>2
<1>4. /\ Accounted = Cardinality(UNION {{q} \X (1..n[q]) : q \in Transfers})
      /\ Accounted' = Cardinality(UNION {{q} \X (1..m[q]) : q \in Transfers})
  <2>1. /\ {Share(q) : q \in Transfers} = {{q} \X (1..n[q]) : q \in Transfers}
        /\ {Share(q)' : q \in Transfers} = {{q} \X (1..m[q]) : q \in Transfers}
    BY DEF Share
  <2> QED
    BY <2>1 DEF Accounted
<1>5. n[t] = alloc[t].size + alloc[t].back /\ m[t] = alloc'[t].size + alloc'[t].back
  OBVIOUS
<1> HIDE DEF n, m
<1>6. /\ Cardinality(Rest(n)) \in Nat /\ Accounted = Cardinality(Rest(n)) + n[t]
      /\ Accounted' = Cardinality(Rest(m)) + m[t]
  <2>1. IsFiniteSet(Transfers)
    BY TempStoreAssumption
  <2>2. /\ Cardinality(Rest(n)) \in Nat
        /\ Cardinality(UNION {{q} \X (1..n[q]) : q \in Transfers}) = Cardinality(Rest(n)) + n[t]
    BY <1>1, <2>1, SharesAdd
  <2>3. Cardinality(UNION {{q} \X (1..m[q]) : q \in Transfers}) = Cardinality(Rest(m)) + m[t]
    BY <1>1, <2>1, SharesAdd
  <2> QED
    BY <1>4, <2>2, <2>3
<1>7. n[t] \in Nat /\ m[t] \in Nat
  BY <1>1
<1> HIDE DEF Rest
<1> QED
  BY <1>3, <1>5, <1>6, <1>7

\* Where nothing is allocated nothing is accounted for.
LEMMA NothingAccounted ==
  ASSUME \A t \in Transfers : alloc[t] = NoAlloc
  PROVE  Accounted = 0
<1>1. \A t \in Transfers : Share(t) = {}
  BY DEF Share, NoAlloc
<1>2. UNION {Share(t) : t \in Transfers} = {}
  BY <1>1
<1> QED
  BY <1>2, FS_EmptySet DEF Accounted

\* A reservation keeps the account of the store.
LEMMA ReserveKeeps ==
  ASSUME Shape, AllocForm, Quota, NEW t \in Transfers, NEW n \in Nat, alloc[t].st = "none", Reserve(t, n)
  PROVE  /\ alloc' \in [Transfers -> AllocRec] /\ used' \in Nat /\ AllocForm' /\ Quota'
         /\ alloc'[t].st = "held" /\ \A q \in Transfers \ {t} : alloc'[q] = alloc[q]
<1> DEFINE rec == [size |-> n, back |-> 0, st |-> "held"]
<1>1. rec \in AllocRec /\ rec.size = n /\ rec.back = 0 /\ rec.st = "held"
  BY DEF AllocRec
<1>2. alloc[t].size = 0 /\ alloc[t].back = 0
  BY DEF AllocForm, NoAlloc
<1>3. /\ alloc' = [alloc EXCEPT ![t] = rec] /\ used' = used + n /\ n <= MaxBytes - used
      /\ alloc \in [Transfers -> AllocRec]
  BY DEF Reserve, Shape
<1> HIDE DEF rec
<1>4. /\ alloc' \in [Transfers -> AllocRec] /\ alloc'[t] = rec
      /\ \A q \in Transfers \ {t} : alloc'[q] = alloc[q]
  BY <1>1, <1>3
<1>5. Accounted' = Accounted - (alloc[t].size + alloc[t].back) + (alloc'[t].size + alloc'[t].back)
  BY <1>3, <1>4, AccountMoves
<1>6. Quota' /\ used' \in Nat
  BY <1>1, <1>2, <1>3, <1>4, <1>5, TempStoreAssumption DEF Quota, Shape
<1> QED
  BY <1>1, <1>4, <1>6 DEF AllocForm

\* So does the release of a package by its owner.
LEMMA ReleaseKeeps ==
  ASSUME Shape, AllocForm, Quota, NEW t \in Transfers \cup {None}, t # None => alloc[t].st = "held",
         Release(t)
  PROVE  /\ alloc' \in [Transfers -> AllocRec] /\ used' \in Nat /\ AllocForm' /\ Quota'
         /\ t # None => alloc'[t].st = "none"
         /\ \A q \in Transfers \ {t} : alloc'[q] = alloc[q]
<1>1. CASE t = None
  <2>1. UNCHANGED <<used, alloc>>
    BY <1>1 DEF Release, store
  <2>2. Accounted' = Accounted
    BY <2>1 DEF Accounted, Share
  <2> QED
    BY <1>1, <2>1, <2>2 DEF Shape, AllocForm, Quota
<1>2. CASE t # None
  <2>0. t \in Transfers
    BY <1>2
  <2>1. /\ NoAlloc \in AllocRec /\ NoAlloc.size = 0 /\ NoAlloc.back = 0 /\ NoAlloc.st = "none"
        /\ alloc[t].back = 0
    BY <1>2, <2>0 DEF NoAlloc, AllocRec, AllocForm
  <2>2. /\ alloc' = [alloc EXCEPT ![t] = NoAlloc] /\ used' = Less(alloc[t].size)
        /\ alloc \in [Transfers -> AllocRec]
    BY <1>2 DEF Release, Unreserve, Shape
  <2> HIDE DEF NoAlloc
  <2>3. /\ alloc' \in [Transfers -> AllocRec] /\ alloc'[t] = NoAlloc
        /\ \A q \in Transfers \ {t} : alloc'[q] = alloc[q]
    BY <2>0, <2>1, <2>2
  <2>4. /\ Accounted >= alloc[t].size + alloc[t].back
        /\ Accounted' = Accounted - (alloc[t].size + alloc[t].back) + (alloc'[t].size + alloc'[t].back)
    BY <2>0, <2>2, <2>3, AccountMoves
  <2>5. alloc[t].size \in Nat
    BY <2>0, <2>2 DEF AllocRec
  <2>6. Quota' /\ used' \in Nat
    BY <2>1, <2>2, <2>3, <2>4, <2>5, TempStoreAssumption DEF Quota, Shape, Less
  <2> QED
    BY <2>1, <2>3, <2>6 DEF AllocForm
<1> QED
  BY <1>1, <1>2

\* So does every step that leaves the store alone.
LEMMA StoreSame ==
  ASSUME Shape, AllocForm, Quota, UNCHANGED store
  PROVE  alloc' \in [Transfers -> AllocRec] /\ used' \in Nat /\ AllocForm' /\ Quota'
<1>1. Accounted' = Accounted
  BY DEF store, Accounted, Share
<1> QED
  BY <1>1 DEF store, Shape, AllocForm, Quota

-----------------------------------------------------------------------------
(* The main loop *)

\* The free records.
LEMMA FreeRecords ==
  /\ NoSess \in SessRec /\ ~NoSess.closed /\ ~NoSess.running /\ NoSess.target = None
  /\ NoSess.transfer = None /\ NoSess.got = 0 /\ NoSess.want = 0 /\ ~NoSess.strayed
  /\ NoCmd \in CmdRec /\ NoCmd.sess = None /\ NoCmd.cleanup = None /\ NoCmd.pc = "none"
  /\ NoCmd.target = "none"
BY AppBridgeAssumption DEF NoSess, SessRec, NoCmd, CmdRec

\* A frame finds the session of its channel or registers a new one, which nothing
\* that is still running knows of.
LEMMA EnterSession ==
  ASSUME Shape, OneChannel, SessForm, CmdForm, CommandKnown, Fits,
         NEW ch \in Channels, NEW s \in Sessions, SessionOf(ch, s), Register(ch, s)
  PROVE  LET r == Current(ch, s) IN
         /\ sessions' \in [Channels -> Sessions \cup {None}] /\ OneChannel'
         /\ \A q \in Sessions : Registered(q)' <=> Registered(q) \/ q = s
         /\ r \in SessRec /\ ~r.closed /\ r.got <= r.want
         /\ r.target = sess[s].target /\ r.transfer = sess[s].transfer
         /\ r = sess[s] \/ \A k \in Commands : cmds[k].sess # s
         /\ ~r.strayed =>
              /\ r.running => \E k \in Commands : Mine(s) = {k}
              /\ ~r.running => Mine(s) = {}
<1>0. sessions \in [Channels -> Sessions \cup {None}] /\ sess \in [Sessions -> SessRec]
  BY DEF Shape
<1>1. /\ sessions'[ch] = s /\ \A d \in Channels \ {ch} : sessions'[d] = sessions[d]
      /\ sessions' \in [Channels -> Sessions \cup {None}]
  BY <1>0 DEF Register
<1>2. CASE sessions[ch] # None
  <2>1. s = sessions[ch] /\ Registered(s) /\ Current(ch, s) = sess[s] /\ sessions' = sessions
    BY <1>0, <1>2 DEF SessionOf, Registered, Current, Register
  <2> QED
    BY <1>0, <1>1, <2>1 DEF OneChannel, Registered, SessForm, CommandKnown, Fits
<1>3. CASE sessions[ch] = None
  <2>1. FreeSess(s) /\ Current(ch, s) = NoSess
    BY <1>3 DEF SessionOf, Current
  <2>2. \A d \in Channels : sessions[d] # s
    BY <2>1 DEF FreeSess, Registered
  <2>3. OneChannel'
    BY <1>1, <2>2 DEF OneChannel
  <2>4. \A q \in Sessions : Registered(q)' <=> Registered(q) \/ q = s
    BY <1>1, <1>3, AppBridgeAssumption DEF Registered
  <2>5. sess[s].target = None /\ sess[s].transfer = None
    BY <2>1 DEF FreeSess, SessForm
  <2>6. Mine(s) = {}
    BY <2>1, <2>5 DEF Mine, Opening, FreeSess
  <2> QED
    BY <1>1, <2>1, <2>3, <2>4, <2>5, <2>6, FreeRecords DEF FreeSess
<1> QED
  BY <1>2, <1>3

\* A session that does not run has no target, so that a command it starts is its only
\* one.
LEMMA StartCommandInv ==
  ASSUME Inv, NEW ch \in Channels, NEW s \in Sessions, NEW k \in Commands, StartCommand(ch, s, k)
  PROVE  Inv'
<1> DEFINE r == Current(ch, s)
<1>0. /\ Shape /\ OneChannel /\ SessForm /\ CmdForm /\ TargetKnown /\ CommandKnown
      /\ Owned /\ AllocForm /\ Quota /\ Ending /\ Fits
      /\ sess \in [Sessions -> SessRec] /\ cmds \in [Commands -> CmdRec]
  BY DEF Inv, Shape
<1>1. /\ sessions' \in [Channels -> Sessions \cup {None}] /\ OneChannel'
      /\ \A q \in Sessions : Registered(q)' <=> Registered(q) \/ q = s
      /\ r \in SessRec /\ ~r.closed /\ r.got <= r.want
      /\ r.target = sess[s].target /\ r.transfer = sess[s].transfer
      /\ r = sess[s] \/ \A j \in Commands : cmds[j].sess # s
      /\ ~r.strayed /\ ~r.running => Mine(s) = {}
  BY <1>0, EnterSession DEF StartCommand
<1>2. /\ ~r.running /\ r.transfer = None /\ UNCHANGED <<store, main>> /\ main = "idle"
      /\ sess' = [sess EXCEPT ![s] = [r EXCEPT !.running = TRUE]]
      /\ cmds[k] = NoCmd
      /\ cmds' = [cmds EXCEPT ![k] = [sess |-> s, cleanup |-> None, pc |-> "open", target |-> "none"]]
  BY DEF StartCommand, Available, Launch
<1>3. r.target = None
  <2>1. sess[s].target \in Commands \cup {None}
    BY <1>0 DEF SessRec
  <2> QED
    BY <1>0, <1>1, <1>2, <2>1 DEF SessForm
<1> HIDE DEF r
<1>4. /\ sess'[s].running /\ ~sess'[s].closed /\ sess'[s].target = None /\ sess'[s].transfer = None
      /\ sess'[s].strayed = r.strayed /\ sess'[s].got <= sess'[s].want
      /\ \A q \in Sessions \ {s} : sess'[q] = sess[q]
      /\ sess' \in [Sessions -> SessRec]
  <2>1. [r EXCEPT !.running = TRUE] \in SessRec
    BY <1>1 DEF SessRec
  <2> QED
    BY <1>0, <1>1, <1>2, <1>3, <2>1 DEF SessRec
<1>5. /\ cmds'[k].sess = s /\ cmds'[k].cleanup = None /\ cmds'[k].pc = "open" /\ cmds'[k].target = "none"
      /\ \A j \in Commands \ {k} : cmds'[j] = cmds[j]
      /\ cmds' \in [Commands -> CmdRec]
  BY <1>0, <1>2 DEF CmdRec
<1>6. Shape' /\ AllocForm' /\ Quota'
  BY <1>0, <1>1, <1>2, <1>4, <1>5, StoreSame DEF Shape
<1>7. SessForm'
  BY <1>0, <1>1, <1>2, <1>4, <1>5, FreeRecords DEF SessForm
<1>8. CmdForm'
  BY <1>0, <1>1, <1>4, <1>5 DEF CmdForm
<1>9. TargetKnown'
  BY <1>0, <1>1, <1>3, <1>4, <1>5, FreeRecords DEF TargetKnown, CmdForm
<1>10. CommandKnown'
  <2>1. Mine(s)' = Opening(s) \cup {k} /\ \A q \in Sessions \ {s} : Mine(q)' = Mine(q)
    BY <1>2, <1>4, <1>5, FreeRecords, AppBridgeAssumption DEF Mine, Opening
  <2>2. ~r.strayed => Mine(s)' = {k}
    BY <1>1, <1>2, <2>1 DEF Mine
  <2> QED
    BY <1>0, <1>1, <1>4, <2>1, <2>2 DEF CommandKnown
<1>11. Owned'
  <2>1. \A q \in Sessions : sess'[q].transfer = sess[q].transfer
    BY <1>1, <1>2, <1>4
  <2>2. \A j \in Commands : cmds'[j].cleanup = cmds[j].cleanup
    BY <1>2, <1>5, FreeRecords
  <2> QED
    BY <1>0, <1>2, <2>1, <2>2 DEF Owned, store
<1>12. Fits' /\ Ending'
  BY <1>0, <1>2, <1>4 DEF Fits, Ending
<1> QED
  BY <1>1, <1>6, <1>7, <1>8, <1>9, <1>10, <1>11, <1>12 DEF Inv

\* A package that arrives is the session's, from the reservation of its size on.
LEMMA PrepareInstallInv ==
  ASSUME Inv, NEW ch \in Channels, NEW s \in Sessions, NEW t \in Transfers, NEW n \in 0..MaxAppBytes,
         PrepareInstall(ch, s, t, n)
  PROVE  Inv'
<1> DEFINE r == Current(ch, s)
<1>0. /\ Shape /\ OneChannel /\ SessForm /\ CmdForm /\ TargetKnown /\ CommandKnown
      /\ Owned /\ AllocForm /\ Quota /\ Ending /\ Fits
      /\ sess \in [Sessions -> SessRec] /\ cmds \in [Commands -> CmdRec]
  BY DEF Inv, Shape
<1>1. /\ sessions' \in [Channels -> Sessions \cup {None}] /\ OneChannel'
      /\ \A q \in Sessions : Registered(q)' <=> Registered(q) \/ q = s
      /\ r \in SessRec /\ ~r.closed
      /\ r.target = sess[s].target /\ r.transfer = sess[s].transfer
      /\ r = sess[s] \/ \A j \in Commands : cmds[j].sess # s
      /\ ~r.strayed /\ ~r.running => Mine(s) = {}
  BY <1>0, EnterSession DEF PrepareInstall
<1>2. /\ ~r.running /\ r.transfer = None /\ UNCHANGED <<cmds, main>> /\ main = "idle"
      /\ sess' = [sess EXCEPT ![s] = [r EXCEPT !.transfer = t, !.got = 0, !.want = n]]
      /\ alloc[t].st = "none" /\ Reserve(t, n) /\ t # None
  BY AppBridgeAssumption DEF PrepareInstall, Available, FreeAlloc
<1>3. r.target = None
  <2>1. sess[s].target \in Commands \cup {None}
    BY <1>0 DEF SessRec
  <2> QED
    BY <1>0, <1>1, <1>2, <2>1 DEF SessForm
<1> HIDE DEF r
<1>4. /\ ~sess'[s].running /\ ~sess'[s].closed /\ sess'[s].target = None /\ sess'[s].transfer = t
      /\ sess'[s].strayed = r.strayed /\ sess'[s].got = 0 /\ sess'[s].want = n
      /\ \A q \in Sessions \ {s} : sess'[q] = sess[q]
      /\ sess' \in [Sessions -> SessRec]
  <2>1. [r EXCEPT !.transfer = t, !.got = 0, !.want = n] \in SessRec
    <3>1. 0 \in 0..MaxAppBytes
      BY AppBridgeAssumption
    <3> QED
      BY <1>1, <3>1 DEF SessRec
  <2> QED
    BY <1>0, <1>1, <1>2, <1>3, <2>1 DEF SessRec
<1>5. /\ alloc' \in [Transfers -> AllocRec] /\ used' \in Nat /\ AllocForm' /\ Quota'
      /\ alloc'[t].st = "held" /\ \A q \in Transfers \ {t} : alloc'[q] = alloc[q]
  <2>1. n \in Nat
    BY AppBridgeAssumption
  <2> QED
    BY <1>0, <1>2, <2>1, ReserveKeeps
<1>6. Shape'
  BY <1>0, <1>1, <1>2, <1>4, <1>5 DEF Shape
<1>7. SessForm'
  BY <1>0, <1>1, <1>2, <1>4 DEF SessForm
<1>8. CmdForm'
  BY <1>0, <1>1, <1>2, <1>4 DEF CmdForm
<1>9. TargetKnown'
  BY <1>0, <1>1, <1>2, <1>3, <1>4, FreeRecords DEF TargetKnown, CmdForm
<1>10. CommandKnown'
  <2>1. Mine(s)' = Opening(s) /\ \A q \in Sessions \ {s} : Mine(q)' = Mine(q)
    BY <1>2, <1>4 DEF Mine, Opening
  <2> QED
    BY <1>0, <1>1, <1>2, <1>4, <2>1 DEF CommandKnown, Mine
<1>11. Owned'
  <2>1. /\ \A q \in Sessions : sess[q].transfer # t
        /\ \A j \in Commands : cmds[j].cleanup # t
    BY <1>0, <1>2 DEF Owned
  <2>2. \A q \in Sessions \ {s} : sess'[q].transfer = sess[q].transfer
    BY <1>4
  <2>3. /\ \A q \in Sessions : sess[q].transfer \in Transfers \cup {None}
        /\ \A j \in Commands : cmds[j].cleanup \in Transfers \cup {None}
    BY <1>0 DEF SessRec, CmdRec
  <2>4. /\ \A q \in Sessions : sess'[q].transfer = IF q = s THEN t ELSE sess[q].transfer
        /\ \A j \in Commands : cmds'[j].cleanup = cmds[j].cleanup
        /\ sess[s].transfer = None
    BY <1>1, <1>2, <1>4, <2>2
  <2>5. /\ \A q \in Sessions : sess'[q].transfer # None => alloc'[sess'[q].transfer].st = "held"
        /\ \A j \in Commands : cmds'[j].cleanup # None => alloc'[cmds'[j].cleanup].st = "held"
    BY <1>0, <1>5, <2>1, <2>3, <2>4 DEF Owned
  <2>6. \A u \in Transfers : alloc'[u].st = "held" =>
          (\E q \in Sessions : sess'[q].transfer = u) \/ (\E j \in Commands : cmds'[j].cleanup = u)
    BY <1>0, <1>5, <2>4, AppBridgeAssumption DEF Owned
  <2> QED
    BY <1>0, <1>2, <2>1, <2>4, <2>5, <2>6 DEF Owned
<1>12. Fits' /\ Ending'
  BY <1>0, <1>2, <1>4 DEF Fits, Ending, Alive
<1> QED
  BY <1>1, <1>5, <1>6, <1>7, <1>8, <1>9, <1>10, <1>11, <1>12 DEF Inv

\* Data changes how much there is.
LEMMA InstallDataInv ==
  ASSUME Inv, NEW ch \in Channels, NEW n \in {0, 1}, InstallData(ch, n)
  PROVE  Inv'
<1> DEFINE s == sessions[ch]
<1>0. /\ Shape /\ OneChannel /\ SessForm /\ CmdForm /\ TargetKnown /\ CommandKnown
      /\ Owned /\ AllocForm /\ Quota /\ Ending /\ Fits
      /\ sess \in [Sessions -> SessRec] /\ cmds \in [Commands -> CmdRec]
  BY DEF Inv, Shape
<1>1. s \in Sessions /\ sess[s].got + n < sess[s].want
  BY <1>0 DEF InstallData, Receiving, Shape
<1>2. sess' = [sess EXCEPT ![s].got = sess[s].got + n] /\ UNCHANGED <<store, sessions, cmds, main>>
  BY DEF InstallData
<1> HIDE DEF s
<1>3. /\ sess'[s].running = sess[s].running /\ sess'[s].closed = sess[s].closed
      /\ sess'[s].target = sess[s].target /\ sess'[s].transfer = sess[s].transfer
      /\ sess'[s].strayed = sess[s].strayed /\ sess'[s].got <= sess'[s].want
      /\ \A q \in Sessions \ {s} : sess'[q] = sess[q]
      /\ sess' \in [Sessions -> SessRec]
  <2>1. sess[s].got + n \in 0..MaxAppBytes
    BY <1>0, <1>1, AppBridgeAssumption DEF SessRec
  <2> QED
    BY <1>0, <1>1, <1>2, <2>1, AppBridgeAssumption DEF SessRec
<1>4. Shape' /\ AllocForm' /\ Quota'
  BY <1>0, <1>2, <1>3, StoreSame DEF Shape
<1>5. \A q \in Sessions : (Registered(q)' <=> Registered(q)) /\ Mine(q)' = Mine(q)
  BY <1>2, <1>3 DEF Registered, Mine, Opening
<1>6. OneChannel' /\ SessForm' /\ CmdForm'
  BY <1>0, <1>2, <1>3, <1>5 DEF OneChannel, SessForm, CmdForm
<1>7. TargetKnown' /\ CommandKnown'
  BY <1>0, <1>2, <1>3, <1>5 DEF TargetKnown, CommandKnown
<1>8. Owned'
  <2>1. \A q \in Sessions : sess'[q].transfer = sess[q].transfer
    BY <1>3
  <2> QED
    BY <1>0, <1>2, <2>1 DEF Owned, store
<1>9. Fits' /\ Ending'
  BY <1>0, <1>2, <1>3 DEF Fits, Ending, Alive
<1> QED
  BY <1>4, <1>6, <1>7, <1>8, <1>9 DEF Inv

\* The complete package passes from the session to the command that installs it.
LEMMA InstallCompleteInv ==
  ASSUME Inv, NEW ch \in Channels, NEW n \in {0, 1}, NEW k \in Commands, InstallComplete(ch, n, k)
  PROVE  Inv'
<1>0. /\ Shape /\ OneChannel /\ SessForm /\ CmdForm /\ TargetKnown /\ CommandKnown
      /\ Owned /\ AllocForm /\ Quota /\ Ending /\ Fits
      /\ sess \in [Sessions -> SessRec] /\ cmds \in [Commands -> CmdRec]
  BY DEF Inv, Shape
<1>14. PICK s \in Sessions : s = sessions[ch]
  BY <1>0 DEF InstallComplete, Receiving, Shape
<1> DEFINE t == sess[s].transfer
<1>1. s \in Sessions /\ ~sess[s].running /\ t # None /\ main = "idle" /\ Registered(s)
  BY <1>14 DEF InstallComplete, Receiving, Registered
<1>2. /\ sess' = [sess EXCEPT ![s] = [sess[s] EXCEPT !.transfer = None, !.running = TRUE, !.got = 0, !.want = 0]]
      /\ UNCHANGED <<store, sessions, main>> /\ cmds[k] = NoCmd
      /\ cmds' = [cmds EXCEPT ![k] = [sess |-> s, cleanup |-> t, pc |-> "open", target |-> "none"]]
  BY <1>14 DEF InstallComplete, Launch
<1>3. t \in Transfers /\ sess[s].target = None
  BY <1>0, <1>1 DEF SessRec, SessForm
<1> HIDE DEF t
<1>4. /\ sess'[s].running /\ sess'[s].closed = sess[s].closed /\ sess'[s].target = None
      /\ sess'[s].transfer = None /\ sess'[s].strayed = sess[s].strayed
      /\ sess'[s].got = 0 /\ sess'[s].want = 0
      /\ \A q \in Sessions \ {s} : sess'[q] = sess[q]
      /\ sess' \in [Sessions -> SessRec]
  <2>1. 0 \in 0..MaxAppBytes
    BY AppBridgeAssumption
  <2>2. [sess[s] EXCEPT !.transfer = None, !.running = TRUE, !.got = 0, !.want = 0] \in SessRec
    BY <1>0, <1>1, <2>1 DEF SessRec
  <2> QED
    BY <1>0, <1>1, <1>2, <1>3, <2>2 DEF SessRec
<1>5. /\ cmds'[k].sess = s /\ cmds'[k].cleanup = t /\ cmds'[k].pc = "open" /\ cmds'[k].target = "none"
      /\ \A j \in Commands \ {k} : cmds'[j] = cmds[j]
      /\ cmds' \in [Commands -> CmdRec]
  BY <1>0, <1>1, <1>2, <1>3 DEF CmdRec
<1>6. Shape' /\ AllocForm' /\ Quota'
  BY <1>0, <1>2, <1>4, <1>5, StoreSame DEF Shape
<1>7. \A q \in Sessions : Registered(q)' <=> Registered(q)
  BY <1>2 DEF Registered
<1>8. OneChannel' /\ SessForm'
  BY <1>0, <1>1, <1>2, <1>4, <1>5, <1>7, FreeRecords DEF OneChannel, SessForm
<1>9. CmdForm'
  BY <1>0, <1>1, <1>4, <1>5, <1>7 DEF CmdForm
<1>10. TargetKnown'
  BY <1>0, <1>1, <1>3, <1>4, <1>5, FreeRecords DEF TargetKnown, CmdForm
<1>11. CommandKnown'
  <2>1. Mine(s)' = Opening(s) \cup {k} /\ \A q \in Sessions \ {s} : Mine(q)' = Mine(q)
    BY <1>1, <1>2, <1>4, <1>5, FreeRecords, AppBridgeAssumption DEF Mine, Opening
  <2>2. ~sess[s].strayed => Mine(s)' = {k}
    BY <1>0, <1>1, <2>1 DEF Mine, CommandKnown
  <2> QED
    BY <1>0, <1>1, <1>4, <1>7, <2>1, <2>2 DEF CommandKnown
<1>12. Owned'
  <2>1. /\ \A q \in Sessions : sess'[q].transfer = IF q = s THEN None ELSE sess[q].transfer
        /\ \A j \in Commands : cmds'[j].cleanup = IF j = k THEN t ELSE cmds[j].cleanup
        /\ cmds[k].cleanup = None /\ sess[s].transfer = t
    BY <1>2, <1>4, <1>5, FreeRecords DEF t
  <2> QED
    BY <1>0, <1>1, <1>2, <2>1 DEF Owned, store
<1>13. Fits' /\ Ending'
  BY <1>0, <1>1, <1>2, <1>4 DEF Fits, Ending
<1> QED
  BY <1>6, <1>8, <1>9, <1>10, <1>11, <1>12, <1>13 DEF Inv

\* Closing a target from outside leaves its command where it is.
LEMMA ClosesTarget ==
  ASSUME cmds \in [Commands -> CmdRec], NEW k \in Commands \cup {None}, cmds' = CloseTarget(cmds, k)
  PROVE  /\ cmds' \in [Commands -> CmdRec]
         /\ \A j \in Commands : /\ cmds'[j].sess = cmds[j].sess /\ cmds'[j].cleanup = cmds[j].cleanup
                                /\ cmds'[j].pc = cmds[j].pc
                                /\ cmds'[j].target = IF j = k THEN "closed" ELSE cmds[j].target
                                /\ j # k => cmds'[j] = cmds[j]
<1>1. CASE k = None
  BY <1>1, AppBridgeAssumption DEF CloseTarget
<1>2. CASE k # None
  <2>1. k \in Commands /\ cmds' = [cmds EXCEPT ![k].target = "closed"]
    BY <1>2 DEF CloseTarget
  <2> QED
    BY <2>1 DEF CmdRec
<1> QED
  BY <1>1, <1>2

\* Whoever gives a package up releases it.
LEMMA OwnedDrops ==
  ASSUME Shape, Owned, NEW t \in Transfers \cup {None}, t # None => alloc'[t].st = "none",
         \A u \in Transfers \ {t} : alloc'[u] = alloc[u],
         \A q \in Sessions : sess'[q].transfer = IF sess[q].transfer = t THEN None ELSE sess[q].transfer,
         \A j \in Commands : cmds'[j].cleanup = IF cmds[j].cleanup = t THEN None ELSE cmds[j].cleanup
  PROVE  Owned'
<1>1. /\ \A q \in Sessions : sess[q].transfer \in Transfers \cup {None}
      /\ \A j \in Commands : cmds[j].cleanup \in Transfers \cup {None}
  BY DEF Shape, SessRec, CmdRec
<1>2. /\ \A q \in Sessions : sess'[q].transfer # None => alloc'[sess'[q].transfer].st = "held"
      /\ \A j \in Commands : cmds'[j].cleanup # None => alloc'[cmds'[j].cleanup].st = "held"
  BY <1>1 DEF Owned
<1>3. \A u \in Transfers : alloc'[u].st = "held" =>
        (\E q \in Sessions : sess'[q].transfer = u) \/ (\E j \in Commands : cmds'[j].cleanup = u)
  <2> TAKE u \in Transfers
  <2> HAVE alloc'[u].st = "held"
  <2>1. u # t /\ alloc[u].st = "held"
    BY AppBridgeAssumption
  <2> QED
    BY <2>1 DEF Owned
<1>4. /\ \A s, r \in Sessions : sess'[s].transfer = sess'[r].transfer /\ sess'[s].transfer # None => s = r
      /\ \A k, j \in Commands : cmds'[k].cleanup = cmds'[j].cleanup /\ cmds'[k].cleanup # None => k = j
  BY DEF Owned
<1>5. \A s \in Sessions, k \in Commands : cmds'[k].cleanup = sess'[s].transfer => sess'[s].transfer = None
  BY DEF Owned
<1> QED
  BY <1>2, <1>3, <1>4, <1>5 DEF Owned

\* A reset under a command that has not attached its target is remembered.
LEMMA ProtocolFailureInv ==
  ASSUME Inv, NEW ch \in Channels, NEW s \in Sessions, ProtocolFailure(ch, s)
  PROVE  Inv'
<1> DEFINE r == Current(ch, s)
<1>0. /\ Shape /\ OneChannel /\ SessForm /\ CmdForm /\ TargetKnown /\ CommandKnown
      /\ Owned /\ AllocForm /\ Quota /\ Ending /\ Fits
      /\ sess \in [Sessions -> SessRec] /\ cmds \in [Commands -> CmdRec]
  BY DEF Inv, Shape
<1>1. /\ sessions' \in [Channels -> Sessions \cup {None}] /\ OneChannel'
      /\ \A q \in Sessions : Registered(q)' <=> Registered(q) \/ q = s
      /\ r \in SessRec /\ ~r.closed
      /\ r.target = sess[s].target /\ r.transfer = sess[s].transfer
      /\ r = sess[s] \/ \A j \in Commands : cmds[j].sess # s
  BY <1>0, EnterSession DEF ProtocolFailure
<1>2. /\ UNCHANGED main /\ main = "idle"
      /\ sess' = [sess EXCEPT ![s] = [Reset(r) EXCEPT !.strayed = r.strayed \/ Opening(s) # {}]]
      /\ cmds' = CloseTarget(cmds, r.target) /\ Release(r.transfer)
  <2>1. Reset(r).strayed = r.strayed
    BY <1>1 DEF Reset, SessRec
  <2> QED
    BY <2>1 DEF ProtocolFailure
<1>3. r.target \in Commands \cup {None} /\ r.transfer \in Transfers \cup {None}
  BY <1>1 DEF SessRec
<1> HIDE DEF r
<1>4. /\ ~sess'[s].running /\ ~sess'[s].closed /\ sess'[s].target = None /\ sess'[s].transfer = None
      /\ sess'[s].strayed = (r.strayed \/ Opening(s) # {}) /\ sess'[s].got = 0 /\ sess'[s].want = 0
      /\ \A q \in Sessions \ {s} : sess'[q] = sess[q]
      /\ sess' \in [Sessions -> SessRec]
  <2> DEFINE b == r.strayed \/ Opening(s) # {}
             rec == [Reset(r) EXCEPT !.strayed = b]
  <2>1. 0 \in 0..MaxAppBytes /\ b \in BOOLEAN
    BY <1>1, AppBridgeAssumption DEF SessRec
  <2> HIDE DEF b
  <2>2. /\ rec \in SessRec /\ ~rec.running /\ rec.closed = r.closed /\ rec.target = None
        /\ rec.transfer = None /\ rec.strayed = b /\ rec.got = 0 /\ rec.want = 0
    BY <1>1, <2>1 DEF SessRec, Reset
  <2>3. sess' = [sess EXCEPT ![s] = rec]
    BY <1>2 DEF b
  <2> HIDE DEF rec
  <2> QED
    BY <1>0, <1>1, <2>2, <2>3 DEF b
<1>5. /\ cmds' \in [Commands -> CmdRec]
      /\ \A j \in Commands : /\ cmds'[j].sess = cmds[j].sess /\ cmds'[j].cleanup = cmds[j].cleanup
                             /\ cmds'[j].pc = cmds[j].pc
                             /\ cmds'[j].target = IF j = r.target THEN "closed" ELSE cmds[j].target
                             /\ j # r.target => cmds'[j] = cmds[j]
  BY <1>0, <1>2, <1>3, ClosesTarget
<1>6. /\ alloc' \in [Transfers -> AllocRec] /\ used' \in Nat /\ AllocForm' /\ Quota'
      /\ r.transfer # None => alloc'[r.transfer].st = "none"
      /\ \A q \in Transfers \ {r.transfer} : alloc'[q] = alloc[q]
  <2>1. r.transfer # None => alloc[r.transfer].st = "held"
    BY <1>0, <1>1 DEF Owned
  <2> QED
    BY <1>0, <1>2, <1>3, <2>1, ReleaseKeeps
<1>7. Shape'
  BY <1>0, <1>1, <1>2, <1>4, <1>5, <1>6 DEF Shape
<1>8. SessForm'
  <2>1. \A q \in Sessions : sess[q].target \in Commands \cup {None}
    BY <1>0 DEF SessRec
  <2> QED
    BY <1>0, <1>1, <1>4, <1>5, <2>1 DEF SessForm
<1>9. CmdForm'
  <2>1. r.target # None => cmds[r.target].pc \in {"read", "finish"}
    BY <1>0, <1>1, <1>3 DEF SessForm
  <2> SUFFICES ASSUME NEW j \in Commands
               PROVE  /\ cmds'[j].pc = "none" => cmds'[j] = NoCmd
                      /\ cmds'[j].pc = "done" => cmds'[j].cleanup = None
                      /\ cmds'[j].pc = "open" => cmds'[j].target = "none"
                      /\ cmds'[j].pc # "none" =>
                           /\ cmds'[j].sess \in Sessions
                           /\ (\E c \in Channels : sessions'[c] = cmds'[j].sess) \/ sess'[cmds'[j].sess].closed
    BY DEF CmdForm, Registered
  <2>2. /\ cmds[j].pc = "none" => cmds[j] = NoCmd
        /\ cmds[j].pc = "done" => cmds[j].cleanup = None
        /\ cmds[j].pc = "open" => cmds[j].target = "none"
        /\ cmds[j].pc # "none" =>
             cmds[j].sess \in Sessions /\ (Registered(cmds[j].sess) \/ sess[cmds[j].sess].closed)
    BY <1>0 DEF CmdForm
  <2>3. cmds[j].pc \in {"none", "open"} => j # r.target
    BY <1>3, <2>1, AppBridgeAssumption
  <2>4. PICK q : q = cmds[j].sess
    OBVIOUS
  <2>5. cmds[j].pc # "none" => Registered(q)' \/ sess'[q].closed
    BY <1>1, <1>4, <2>2, <2>4
  <2>6. cmds'[j].sess = q
    BY <1>5, <2>4
  <2>7. cmds[j].pc # "none" => (\E c \in Channels : sessions'[c] = cmds'[j].sess) \/ sess'[cmds'[j].sess].closed
    BY <2>5, <2>6 DEF Registered
  <2> QED
    BY <1>5, <2>2, <2>3, <2>4, <2>6, <2>7
<1>10. TargetKnown'
  <2> SUFFICES ASSUME NEW j \in Commands, cmds'[j].target = "open", cmds'[j].pc # "attach"
               PROVE  sess'[cmds'[j].sess].target = j \/ sess'[cmds'[j].sess].strayed
    BY DEF TargetKnown
  <2>1. /\ cmds[j].target = "open" /\ cmds[j].pc # "attach" /\ j # r.target
        /\ cmds'[j].sess = cmds[j].sess
    BY <1>5
  <2>2. sess[cmds[j].sess].target = j \/ sess[cmds[j].sess].strayed
    BY <1>0, <2>1 DEF TargetKnown
  <2>3. cmds[j].sess \in Sessions
    BY <1>0, <2>1, FreeRecords DEF CmdForm
  <2>4. CASE cmds[j].sess = s
    BY <1>1, <1>4, <2>1, <2>2, <2>4
  <2> QED
    BY <1>4, <2>1, <2>2, <2>3, <2>4
<1>11. CommandKnown'
  <2>1. Mine(s)' = Opening(s) /\ \A q \in Sessions \ {s} : Mine(q)' = Mine(q)
    BY <1>4, <1>5 DEF Mine, Opening
  <2> QED
    BY <1>0, <1>1, <1>4, <2>1 DEF CommandKnown
<1>12. Owned'
  <2>1. \A q \in Sessions :
          sess'[q].transfer = IF sess[q].transfer = r.transfer THEN None ELSE sess[q].transfer
    BY <1>0, <1>1, <1>4 DEF Owned
  <2>2. \A j \in Commands :
          cmds'[j].cleanup = IF cmds[j].cleanup = r.transfer THEN None ELSE cmds[j].cleanup
    BY <1>0, <1>1, <1>5 DEF Owned
  <2> QED
    BY <1>0, <1>3, <1>6, <2>1, <2>2, OwnedDrops
<1>13. Fits' /\ Ending'
  BY <1>0, <1>2, <1>4 DEF Fits, Ending
<1> QED
  BY <1>1, <1>6, <1>7, <1>8, <1>9, <1>10, <1>11, <1>12, <1>13 DEF Inv

\* A session that is closed gives up its target and its package.
LEMMA CloseInv ==
  ASSUME Inv, NEW ch \in Channels, CloseChannel(ch) \/ CloseSession(ch)
  PROVE  Inv'
<1>0. /\ Shape /\ OneChannel /\ SessForm /\ CmdForm /\ TargetKnown /\ CommandKnown
      /\ Owned /\ AllocForm /\ Quota /\ Ending /\ Fits
      /\ sess \in [Sessions -> SessRec] /\ cmds \in [Commands -> CmdRec]
      /\ sessions \in [Channels -> Sessions \cup {None}]
  BY DEF Inv, Shape
<1>14. PICK s \in Sessions : s = sessions[ch]
  BY <1>0 DEF CloseChannel, CloseSession
<1> DEFINE r == sess[s]
<1>2. /\ UNCHANGED main /\ main \in {"idle", "cancel"}
      /\ sessions' = [sessions EXCEPT ![ch] = None]
      /\ sess' = [sess EXCEPT ![s] = [Reset(r) EXCEPT !.closed = TRUE]]
      /\ cmds' = CloseTarget(cmds, r.target) /\ Release(r.transfer)
  BY <1>14 DEF CloseChannel, CloseSession
<1>1. /\ sessions' \in [Channels -> Sessions \cup {None}] /\ OneChannel' /\ Registered(s)
      /\ \A q \in Sessions : Registered(q)' <=> Registered(q) /\ q # s
  <2>1. /\ sessions' \in [Channels -> Sessions \cup {None}] /\ sessions'[ch] = None
        /\ \A d \in Channels \ {ch} : sessions'[d] = sessions[d]
    BY <1>0, <1>2
  <2>2. OneChannel'
    BY <1>0, <2>1 DEF OneChannel
  <2> QED
    BY <1>0, <1>14, <2>1, <2>2, AppBridgeAssumption DEF OneChannel, Registered
<1>3. r \in SessRec /\ r.target \in Commands \cup {None} /\ r.transfer \in Transfers \cup {None}
  BY <1>0 DEF SessRec
<1>4. /\ ~sess'[s].running /\ sess'[s].closed /\ sess'[s].target = None /\ sess'[s].transfer = None
      /\ sess'[s].strayed = sess[s].strayed /\ sess'[s].got = 0 /\ sess'[s].want = 0
      /\ \A q \in Sessions \ {s} : sess'[q] = sess[q]
      /\ sess' \in [Sessions -> SessRec]
  <2> DEFINE rec == [Reset(r) EXCEPT !.closed = TRUE]
  <2>1. 0 \in 0..MaxAppBytes
    BY AppBridgeAssumption
  <2>2. /\ rec \in SessRec /\ ~rec.running /\ rec.closed /\ rec.target = None
        /\ rec.transfer = None /\ rec.strayed = r.strayed /\ rec.got = 0 /\ rec.want = 0
    BY <1>3, <2>1 DEF SessRec, Reset
  <2> HIDE DEF rec
  <2> QED
    BY <1>0, <1>2, <2>2 DEF rec
<1>5. /\ cmds' \in [Commands -> CmdRec]
      /\ \A j \in Commands : /\ cmds'[j].sess = cmds[j].sess /\ cmds'[j].cleanup = cmds[j].cleanup
                             /\ cmds'[j].pc = cmds[j].pc
                             /\ cmds'[j].target = IF j = r.target THEN "closed" ELSE cmds[j].target
                             /\ j # r.target => cmds'[j] = cmds[j]
  BY <1>0, <1>2, <1>3, ClosesTarget
<1>6. /\ alloc' \in [Transfers -> AllocRec] /\ used' \in Nat /\ AllocForm' /\ Quota'
      /\ r.transfer # None => alloc'[r.transfer].st = "none"
      /\ \A q \in Transfers \ {r.transfer} : alloc'[q] = alloc[q]
  <2>1. r.transfer # None => alloc[r.transfer].st = "held"
    BY <1>0 DEF Owned
  <2> QED
    BY <1>0, <1>2, <1>3, <2>1, ReleaseKeeps
<1>7. Shape'
  BY <1>0, <1>1, <1>2, <1>4, <1>5, <1>6 DEF Shape
<1>8. SessForm'
  <2>1. \A q \in Sessions : sess[q].target \in Commands \cup {None}
    BY <1>0 DEF SessRec
  <2> QED
    BY <1>0, <1>1, <1>4, <1>5, <2>1 DEF SessForm
<1>9. CmdForm'
  <2>1. r.target # None => cmds[r.target].pc \in {"read", "finish"}
    BY <1>0, <1>3 DEF SessForm
  <2> SUFFICES ASSUME NEW j \in Commands
               PROVE  /\ cmds'[j].pc = "none" => cmds'[j] = NoCmd
                      /\ cmds'[j].pc = "done" => cmds'[j].cleanup = None
                      /\ cmds'[j].pc = "open" => cmds'[j].target = "none"
                      /\ cmds'[j].pc # "none" =>
                           /\ cmds'[j].sess \in Sessions
                           /\ (\E c \in Channels : sessions'[c] = cmds'[j].sess) \/ sess'[cmds'[j].sess].closed
    BY DEF CmdForm, Registered
  <2>2. /\ cmds[j].pc = "none" => cmds[j] = NoCmd
        /\ cmds[j].pc = "done" => cmds[j].cleanup = None
        /\ cmds[j].pc = "open" => cmds[j].target = "none"
        /\ cmds[j].pc # "none" =>
             cmds[j].sess \in Sessions /\ (Registered(cmds[j].sess) \/ sess[cmds[j].sess].closed)
    BY <1>0 DEF CmdForm
  <2>3. cmds[j].pc \in {"none", "open"} => j # r.target
    BY <1>3, <2>1, AppBridgeAssumption
  <2>4. PICK q : q = cmds[j].sess
    OBVIOUS
  <2>5. cmds[j].pc # "none" => Registered(q)' \/ sess'[q].closed
    BY <1>1, <1>4, <2>2, <2>4
  <2>6. cmds'[j].sess = q
    BY <1>5, <2>4
  <2>7. cmds[j].pc # "none" => (\E c \in Channels : sessions'[c] = cmds'[j].sess) \/ sess'[cmds'[j].sess].closed
    BY <2>5, <2>6 DEF Registered
  <2> QED
    BY <1>5, <2>2, <2>3, <2>4, <2>6, <2>7
<1>10. TargetKnown'
  BY <1>0, <1>4, <1>5, FreeRecords DEF TargetKnown, CmdForm
<1>11. CommandKnown'
  <2>1. \A q \in Sessions \ {s} : Mine(q)' = Mine(q)
    BY <1>4, <1>5 DEF Mine, Opening
  <2> QED
    BY <1>0, <1>1, <1>4, <2>1 DEF CommandKnown
<1>12. Owned'
  <2>1. \A q \in Sessions :
          sess'[q].transfer = IF sess[q].transfer = r.transfer THEN None ELSE sess[q].transfer
    BY <1>0, <1>4 DEF Owned
  <2>2. \A j \in Commands :
          cmds'[j].cleanup = IF cmds[j].cleanup = r.transfer THEN None ELSE cmds[j].cleanup
    BY <1>0, <1>5 DEF Owned
  <2> QED
    BY <1>0, <1>3, <1>6, <2>1, <2>2, OwnedDrops
<1>13. Fits' /\ Ending'
  BY <1>0, <1>2, <1>4 DEF Fits, Ending
<1> QED
  BY <1>1, <1>6, <1>7, <1>8, <1>9, <1>10, <1>11, <1>12, <1>13 DEF Inv

\* The end of the connection waits for the map to be empty and for the commands.
LEMMA EndingInv ==
  ASSUME Inv, Cancel \/ CloseWaits \/ CloseReturns \/ UNCHANGED vars
  PROVE  Inv'
<1>0. /\ Shape /\ OneChannel /\ SessForm /\ CmdForm /\ TargetKnown /\ CommandKnown
      /\ Owned /\ AllocForm /\ Quota /\ Ending /\ Fits
  BY DEF Inv
<1>1. /\ UNCHANGED <<store, sessions, sess, cmds>> /\ main' \in {"idle", "cancel", "wait", "closed"}
  BY <1>0 DEF Cancel, CloseWaits, CloseReturns, vars, Shape
<1>2. Shape' /\ AllocForm' /\ Quota'
  BY <1>0, <1>1, StoreSame DEF Shape
<1>3. OneChannel' /\ SessForm' /\ CmdForm'
  BY <1>0, <1>1 DEF OneChannel, SessForm, CmdForm, Registered
<1>4. TargetKnown' /\ CommandKnown'
  BY <1>0, <1>1 DEF TargetKnown, CommandKnown, Mine, Opening, Registered
<1>5. Owned' /\ Fits'
  BY <1>0, <1>1 DEF Owned, Fits, store
<1>6. Ending'
  BY <1>0, <1>1 DEF Ending, Alive, Cancel, CloseWaits, CloseReturns, vars
<1> QED
  BY <1>2, <1>3, <1>4, <1>5, <1>6 DEF Inv

-----------------------------------------------------------------------------
(* The commands *)

\* A command that is over has released its package.
LEMMA CommandReleases ==
  ASSUME Shape, Owned, AllocForm, Quota, NEW k \in Commands, Release(cmds[k].cleanup),
         \A q \in Sessions : sess'[q].transfer = sess[q].transfer,
         cmds'[k].cleanup = None, \A j \in Commands \ {k} : cmds'[j].cleanup = cmds[j].cleanup
  PROVE  alloc' \in [Transfers -> AllocRec] /\ used' \in Nat /\ AllocForm' /\ Quota' /\ Owned'
<1> DEFINE t == cmds[k].cleanup
<1>1. t \in Transfers \cup {None} /\ (t # None => alloc[t].st = "held")
  BY DEF Shape, CmdRec, Owned
<1>2. /\ \A q \in Sessions : sess'[q].transfer = IF sess[q].transfer = t THEN None ELSE sess[q].transfer
      /\ \A j \in Commands : cmds'[j].cleanup = IF cmds[j].cleanup = t THEN None ELSE cmds[j].cleanup
  BY DEF Owned
<1> HIDE DEF t
<1>3. /\ alloc' \in [Transfers -> AllocRec] /\ used' \in Nat /\ AllocForm' /\ Quota'
      /\ t # None => alloc'[t].st = "none"
      /\ \A q \in Transfers \ {t} : alloc'[q] = alloc[q]
  <2>1. Release(t)
    BY DEF t
  <2> QED
    BY <1>1, <2>1, ReleaseKeeps
<1> QED
  BY <1>1, <1>2, <1>3, OwnedDrops

\* The command that is under way, as the invariant knows it.
LEMMA UnderWay ==
  ASSUME Inv, NEW k \in Commands, Alive(k)
  PROVE  /\ cmds[k].sess \in Sessions /\ main # "closed"
         /\ Registered(cmds[k].sess) <=> ~sess[cmds[k].sess].closed
         /\ sess[cmds[k].sess].closed =>
              sess[cmds[k].sess].target = None /\ sess[cmds[k].sess].transfer = None
BY DEF Inv, Alive, CmdForm, SessForm, Ending

\* Steps of a command that change neither its session nor its package.
LEMMA CommandStepInv ==
  ASSUME Inv, NEW k \in Commands, OpenTarget(k) \/ WatchdogCloses(k) \/ ReadEnds(k)
  PROVE  Inv'
<1>0. /\ Shape /\ OneChannel /\ SessForm /\ CmdForm /\ TargetKnown /\ CommandKnown
      /\ Owned /\ AllocForm /\ Quota /\ Ending /\ Fits /\ cmds \in [Commands -> CmdRec]
  BY DEF Inv, Shape
<1>1. /\ UNCHANGED <<store, sessions, sess, main>>
      /\ cmds'[k].sess = cmds[k].sess /\ cmds'[k].cleanup = cmds[k].cleanup
      /\ \A j \in Commands \ {k} : cmds'[j] = cmds[j]
      /\ cmds' \in [Commands -> CmdRec]
  <2>1. CASE OpenTarget(k)
    BY <1>0, <2>1 DEF OpenTarget, CmdRec
  <2>2. CASE WatchdogCloses(k)
    BY <1>0, <2>2 DEF WatchdogCloses, CmdRec
  <2>3. CASE ReadEnds(k)
    BY <1>0, <2>3 DEF ReadEnds, CmdRec
  <2> QED
    BY <2>1, <2>2, <2>3
<1>2. \/ cmds[k].pc = "open" /\ cmds'[k].pc = "attach"
      \/ cmds[k].pc = "read" /\ cmds'[k].pc = "read" /\ cmds'[k].target = "closed"
      \/ cmds[k].pc = "read" /\ cmds'[k].pc = "finish" /\ cmds'[k].target = cmds[k].target
  <2>1. CASE OpenTarget(k)
    BY <1>0, <2>1 DEF OpenTarget, CmdRec
  <2>2. CASE WatchdogCloses(k)
    BY <1>0, <2>2 DEF WatchdogCloses, CmdRec
  <2>3. CASE ReadEnds(k)
    BY <1>0, <2>3 DEF ReadEnds, CmdRec
  <2> QED
    BY <2>1, <2>2, <2>3
<1>3. Shape' /\ AllocForm' /\ Quota'
  BY <1>0, <1>1, StoreSame DEF Shape
<1>4. \A q \in Sessions : (Registered(q)' <=> Registered(q)) /\ Mine(q)' = Mine(q)
  BY <1>1, <1>2 DEF Registered, Mine, Opening
<1>5. OneChannel' /\ SessForm'
  <2>1. \A q \in Sessions : sess[q].target \in Commands \cup {None}
    BY <1>0 DEF Shape, SessRec
  <2> QED
    BY <1>0, <1>1, <1>2, <1>4, <2>1 DEF OneChannel, SessForm
<1>6. CmdForm'
  BY <1>0, <1>1, <1>2, <1>4 DEF CmdForm
<1>7. TargetKnown' /\ CommandKnown'
  BY <1>0, <1>1, <1>2, <1>4 DEF TargetKnown, CommandKnown
<1>8. Owned' /\ Fits'
  <2>1. \A j \in Commands : cmds'[j].cleanup = cmds[j].cleanup
    BY <1>1
  <2> QED
    BY <1>0, <1>1, <2>1 DEF Owned, Fits, store
<1>9. Ending'
  BY <1>0, <1>1, <1>2 DEF Ending, Alive
<1> QED
  BY <1>3, <1>5, <1>6, <1>7, <1>8, <1>9 DEF Inv

\* A command that cannot open its target frees its session, which waits for no other
\* one unless it has lost track.
LEMMA OpenTargetFailsInv ==
  ASSUME Inv, NEW k \in Commands, OpenTargetFails(k)
  PROVE  Inv'
<1>0. /\ Shape /\ OneChannel /\ SessForm /\ CmdForm /\ TargetKnown /\ CommandKnown
      /\ Owned /\ AllocForm /\ Quota /\ Ending /\ Fits
      /\ sess \in [Sessions -> SessRec] /\ cmds \in [Commands -> CmdRec]
  BY DEF Inv, Shape
<1>14. PICK s \in Sessions : s = cmds[k].sess
  BY UnderWay DEF OpenTargetFails, Alive
<1>1. /\ s \in Sessions /\ main # "closed" /\ (Registered(s) <=> ~sess[s].closed)
      /\ sess[s].closed => sess[s].target = None /\ sess[s].transfer = None
  BY <1>14, UnderWay DEF OpenTargetFails, Alive
<1>2. /\ cmds[k].pc = "open" /\ UNCHANGED <<sessions, main>> /\ Release(cmds[k].cleanup)
      /\ cmds' = [cmds EXCEPT ![k] = NoCmd]
      /\ sess' = IF sess[s].closed THEN sess
                 ELSE [sess EXCEPT ![s] = [sess[s] EXCEPT !.target = None, !.running = FALSE]]
  BY <1>14 DEF OpenTargetFails
<1>3. k \in Opening(s)
  BY <1>2, <1>14 DEF Opening
<1>4. /\ sess'[s].closed = sess[s].closed /\ sess'[s].target = None
      /\ sess'[s].transfer = sess[s].transfer /\ sess'[s].strayed = sess[s].strayed
      /\ sess'[s].got = sess[s].got /\ sess'[s].want = sess[s].want
      /\ ~sess[s].closed => ~sess'[s].running
      /\ \A r \in Sessions \ {s} : sess'[r] = sess[r]
      /\ sess' \in [Sessions -> SessRec]
  <2>1. [sess[s] EXCEPT !.target = None, !.running = FALSE] \in SessRec
    BY <1>0, <1>1 DEF SessRec
  <2> QED
    BY <1>0, <1>1, <1>2, <2>1 DEF SessRec
<1>5. /\ cmds'[k] = NoCmd /\ \A j \in Commands \ {k} : cmds'[j] = cmds[j]
      /\ cmds' \in [Commands -> CmdRec]
  BY <1>0, <1>2, FreeRecords
<1>6. alloc' \in [Transfers -> AllocRec] /\ used' \in Nat /\ AllocForm' /\ Quota' /\ Owned'
  <2>1. /\ \A r \in Sessions : sess'[r].transfer = sess[r].transfer
        /\ cmds'[k].cleanup = None /\ \A j \in Commands \ {k} : cmds'[j].cleanup = cmds[j].cleanup
    BY <1>4, <1>5, FreeRecords
  <2> QED
    BY <1>0, <1>2, <2>1, CommandReleases
<1>7. Shape'
  BY <1>0, <1>2, <1>4, <1>5, <1>6 DEF Shape
<1>8. \A r \in Sessions : Registered(r)' <=> Registered(r)
  BY <1>2 DEF Registered
<1>9. OneChannel' /\ SessForm'
  <2>1. \A r \in Sessions : sess[r].target \in Commands \cup {None}
    BY <1>0 DEF SessRec
  <2> QED
    BY <1>0, <1>1, <1>2, <1>4, <1>5, <1>8, <2>1 DEF OneChannel, SessForm
<1>10. CmdForm'
  BY <1>0, <1>4, <1>5, <1>8, FreeRecords DEF CmdForm
<1>11. ~sess[s].closed /\ ~sess[s].strayed => Opening(s) = {k} /\ sess[s].target = None
  <2> HAVE ~sess[s].closed /\ ~sess[s].strayed
  <2>1. PICK j \in Commands : Mine(s) = {j}
    BY <1>0, <1>1, <1>3 DEF CommandKnown, Mine
  <2>2. Opening(s) = {k} /\ sess[s].target \in {k, None}
    BY <1>3, <2>1 DEF Mine
  <2>3. sess[s].target # k
    BY <1>0, <1>1, <1>2, AppBridgeAssumption DEF SessForm
  <2> QED
    BY <2>2, <2>3
<1>12. TargetKnown'
  <2> SUFFICES ASSUME NEW j \in Commands, cmds'[j].target = "open", cmds'[j].pc # "attach"
               PROVE  sess'[cmds'[j].sess].target = j \/ sess'[cmds'[j].sess].strayed
    BY DEF TargetKnown
  <2>1. j # k /\ cmds'[j] = cmds[j]
    BY <1>5, FreeRecords
  <2>2. sess[cmds[j].sess].target = j \/ sess[cmds[j].sess].strayed
    BY <1>0, <2>1 DEF TargetKnown
  <2>3. cmds[j].sess \in Sessions
    BY <1>0, <2>1, FreeRecords DEF CmdForm
  <2>4. CASE cmds[j].sess = s
    BY <1>1, <1>4, <1>11, <2>1, <2>2, <2>4, AppBridgeAssumption
  <2> QED
    BY <1>4, <2>1, <2>2, <2>3, <2>4
<1>13. CommandKnown'
  <2>1. /\ \A r \in Sessions : Opening(r)' = Opening(r) \ {k}
        /\ \A r \in Sessions \ {s} : k \notin Opening(r)
    BY <1>5, <1>14, FreeRecords DEF Opening
  <2>2. /\ \A r \in Sessions \ {s} : Mine(r)' = Mine(r)
        /\ ~sess[s].closed /\ ~sess[s].strayed => Mine(s)' = {}
    BY <1>4, <1>11, <2>1 DEF Mine
  <2> QED
    BY <1>0, <1>1, <1>4, <1>8, <2>2 DEF CommandKnown
<1>15. Fits' /\ Ending'
  BY <1>0, <1>1, <1>2, <1>4 DEF Fits, Ending
<1> QED
  BY <1>6, <1>7, <1>9, <1>10, <1>12, <1>13, <1>15 DEF Inv

\* A command whose session was closed or reset under it takes nothing of what the
\* session does now; one that attaches its target is the only one of a session that
\* has not lost track.
LEMMA AttachTargetInv ==
  ASSUME Inv, NEW k \in Commands, AttachTarget(k)
  PROVE  Inv'
<1>0. /\ Shape /\ OneChannel /\ SessForm /\ CmdForm /\ TargetKnown /\ CommandKnown
      /\ Owned /\ AllocForm /\ Quota /\ Ending /\ Fits
      /\ sess \in [Sessions -> SessRec] /\ cmds \in [Commands -> CmdRec]
      /\ \A q \in Sessions : sess[q].target \in Commands \cup {None}
  BY DEF Inv, Shape, SessRec
<1>1. PICK s \in Sessions : s = cmds[k].sess
  BY UnderWay DEF AttachTarget, Alive
<1>2. /\ main # "closed" /\ (Registered(s) <=> ~sess[s].closed)
      /\ UNCHANGED <<sessions, main>> /\ cmds[k].pc = "attach"
  BY <1>1, UnderWay DEF AttachTarget, Alive
<1>3. k \in Opening(s) /\ \A r \in Sessions \ {s} : k \notin Opening(r)
  BY <1>1, <1>2 DEF Opening
<1>4. \A r \in Sessions : Registered(r)' <=> Registered(r)
  BY <1>2 DEF Registered
<1>5. CASE sess[s].closed \/ ~sess[s].running
  <2>1. /\ cmds' = [cmds EXCEPT ![k] = NoCmd] /\ Release(cmds[k].cleanup) /\ UNCHANGED sess
    BY <1>1, <1>5 DEF AttachTarget
  <2>2. /\ cmds'[k] = NoCmd /\ \A j \in Commands \ {k} : cmds'[j] = cmds[j]
        /\ cmds' \in [Commands -> CmdRec]
    BY <1>0, <2>1, FreeRecords
  <2>3. alloc' \in [Transfers -> AllocRec] /\ used' \in Nat /\ AllocForm' /\ Quota' /\ Owned'
    <3>1. cmds'[k].cleanup = None /\ \A j \in Commands \ {k} : cmds'[j].cleanup = cmds[j].cleanup
      BY <2>2, FreeRecords
    <3> QED
      BY <1>0, <2>1, <3>1, CommandReleases
  <2>4. Shape'
    BY <1>0, <1>2, <2>1, <2>2, <2>3 DEF Shape
  <2>5. OneChannel' /\ SessForm'
    BY <1>0, <1>2, <1>4, <2>1, <2>2 DEF OneChannel, SessForm
  <2>6. CmdForm'
    BY <1>0, <1>4, <2>1, <2>2, FreeRecords DEF CmdForm
  <2>7. TargetKnown'
    BY <1>0, <2>1, <2>2, FreeRecords DEF TargetKnown
  <2>8. CommandKnown'
    <3>1. \A r \in Sessions \ {s} : Mine(r)' = Mine(r)
      BY <1>3, <2>1, <2>2, FreeRecords DEF Mine, Opening
    <3>2. ~(Registered(s) /\ ~sess[s].strayed)
      BY <1>0, <1>2, <1>3, <1>5 DEF CommandKnown, Mine
    <3> QED
      BY <1>0, <1>4, <2>1, <3>1, <3>2 DEF CommandKnown
  <2>9. Fits' /\ Ending'
    BY <1>0, <1>2, <2>1 DEF Fits, Ending
  <2> QED
    BY <2>3, <2>4, <2>5, <2>6, <2>7, <2>8, <2>9 DEF Inv
<1>6. CASE ~sess[s].closed /\ sess[s].running
  <2>1. /\ sess' = [sess EXCEPT ![s].target = k] /\ cmds' = [cmds EXCEPT ![k].pc = "read"]
        /\ UNCHANGED store
    BY <1>1, <1>6 DEF AttachTarget
  <2>2. /\ cmds'[k].sess = s /\ cmds'[k].cleanup = cmds[k].cleanup /\ cmds'[k].pc = "read"
        /\ \A j \in Commands \ {k} : cmds'[j] = cmds[j]
        /\ cmds' \in [Commands -> CmdRec]
    BY <1>0, <1>1, <2>1 DEF CmdRec
  <2>3. /\ ~sess'[s].closed /\ sess'[s].running /\ sess'[s].target = k
        /\ sess'[s].transfer = sess[s].transfer /\ sess'[s].strayed = sess[s].strayed
        /\ sess'[s].got = sess[s].got /\ sess'[s].want = sess[s].want
        /\ \A r \in Sessions \ {s} : sess'[r] = sess[r]
        /\ sess' \in [Sessions -> SessRec]
    BY <1>0, <1>6, <2>1 DEF SessRec
  <2>4. Shape' /\ AllocForm' /\ Quota'
    BY <1>0, <1>2, <2>1, <2>2, <2>3, StoreSame DEF Shape
  <2>5. OneChannel' /\ SessForm'
    BY <1>0, <1>2, <1>4, <1>6, <2>2, <2>3 DEF OneChannel, SessForm
  <2>6. CmdForm'
    BY <1>0, <1>2, <1>4, <1>6, <2>2, <2>3 DEF CmdForm
  <2>7. ~sess[s].strayed => Mine(s) = {k}
    BY <1>0, <1>2, <1>3, <1>6 DEF CommandKnown, Mine
  <2>8. TargetKnown'
    <3> SUFFICES ASSUME NEW j \in Commands, cmds'[j].target = "open", cmds'[j].pc # "attach"
                 PROVE  sess'[cmds'[j].sess].target = j \/ sess'[cmds'[j].sess].strayed
      BY DEF TargetKnown
    <3>1. CASE j = k
      BY <2>2, <2>3, <3>1
    <3>2. CASE j # k
      <4>1. cmds'[j] = cmds[j]
        BY <2>2, <3>2
      <4>2. sess[cmds[j].sess].target = j \/ sess[cmds[j].sess].strayed
        BY <1>0, <4>1 DEF TargetKnown
      <4>3. cmds[j].sess \in Sessions
        BY <1>0, <4>1, FreeRecords DEF CmdForm
      <4>4. sess[s].target = j => sess[s].strayed
        BY <2>7, <3>2, AppBridgeAssumption DEF Mine
      <4> QED
        BY <2>3, <4>1, <4>2, <4>3, <4>4
    <3> QED
      BY <3>1, <3>2
  <2>9. CommandKnown'
    <3>1. /\ \A r \in Sessions \ {s} : Mine(r)' = Mine(r)
          /\ Mine(s)' = (Opening(s) \ {k}) \cup {k}
      BY <1>1, <1>2, <1>3, <2>2, <2>3, AppBridgeAssumption DEF Mine, Opening
    <3>2. ~sess[s].strayed => Mine(s)' = {k}
      BY <2>7, <3>1 DEF Mine
    <3> QED
      BY <1>0, <1>4, <2>3, <3>1, <3>2 DEF CommandKnown
  <2>10. Owned'
    <3>1. /\ \A r \in Sessions : sess'[r].transfer = sess[r].transfer
          /\ \A j \in Commands : cmds'[j].cleanup = cmds[j].cleanup
      BY <2>2, <2>3
    <3> QED
      BY <1>0, <2>1, <3>1 DEF Owned, store
  <2>11. Fits' /\ Ending'
    BY <1>0, <1>2, <2>3 DEF Fits, Ending
  <2> QED
    BY <2>4, <2>5, <2>6, <2>8, <2>9, <2>10, <2>11 DEF Inv
<1> QED
  BY <1>5, <1>6

\* A command that ends frees its session if its target is the session's; the target
\* it leaves open otherwise is one the session lost.
LEMMA FinishTargetInv ==
  ASSUME Inv, NEW k \in Commands, FinishTarget(k)
  PROVE  Inv'
<1>0. /\ Shape /\ OneChannel /\ SessForm /\ CmdForm /\ TargetKnown /\ CommandKnown
      /\ Owned /\ AllocForm /\ Quota /\ Ending /\ Fits
      /\ sess \in [Sessions -> SessRec] /\ cmds \in [Commands -> CmdRec]
      /\ \A q \in Sessions : sess[q].target \in Commands \cup {None}
  BY DEF Inv, Shape, SessRec
<1>1. PICK s \in Sessions : s = cmds[k].sess
  BY UnderWay DEF FinishTarget, Alive
<1>2. /\ main # "closed" /\ (Registered(s) <=> ~sess[s].closed)
      /\ sess[s].closed => sess[s].target = None
      /\ UNCHANGED <<sessions, main>> /\ cmds[k].pc = "finish" /\ Release(cmds[k].cleanup)
  BY <1>1, UnderWay DEF FinishTarget, Alive
<1>3. \A r \in Sessions : k \notin Opening(r)
  BY <1>2 DEF Opening
<1>4. \A r \in Sessions : Registered(r)' <=> Registered(r)
  BY <1>2 DEF Registered
<1>7. k # None
  BY AppBridgeAssumption
<1>5. CASE sess[s].closed \/ sess[s].target # k
  <2>1. cmds' = [cmds EXCEPT ![k] = Ended(k)] /\ UNCHANGED sess
    BY <1>1, <1>5 DEF FinishTarget
  <2>2. /\ Ended(k) \in CmdRec /\ Ended(k).cleanup = None /\ Ended(k).pc \in {"none", "done"}
        /\ Ended(k).pc = "none" => Ended(k) = NoCmd
        /\ Ended(k).pc = "done" => Ended(k).sess = s /\ cmds[k].target = "open"
        /\ Ended(k).target = "open" => Ended(k).pc = "done"
    BY <1>1, FreeRecords DEF Ended, CmdRec, NoCmd
  <2>3. /\ cmds'[k] = Ended(k) /\ \A j \in Commands \ {k} : cmds'[j] = cmds[j]
        /\ cmds' \in [Commands -> CmdRec]
    BY <1>0, <2>1, <2>2
  <2>4. alloc' \in [Transfers -> AllocRec] /\ used' \in Nat /\ AllocForm' /\ Quota' /\ Owned'
    <3>1. cmds'[k].cleanup = None /\ \A j \in Commands \ {k} : cmds'[j].cleanup = cmds[j].cleanup
      BY <2>2, <2>3
    <3> QED
      BY <1>0, <1>2, <2>1, <3>1, CommandReleases
  <2>5. Shape'
    BY <1>0, <1>2, <2>1, <2>3, <2>4 DEF Shape
  <2>6. \A r \in Sessions : sess[r].target # k
    BY <1>0, <1>1, <1>2, <1>5, <1>7 DEF SessForm
  <2>7. OneChannel' /\ SessForm'
    BY <1>0, <1>2, <1>4, <2>1, <2>3, <2>6 DEF OneChannel, SessForm
  <2>8. CmdForm'
    BY <1>0, <1>1, <1>2, <1>4, <2>1, <2>2, <2>3 DEF CmdForm
  <2>9. TargetKnown'
    BY <1>0, <1>1, <1>2, <2>1, <2>2, <2>3, <2>6 DEF TargetKnown
  <2>10. CommandKnown'
    <3>1. \A r \in Sessions : Mine(r)' = Mine(r)
      BY <1>3, <2>1, <2>2, <2>3 DEF Mine, Opening
    <3> QED
      BY <1>0, <1>4, <2>1, <3>1 DEF CommandKnown
  <2>11. Fits' /\ Ending'
    BY <1>0, <1>2, <2>1 DEF Fits, Ending
  <2> QED
    BY <2>4, <2>5, <2>7, <2>8, <2>9, <2>10, <2>11 DEF Inv
<1>6. CASE ~sess[s].closed /\ sess[s].target = k
  <2>1. /\ sess' = [sess EXCEPT ![s] = [sess[s] EXCEPT !.target = None, !.running = FALSE]]
        /\ cmds' = [cmds EXCEPT ![k] = NoCmd]
    BY <1>1, <1>6 DEF FinishTarget
  <2>2. /\ cmds'[k] = NoCmd /\ \A j \in Commands \ {k} : cmds'[j] = cmds[j]
        /\ cmds' \in [Commands -> CmdRec]
    BY <1>0, <2>1, FreeRecords
  <2>3. /\ ~sess'[s].closed /\ ~sess'[s].running /\ sess'[s].target = None
        /\ sess'[s].transfer = sess[s].transfer /\ sess'[s].strayed = sess[s].strayed
        /\ sess'[s].got = sess[s].got /\ sess'[s].want = sess[s].want
        /\ \A r \in Sessions \ {s} : sess'[r] = sess[r]
        /\ sess' \in [Sessions -> SessRec]
    <3>1. [sess[s] EXCEPT !.target = None, !.running = FALSE] \in SessRec
      BY <1>0 DEF SessRec
    <3> QED
      BY <1>0, <1>6, <2>1, <3>1 DEF SessRec
  <2>4. alloc' \in [Transfers -> AllocRec] /\ used' \in Nat /\ AllocForm' /\ Quota' /\ Owned'
    <3>1. /\ \A r \in Sessions : sess'[r].transfer = sess[r].transfer
          /\ cmds'[k].cleanup = None /\ \A j \in Commands \ {k} : cmds'[j].cleanup = cmds[j].cleanup
      BY <2>2, <2>3, FreeRecords
    <3> QED
      BY <1>0, <1>2, <3>1, CommandReleases
  <2>5. Shape'
    BY <1>0, <1>2, <2>2, <2>3, <2>4 DEF Shape
  <2>6. \A r \in Sessions \ {s} : sess[r].target # k
    BY <1>0, <1>1, <1>7 DEF SessForm
  <2>7. OneChannel' /\ SessForm'
    BY <1>0, <1>2, <1>4, <1>6, <2>2, <2>3, <2>6 DEF OneChannel, SessForm
  <2>8. CmdForm'
    BY <1>0, <1>4, <1>6, <2>2, <2>3, FreeRecords DEF CmdForm
  <2>9. TargetKnown'
    <3> SUFFICES ASSUME NEW j \in Commands, cmds'[j].target = "open", cmds'[j].pc # "attach"
                 PROVE  sess'[cmds'[j].sess].target = j \/ sess'[cmds'[j].sess].strayed
      BY DEF TargetKnown
    <3>1. j # k /\ cmds'[j] = cmds[j]
      BY <2>2, FreeRecords
    <3>2. sess[cmds[j].sess].target = j \/ sess[cmds[j].sess].strayed
      BY <1>0, <3>1 DEF TargetKnown
    <3>3. cmds[j].sess \in Sessions
      BY <1>0, <3>1, FreeRecords DEF CmdForm
    <3> QED
      BY <1>6, <2>3, <3>1, <3>2, <3>3
  <2>10. CommandKnown'
    <3>1. /\ \A r \in Sessions \ {s} : Mine(r)' = Mine(r)
          /\ Mine(s)' = Opening(s)
      BY <1>3, <2>2, <2>3, FreeRecords DEF Mine, Opening
    <3>2. ~sess[s].strayed => Opening(s) = {}
      <4> HAVE ~sess[s].strayed
      <4>1. PICK j \in Commands : Mine(s) = {j}
        BY <1>0, <1>2, <1>6, <1>7 DEF CommandKnown, Mine
      <4> QED
        BY <1>3, <1>6, <1>7, <4>1 DEF Mine
    <3> QED
      BY <1>0, <1>4, <2>3, <3>1, <3>2 DEF CommandKnown
  <2>11. Fits' /\ Ending'
    BY <1>0, <1>2, <2>3 DEF Fits, Ending
  <2> QED
    BY <2>4, <2>5, <2>7, <2>8, <2>9, <2>10, <2>11 DEF Inv
<1> QED
  BY <1>5, <1>6

-----------------------------------------------------------------------------
(* The invariant *)

\* Nothing has begun.
LEMMA InitInv == Init => Inv
<1> HAVE Init
<1>0. /\ used = 0 /\ alloc = [t \in Transfers |-> NoAlloc] /\ sessions = [ch \in Channels |-> None]
      /\ sess = [s \in Sessions |-> NoSess] /\ cmds = [k \in Commands |-> NoCmd] /\ main = "idle"
  BY DEF Init
<1>1. NoAlloc \in AllocRec /\ NoAlloc.st = "none" /\ NoAlloc.size = 0 /\ NoAlloc.back = 0
  BY DEF NoAlloc, AllocRec
<1>2. Shape
  BY <1>0, <1>1, FreeRecords DEF Shape
<1>3. \A t \in Transfers : alloc[t] = NoAlloc
  BY <1>0
<1>4. Quota
  BY <1>0, <1>3, NothingAccounted, TempStoreAssumption DEF Quota
<1>5. \A s \in Sessions : sess[s] = NoSess /\ ~Registered(s)
  BY <1>0, AppBridgeAssumption DEF Registered
<1>6. \A k \in Commands : cmds[k] = NoCmd
  BY <1>0
<1>7. OneChannel /\ Ending
  BY <1>0 DEF OneChannel, Ending
<1>8. SessForm /\ CommandKnown /\ Fits
  BY <1>5, FreeRecords DEF SessForm, CommandKnown, Fits
<1>9. CmdForm /\ TargetKnown
  BY <1>6, FreeRecords DEF CmdForm, TargetKnown
<1>10. Owned /\ AllocForm
  BY <1>1, <1>3, <1>5, <1>6, FreeRecords DEF Owned, AllocForm
<1> QED
  BY <1>2, <1>4, <1>7, <1>8, <1>9, <1>10 DEF Inv

\* Every step keeps the invariant.
LEMMA NextInv == Inv /\ [Next]_vars => Inv'
<1> SUFFICES ASSUME Inv, [Next]_vars PROVE Inv'
  OBVIOUS
<1>1. ASSUME NEW ch \in Channels, NEW s \in Sessions,
             \/ ProtocolFailure(ch, s)
             \/ \E k \in Commands : InstallInit(ch, s, k) \/ Uninstall(ch, s, k)
             \/ \E t \in Transfers, n \in 0..MaxAppBytes : PrepareInstall(ch, s, t, n)
      PROVE  Inv'
  BY <1>1, ProtocolFailureInv, StartCommandInv, PrepareInstallInv DEF InstallInit, Uninstall
<1>2. ASSUME NEW ch \in Channels,
             \/ CloseChannel(ch) \/ CloseSession(ch)
             \/ \E n \in {0, 1} : InstallData(ch, n) \/ \E k \in Commands : InstallComplete(ch, n, k)
      PROVE  Inv'
  BY <1>2, CloseInv, InstallDataInv, InstallCompleteInv
<1>3. CASE Cancel \/ CloseWaits \/ CloseReturns \/ UNCHANGED vars
  BY <1>3, EndingInv
<1>4. ASSUME NEW k \in Commands, CommandGoesOn(k) \/ WatchdogCloses(k)
      PROVE  Inv'
  BY <1>4, CommandStepInv, OpenTargetFailsInv, AttachTargetInv, FinishTargetInv DEF CommandGoesOn
<1> QED
  BY <1>1, <1>2, <1>3, <1>4 DEF Next, Closing

\* The invariant holds in every state.
LEMMA Invariance == Spec => []Inv
<1> QED
  BY InitInv, NextInv, PTL DEF Spec

-----------------------------------------------------------------------------
(* The results *)

\* Every state is well formed: the reserved bytes stay within the quota, and a package
\* never gets more bytes than it has declared.
THEOREM AppTypes == Spec => []TypeOK
<1>1. Inv => TypeOK
  <2> HAVE Inv
  <2>1. used \in 0..MaxBytes
    BY TempStoreAssumption DEF Inv, Shape, Quota
  <2> QED
    BY <2>1 DEF Inv, Shape, Fits, TypeOK
<1> QED
  BY <1>1, Invariance, PTL

\* A package on disk has exactly one owner, the session that receives it or the command
\* that installs it, however frames, closes and commands are interleaved.
THEOREM AppPackageHasOwner == Spec => []PackageHasOwner
<1>1. Inv => PackageHasOwner
  <2> SUFFICES ASSUME Inv, NEW t \in Transfers, alloc[t].st = "held"
               PROVE  Cardinality({s \in Sessions : Registered(s) /\ sess[s].transfer = t}
                                    \cup {k \in Commands : Alive(k) /\ cmds[k].cleanup = t}) = 1
    BY DEF PackageHasOwner
  <2> DEFINE S == {s \in Sessions : Registered(s) /\ sess[s].transfer = t}
             K == {k \in Commands : Alive(k) /\ cmds[k].cleanup = t}
  <2>0. Owned /\ SessForm /\ CmdForm /\ t # None
    BY AppBridgeAssumption DEF Inv
  <2>1. S = {s \in Sessions : sess[s].transfer = t}
    BY <2>0 DEF SessForm
  <2>2. K = {k \in Commands : cmds[k].cleanup = t}
    BY <2>0, FreeRecords DEF CmdForm, Alive
  <2> HIDE DEF S, K
  <2>3. CASE \E s \in Sessions : sess[s].transfer = t
    <3>1. PICK s \in Sessions : sess[s].transfer = t
      BY <2>3
    <3>2. S = {s} /\ K = {}
      BY <2>0, <2>1, <2>2, <3>1 DEF Owned
    <3> QED
      BY <3>2, FS_Singleton DEF S, K
  <2>4. CASE \A s \in Sessions : sess[s].transfer # t
    <3>1. PICK k \in Commands : cmds[k].cleanup = t
      BY <2>0, <2>4 DEF Owned
    <3>2. S = {} /\ K = {k}
      BY <2>0, <2>1, <2>2, <2>4, <3>1 DEF Owned
    <3> QED
      BY <3>2, FS_Singleton DEF S, K
  <2> QED
    BY <2>3, <2>4
<1> QED
  BY <1>1, Invariance, PTL

\* A session that was not reset under a command knows the one command whose result it
\* is going to report, whatever other commands are ending meanwhile.
THEOREM AppOneCommand == Spec => []OneCommand
<1>1. Inv => OneCommand
  <2> SUFFICES ASSUME Inv, NEW s \in Sessions, Registered(s), ~sess[s].strayed
               PROVE  Cardinality(Mine(s)) = (IF sess[s].running THEN 1 ELSE 0)
    BY DEF OneCommand, Mine
  <2>1. CommandKnown
    BY DEF Inv
  <2> QED
    BY <2>1, FS_Singleton, FS_EmptySet DEF CommandKnown
<1> QED
  BY <1>1, Invariance, PTL

\* When Close has returned, no command is under way, the quota is back, and a target
\* that is still open is one that a session lost when it was reset.
THEOREM AppCleanAfterClose == Spec => []CleanAfterClose
<1>1. Inv => CleanAfterClose
  <2> SUFFICES ASSUME Inv, main = "closed"
               PROVE  /\ used = 0
                      /\ \A k \in Commands : ~Alive(k) /\ (cmds[k].target = "open" => sess[cmds[k].sess].strayed)
    BY DEF CleanAfterClose
  <2>0. SessForm /\ CmdForm /\ TargetKnown /\ Owned /\ AllocForm /\ Quota /\ Ending /\ Shape
    BY DEF Inv
  <2>1. \A k \in Commands : ~Alive(k)
    BY <2>0 DEF Ending
  <2>2. \A s \in Sessions : ~Registered(s)
    BY <2>0, AppBridgeAssumption DEF Ending, Registered
  <2>3. \A s \in Sessions : sess[s].transfer = None /\ sess[s].target = None
    BY <2>0, <2>2 DEF SessForm
  <2>4. \A k \in Commands : cmds[k].cleanup = None
    BY <2>0, <2>1, FreeRecords DEF CmdForm, Alive
  <2>5. \A t \in Transfers : alloc[t] = NoAlloc
    BY <2>0, <2>3, <2>4, AppBridgeAssumption DEF Owned, AllocForm
  <2>6. used = 0
    BY <2>0, <2>5, NothingAccounted DEF Quota
  <2>7. \A k \in Commands : cmds[k].target = "open" => sess[cmds[k].sess].strayed
    <3> SUFFICES ASSUME NEW k \in Commands, cmds[k].target = "open"
                 PROVE  sess[cmds[k].sess].strayed
      OBVIOUS
    <3>1. cmds[k].pc = "done" /\ cmds[k].sess \in Sessions
      BY <2>0, <2>1, FreeRecords DEF CmdForm, Alive
    <3>2. sess[cmds[k].sess].target # k
      BY <2>3, <3>1, AppBridgeAssumption
    <3> QED
      BY <2>0, <3>1, <3>2 DEF TargetKnown
  <2> QED
    BY <2>1, <2>6, <2>7
<1> QED
  BY <1>1, Invariance, PTL
=============================================================================
