-------------------------- MODULE FileBridgeProofs --------------------------
(***************************************************************************)
(* The file family for any number of channels and transfers, any quota and *)
(* any limit on files: the store's account is exact, whoever takes a       *)
(* transfer out of its map is there to close it, no target is lost, and    *)
(* Close leaves nothing behind.                                            *)
(***************************************************************************)
EXTENDS FileBridge, FiniteSetTheorems, TLAPS

MainRec ==
  [pc: {"idle", "open", "reject", "begin", "download", "cancel", "wait", "closed"},
   t: Transfers \cup {None}, ch: Channels \cup {None}, closing: SUBSET Transfers]

Shape ==
  /\ alloc \in [Transfers -> AllocRec] /\ used \in Nat
  /\ uploads \in [Channels -> Transfers \cup {None}]
  /\ downloads \in [Channels -> Transfers \cup {None}]
  /\ tr \in [Transfers -> Transfer] /\ main \in MainRec

-----------------------------------------------------------------------------
(* The store *)

\* The halves of close leave nothing in the share but what is still to give back.
AllocForm ==
  \A t \in Transfers :
    /\ alloc[t].st \in {"none", "returned"} => alloc[t].size = 0 /\ alloc[t].back = 0
    /\ alloc[t].st = "held" => alloc[t].back = 0
    /\ alloc[t].st = "released" => alloc[t].size = 0

Quota == used = Accounted /\ used <= MaxBytes

-----------------------------------------------------------------------------
(* Transfers *)

\* A transfer exists as long as its allocation, only a closed one gives it back, and
\* no upload has more bytes than it has declared.
TransferForm ==
  \A t \in Transfers :
    /\ tr[t].kind = "none" => tr[t] = NoTransfer /\ alloc[t].st = "none"
    /\ alloc[t].st = "none" => tr[t].kind = "none"
    /\ alloc[t].st \in {"released", "returned"} => tr[t].closed
    /\ tr[t].got <= tr[t].want

\* A download holds the most its file can be until the file's size is known.
Sized ==
  \A t \in Transfers :
    /\ tr[t].g \in {"stat", "announce"} => tr[t].kind = "download"
    /\ tr[t].kind = "download" /\ alloc[t].st = "held" /\ tr[t].g \in {"none", "open", "attach", "read", "stat"}
         => alloc[t].size = MaxFileBytes

\* A target is held only until it is attached, and is attached to an open transfer,
\* with a watchdog while it is read.
TargetForm ==
  \A t \in Transfers :
    /\ tr[t].target = "held" => tr[t].g = "attach"
    /\ tr[t].target = "attached" => ~tr[t].closed /\ (tr[t].g = "read" => tr[t].dog)

-----------------------------------------------------------------------------
(* Who closes a transfer *)

\* An entry names a transfer of its kind and its channel.
MapForm ==
  \A ch \in Channels :
    /\ uploads[ch] # None => tr[uploads[ch]].kind = "upload" /\ tr[uploads[ch]].chan = ch
    /\ downloads[ch] # None => tr[downloads[ch]].kind = "download" /\ tr[downloads[ch]].chan = ch

\* The main loop has channels and transfers where it needs them; a new transfer is
\* its own until it is registered.
MainForm ==
  /\ main.pc \in {"open", "reject", "begin", "download"} => main.ch \in Channels
  /\ \A t \in main.closing : alloc[t].st \in {"held", "released"}
  /\ main.pc = "open" =>
       /\ main.t \in Transfers /\ main.closing = {} /\ alloc[main.t].st = "held"
       /\ ~tr[main.t].closed /\ ~tr[main.t].dog /\ tr[main.t].g = "none" /\ tr[main.t].snd = "none"
       /\ tr[main.t].chan = main.ch /\ ~Registered(main.t)

\* A transfer whose quota is not back is in a map, or new, or somebody waits for
\* its close.
Found ==
  \A t \in Transfers : alloc[t].st \in {"held", "released"} =>
    \/ Registered(t) \/ (main.pc = "open" /\ main.t = t) \/ t \in main.closing
    \/ tr[t].g = "close" \/ tr[t].snd = "close"

\* Close empties the maps for good and returns after the last goroutine.
Ending ==
  /\ main.pc \in {"wait", "closed"} =>
       \A ch \in Channels : uploads[ch] = None /\ downloads[ch] = None
  /\ main.pc = "closed" =>
       /\ main.closing = {}
       /\ \A t \in Transfers : tr[t].g \in {"none", "done"} /\ tr[t].snd \in {"none", "done"}

Inv ==
  /\ Shape /\ AllocForm /\ Quota /\ TransferForm /\ Sized /\ TargetForm
  /\ MapForm /\ MainForm /\ Found /\ Ending

-----------------------------------------------------------------------------
(* The quota *)

\* Numbered bytes of finitely many owners are finitely many.
LEMMA FiniteShares ==
  ASSUME NEW S, IsFiniteSet(S), NEW n \in [S -> Nat]
  PROVE  IsFiniteSet(UNION {{q} \X (1..n[q]) : q \in S})
<1> DEFINE T == {{q} \X (1..n[q]) : q \in S}
           f == [q \in S |-> {q} \X (1..n[q])]
<1>1. f \in Surjection(S, T)
  BY DEF Surjection
<1>2. IsFiniteSet(T)
  BY <1>1, FS_Surjection
<1>3. \A q \in S : IsFiniteSet({q} \X (1..n[q]))
  <2> TAKE q \in S
  <2>1. IsFiniteSet({q})
    BY FS_Singleton
  <2>2. n[q] \in Int
    OBVIOUS
  <2>3. IsFiniteSet(1..n[q])
    BY <2>2, FS_Interval
  <2> QED
    BY <2>1, <2>3, FS_Product
<1>4. \A X \in T : IsFiniteSet(X)
  BY <1>3
<1> HIDE DEF T
<1>5. IsFiniteSet(UNION T)
  BY <1>2, <1>4, FS_UNION
<1> QED
  BY <1>5 DEF T

\* One owner's bytes come on top of the others'.
LEMMA SharesAdd ==
  ASSUME NEW S, IsFiniteSet(S), NEW n \in [S -> Nat], NEW t \in S
  PROVE  /\ Cardinality(UNION {{q} \X (1..n[q]) : q \in S \ {t}}) \in Nat
         /\ Cardinality(UNION {{q} \X (1..n[q]) : q \in S}) =
              Cardinality(UNION {{q} \X (1..n[q]) : q \in S \ {t}}) + n[t]
<1> DEFINE All  == UNION {{q} \X (1..n[q]) : q \in S}
           Rest == UNION {{q} \X (1..n[q]) : q \in S \ {t}}
           Own  == {t} \X (1..n[t])
<1>1. All = Rest \cup Own /\ Rest \cap Own = {}
  OBVIOUS
<1>2. IsFiniteSet(Own) /\ Cardinality(Own) = n[t]
  <2>1. IsFiniteSet({t}) /\ Cardinality({t}) = 1
    BY FS_Singleton
  <2>2. IsFiniteSet(1..n[t]) /\ Cardinality(1..n[t]) = n[t]
    BY FS_Interval
  <2>3. IsFiniteSet(Own) /\ Cardinality(Own) = Cardinality({t}) * Cardinality(1..n[t])
    BY <2>1, <2>2, FS_Product
  <2> QED
    BY <2>1, <2>2, <2>3
<1>3. IsFiniteSet(All)
  BY FiniteShares
<1>4. IsFiniteSet(Rest)
  BY <1>1, <1>3, FS_Subset
<1> HIDE DEF All, Rest, Own
<1>5. Cardinality(All) = Cardinality(Rest) + Cardinality(Own) - Cardinality(Rest \cap Own)
  BY <1>1, <1>2, <1>4, FS_Union
<1>6. Cardinality(Rest) \in Nat /\ Cardinality({}) = 0
  BY <1>4, FS_CardinalityType, FS_EmptySet
<1>7. Cardinality(All) = Cardinality(Rest) + n[t]
  BY <1>1, <1>2, <1>5, <1>6
<1> QED
  BY <1>6, <1>7 DEF All, Rest

\* A step that touches one allocation moves the account by its difference.
LEMMA AccountMoves ==
  ASSUME alloc \in [Transfers -> AllocRec], alloc' \in [Transfers -> AllocRec], NEW t \in Transfers,
         \A q \in Transfers \ {t} : alloc'[q] = alloc[q]
  PROVE  /\ Accounted \in Nat /\ Accounted' \in Nat
         /\ Accounted >= alloc[t].size + alloc[t].back
         /\ Accounted' = Accounted - (alloc[t].size + alloc[t].back) + (alloc'[t].size + alloc'[t].back)
<1> DEFINE n == [q \in Transfers |-> alloc[q].size + alloc[q].back]
           m == [q \in Transfers |-> alloc'[q].size + alloc'[q].back]
           Rest(f) == UNION {{q} \X (1..f[q]) : q \in Transfers \ {t}}
<1>1. n \in [Transfers -> Nat] /\ m \in [Transfers -> Nat]
  BY DEF AllocRec
<1>2. \A q \in Transfers \ {t} : n[q] = m[q]
  OBVIOUS
<1>3. Rest(n) = Rest(m)
  BY <1>2
<1>4. /\ Accounted = Cardinality(UNION {{q} \X (1..n[q]) : q \in Transfers})
      /\ Accounted' = Cardinality(UNION {{q} \X (1..m[q]) : q \in Transfers})
  <2>1. /\ {Share(q) : q \in Transfers} = {{q} \X (1..n[q]) : q \in Transfers}
        /\ {Share(q)' : q \in Transfers} = {{q} \X (1..m[q]) : q \in Transfers}
    BY DEF Share
  <2> QED
    BY <2>1 DEF Accounted
<1>5. n[t] = alloc[t].size + alloc[t].back /\ m[t] = alloc'[t].size + alloc'[t].back
  OBVIOUS
<1> HIDE DEF n, m
<1>6. /\ Cardinality(Rest(n)) \in Nat /\ Accounted = Cardinality(Rest(n)) + n[t]
      /\ Accounted' = Cardinality(Rest(m)) + m[t]
  <2>1. IsFiniteSet(Transfers)
    BY TempStoreAssumption
  <2>2. /\ Cardinality(Rest(n)) \in Nat
        /\ Cardinality(UNION {{q} \X (1..n[q]) : q \in Transfers}) = Cardinality(Rest(n)) + n[t]
    BY <1>1, <2>1, SharesAdd
  <2>3. Cardinality(UNION {{q} \X (1..m[q]) : q \in Transfers}) = Cardinality(Rest(m)) + m[t]
    BY <1>1, <2>1, SharesAdd
  <2> QED
    BY <1>4, <2>2, <2>3
<1>7. n[t] \in Nat /\ m[t] \in Nat
  BY <1>1
<1> HIDE DEF Rest
<1> QED
  BY <1>3, <1>5, <1>6, <1>7

\* Where nothing is held nothing is accounted for.
LEMMA NothingAccounted ==
  ASSUME \A t \in Transfers : alloc[t].size = 0 /\ alloc[t].back = 0
  PROVE  Accounted = 0
<1>1. \A t \in Transfers : Share(t) = {}
  BY DEF Share
<1>2. UNION {Share(t) : t \in Transfers} = {}
  BY <1>1
<1> QED
  BY <1>2, FS_EmptySet DEF Accounted

\* A step that leaves the allocations alone.
LEMMA StoreSame ==
  ASSUME Shape, AllocForm, Quota, UNCHANGED store
  PROVE  alloc' \in [Transfers -> AllocRec] /\ used' \in Nat /\ AllocForm' /\ Quota'
<1>1. used' = used /\ alloc' = alloc
  BY DEF store
<1>2. Accounted' = Accounted
  BY <1>1 DEF Accounted, Share
<1> QED
  BY <1>1, <1>2 DEF Shape, AllocForm, Quota

\* A step that replaces one allocation, and moves the counter by as much as the
\* allocation, keeps the account.
LEMMA StoreMoves ==
  ASSUME Shape, AllocForm, Quota, NEW t \in Transfers, NEW rec \in AllocRec,
         alloc' = [alloc EXCEPT ![t] = rec],
         used' = used - (alloc[t].size + alloc[t].back) + (rec.size + rec.back), used' <= MaxBytes,
         rec.st \in {"none", "returned"} => rec.size = 0 /\ rec.back = 0,
         rec.st = "held" => rec.back = 0, rec.st = "released" => rec.size = 0
  PROVE  /\ alloc' \in [Transfers -> AllocRec] /\ used' \in Nat /\ AllocForm' /\ Quota'
         /\ alloc'[t] = rec /\ \A q \in Transfers \ {t} : alloc'[q] = alloc[q]
<1>1. alloc \in [Transfers -> AllocRec] /\ used \in Nat
  BY DEF Shape
<1>2. /\ alloc' \in [Transfers -> AllocRec] /\ alloc'[t] = rec
      /\ \A q \in Transfers \ {t} : alloc'[q] = alloc[q]
  BY <1>1
<1>3. /\ Accounted' \in Nat
      /\ Accounted' = Accounted - (alloc[t].size + alloc[t].back) + (alloc'[t].size + alloc'[t].back)
  BY <1>1, <1>2, AccountMoves
<1>4. Quota' /\ used' \in Nat
  BY <1>2, <1>3 DEF Quota
<1>5. AllocForm'
  BY <1>2 DEF AllocForm
<1> QED
  BY <1>2, <1>4, <1>5

\* What an allocation holds is within what is used.
LEMMA WithinUsed ==
  ASSUME Shape, Quota, NEW t \in Transfers
  PROVE  /\ alloc[t].size \in Nat /\ alloc[t].back \in Nat
         /\ alloc[t].size + alloc[t].back <= used
<1>1. alloc \in [Transfers -> AllocRec]
  BY DEF Shape
<1>2. alloc[t].size \in Nat /\ alloc[t].back \in Nat
  BY <1>1 DEF AllocRec
<1>3. Accounted \in Nat /\ Accounted >= alloc[t].size + alloc[t].back
  <2> DEFINE n == [q \in Transfers |-> alloc[q].size + alloc[q].back]
  <2>1. n \in [Transfers -> Nat] /\ IsFiniteSet(Transfers)
    BY <1>1, TempStoreAssumption DEF AllocRec
  <2>2. Accounted = Cardinality(UNION {{q} \X (1..n[q]) : q \in Transfers})
    <3>1. {Share(q) : q \in Transfers} = {{q} \X (1..n[q]) : q \in Transfers}
      BY DEF Share
    <3> QED
      BY <3>1 DEF Accounted
  <2>3. n[t] = alloc[t].size + alloc[t].back
    OBVIOUS
  <2> HIDE DEF n
  <2>4. /\ Cardinality(UNION {{q} \X (1..n[q]) : q \in Transfers \ {t}}) \in Nat
        /\ Cardinality(UNION {{q} \X (1..n[q]) : q \in Transfers}) =
             Cardinality(UNION {{q} \X (1..n[q]) : q \in Transfers \ {t}}) + n[t]
    BY <2>1, SharesAdd
  <2> QED
    BY <1>2, <2>2, <2>3, <2>4
<1> QED
  BY <1>2, <1>3 DEF Quota

-----------------------------------------------------------------------------
(* Three kinds of steps *)

\* Where the main loop goes and which transfers it closes.
LEMMA GotoForm ==
  ASSUME Shape, NEW pc \in {"idle", "open", "reject", "begin", "download", "cancel", "wait", "closed"},
         NEW t \in Transfers \cup {None}, NEW ch \in Channels \cup {None},
         NEW C \in SUBSET (Transfers \cup {None}), Goto(pc, t, ch, C)
  PROVE  /\ main' \in MainRec /\ main'.pc = pc /\ main'.t = t /\ main'.ch = ch
         /\ main'.closing = {c \in C \ {None} : ~IsClosed(c)}
<1>1. {c \in C \ {None} : ~IsClosed(c)} \in SUBSET Transfers
  OBVIOUS
<1> QED
  BY <1>1 DEF Goto, MainRec

\* What the goroutines of a transfer do to it: it stays what it is and closed if it
\* was closed, and whoever was going to close it waits until its quota is back.
Goes(t) ==
  /\ tr' \in [Transfers -> Transfer] /\ \A q \in Transfers \ {t} : tr'[q] = tr[q]
  /\ tr'[t].kind = tr[t].kind /\ tr'[t].chan = tr[t].chan /\ tr'[t].got <= tr'[t].want
  /\ tr[t].closed => tr'[t].closed
  /\ tr'[t].g \in {"stat", "announce"} => tr[t].kind = "download"
  /\ tr'[t].g \in {"none", "open", "attach", "read", "stat"} =>
       tr[t].g \in {"none", "open", "attach", "read", "stat"}
  /\ tr'[t].target = "held" => tr'[t].g = "attach"
  /\ tr'[t].target = "attached" => ~tr'[t].closed /\ (tr'[t].g = "read" => tr'[t].dog)
  /\ tr[t].g = "close" /\ tr'[t].g # "close" => IsClosed(t)
  /\ tr[t].snd = "close" /\ tr'[t].snd # "close" => IsClosed(t)
  /\ main.pc = "closed" => tr'[t].g \in {"none", "done"} /\ tr'[t].snd \in {"none", "done"}

\* A transfer goes on, or ends, by itself: it may leave its map if it, or the
\* goroutine that replays it, is going to close it.
LEMMA OneTransfer ==
  ASSUME Inv, NEW t \in Transfers, Goes(t), UNCHANGED store,
         \/ UNCHANGED maps
         \/ /\ RemoveIfCurrent(t)
            /\ Registered(t) => tr'[t].g = "close" \/ tr'[t].snd = "close",
         main' \in MainRec, main'.pc = main.pc, main'.closing = main.closing,
         main.pc # "idle" => main' = main, main.pc = "open" => t # main.t,
         tr[t].kind # "none"
  PROVE  Inv'
<1>0. /\ used' = used /\ alloc' = alloc
      /\ uploads \in [Channels -> Transfers \cup {None}] /\ downloads \in [Channels -> Transfers \cup {None}]
  BY DEF store, Inv, Shape
<1>1. /\ uploads' \in [Channels -> Transfers \cup {None}] /\ downloads' \in [Channels -> Transfers \cup {None}]
      /\ \A ch \in Channels : /\ uploads'[ch] \in {uploads[ch], None}
                              /\ downloads'[ch] \in {downloads[ch], None}
                              /\ uploads[ch] # t => uploads'[ch] = uploads[ch]
                              /\ downloads[ch] # t => downloads'[ch] = downloads[ch]
  BY <1>0 DEF maps, RemoveIfCurrent
<1>2. \A q \in Transfers \ {t} : Registered(q)' <=> Registered(q)
  BY <1>1, FileBridgeAssumption DEF Registered
<1>3. Registered(t)' => Registered(t)
  BY <1>1, FileBridgeAssumption DEF Registered
<1>4. Registered(t) => Registered(t)' \/ tr'[t].g = "close" \/ tr'[t].snd = "close"
  BY DEF Registered, maps
<1>5. alloc' \in [Transfers -> AllocRec] /\ used' \in Nat /\ AllocForm' /\ Quota'
  BY StoreSame DEF Inv
<1>6. Shape'
  BY <1>1, <1>5 DEF Goes, Shape
<1>7. TransferForm'
  BY <1>0 DEF Goes, Inv, TransferForm
<1>8. Sized'
  BY <1>0 DEF Goes, Inv, Sized
<1>9. TargetForm'
  BY DEF Goes, Inv, TargetForm
<1>10. MapForm'
  <2>1. \A q \in Transfers : tr'[q].kind = tr[q].kind /\ tr'[q].chan = tr[q].chan
    BY DEF Goes
  <2> QED
    BY <1>0, <1>1, <2>1 DEF Inv, MapForm
<1>11. MainForm'
  <2>1. CASE main.pc = "open"
    <3>1. main' = main /\ main.t # t /\ main.t \in Transfers
      BY <2>1 DEF Inv, MainForm
    <3> QED
      BY <1>0, <1>2, <2>1, <3>1 DEF Goes, Inv, MainForm
  <2>2. CASE main.pc # "open"
    <3>1. main.pc \in {"reject", "begin", "download"} => main'.ch \in Channels
      BY DEF Inv, MainForm
    <3> QED
      BY <1>0, <2>2, <3>1 DEF Inv, MainForm
  <2> QED
    BY <2>1, <2>2
<1>12. Found'
  <2> SUFFICES ASSUME NEW q \in Transfers, alloc[q].st \in {"held", "released"}
               PROVE  \/ Registered(q)' \/ (main'.pc = "open" /\ main'.t = q) \/ q \in main'.closing
                      \/ tr'[q].g = "close" \/ tr'[q].snd = "close"
    BY <1>0 DEF Found
  <2>1. \/ Registered(q) \/ (main.pc = "open" /\ main.t = q) \/ q \in main.closing
        \/ tr[q].g = "close" \/ tr[q].snd = "close"
    BY DEF Inv, Found
  <2>2. CASE q = t
    BY <1>4, <2>1, <2>2 DEF Goes, IsClosed
  <2>3. CASE q # t
    BY <1>2, <2>1, <2>3 DEF Goes
  <2> QED
    BY <2>2, <2>3
<1>13. Ending'
  BY <1>1 DEF Goes, Inv, Ending
<1> QED
  BY <1>5, <1>6, <1>7, <1>8, <1>9, <1>10, <1>11, <1>12, <1>13 DEF Inv

\* The main loop goes on: what it takes out of the maps it closes.
LEMMA MainRemoves ==
  ASSUME Inv, UNCHANGED <<store, tr>>, main.closing = {}, main.pc # "open",
         main' \in MainRec, main'.pc # "open",
         main'.pc \in {"reject", "begin", "download"} => main'.ch \in Channels,
         uploads' \in [Channels -> Transfers \cup {None}], downloads' \in [Channels -> Transfers \cup {None}],
         \A ch \in Channels : /\ uploads'[ch] \in {uploads[ch], None}
                              /\ downloads'[ch] \in {downloads[ch], None}
                              /\ uploads'[ch] # uploads[ch] /\ ~IsClosed(uploads[ch])
                                   => uploads[ch] \in main'.closing
                              /\ downloads'[ch] # downloads[ch] /\ ~IsClosed(downloads[ch])
                                   => downloads[ch] \in main'.closing,
         \A t \in main'.closing : Registered(t) /\ ~IsClosed(t),
         main'.pc \in {"wait", "closed"} =>
           \A ch \in Channels : uploads'[ch] = None /\ downloads'[ch] = None,
         main'.pc = "closed" =>
           /\ main'.closing = {}
           /\ \A t \in Transfers : tr[t].g \in {"none", "done"} /\ tr[t].snd \in {"none", "done"}
  PROVE  Inv'
<1>0. /\ used' = used /\ alloc' = alloc /\ tr' = tr
      /\ uploads \in [Channels -> Transfers \cup {None}] /\ downloads \in [Channels -> Transfers \cup {None}]
      /\ alloc \in [Transfers -> AllocRec] /\ tr \in [Transfers -> Transfer]
  BY DEF store, Inv, Shape
<1>1. alloc' \in [Transfers -> AllocRec] /\ used' \in Nat /\ AllocForm' /\ Quota'
  BY StoreSame DEF Inv, store
<1>2. Shape'
  BY <1>0, <1>1 DEF Shape
<1>3. TransferForm' /\ Sized' /\ TargetForm'
  BY <1>0 DEF Inv, TransferForm, Sized, TargetForm
<1>4. MapForm'
  BY <1>0 DEF Inv, MapForm
<1>5. \A t \in Transfers : Registered(t) => tr[t].kind # "none"
  BY FileBridgeAssumption DEF Inv, MapForm, Registered
<1>6. MainForm'
  <2>1. \A t \in main'.closing : t \in Transfers
    BY DEF MainRec
  <2>2. \A t \in main'.closing : alloc[t].st \in {"held", "released"}
    BY <1>0, <1>5, <2>1 DEF Inv, TransferForm, IsClosed, AllocRec
  <2> QED
    BY <1>0, <2>2 DEF MainForm
<1>7. Found'
  <2> SUFFICES ASSUME NEW t \in Transfers, alloc[t].st \in {"held", "released"}
               PROVE  \/ Registered(t)' \/ t \in main'.closing
                      \/ tr'[t].g = "close" \/ tr'[t].snd = "close"
    BY <1>0 DEF Found
  <2>1. Registered(t) \/ tr[t].g = "close" \/ tr[t].snd = "close"
    BY DEF Inv, Found
  <2>2. ASSUME NEW ch \in Channels, uploads[ch] = t \/ downloads[ch] = t
        PROVE  Registered(t)' \/ t \in main'.closing
    BY <2>2 DEF Registered, IsClosed
  <2> QED
    BY <1>0, <2>1, <2>2 DEF Registered
<1>8. Ending'
  BY <1>0 DEF Ending
<1> QED
  BY <1>1, <1>2, <1>3, <1>4, <1>6, <1>7, <1>8 DEF Inv

-----------------------------------------------------------------------------
(* The steps of the main loop *)

\* The entries of a channel.
LEMMA Entries ==
  ASSUME Inv, NEW ch \in Channels
  PROVE  /\ uploads[ch] \in Transfers \cup {None} /\ downloads[ch] \in Transfers \cup {None}
         /\ uploads[ch] # None => Registered(uploads[ch])
         /\ downloads[ch] # None => Registered(downloads[ch])
BY DEF Inv, Shape, Registered

\* rejectAndClose, failUpload and CloseChannel's first half.
LEMMA UploadRemoved ==
  ASSUME Inv, main.closing = {}, main.pc # "open", NEW ch \in Channels,
         NEW pc \in {"idle", "download"}, NEW c \in Channels \cup {None}, pc = "download" => c \in Channels,
         uploads' = [uploads EXCEPT ![ch] = None], Goto(pc, None, c, {uploads[ch]}),
         UNCHANGED <<store, downloads, tr>>
  PROVE  Inv'
<1>1. /\ uploads \in [Channels -> Transfers \cup {None}] /\ downloads \in [Channels -> Transfers \cup {None}]
  BY DEF Inv, Shape
<1>2. /\ main' \in MainRec /\ main'.pc = pc /\ main'.ch = c
      /\ main'.closing = {t \in {uploads[ch]} \ {None} : ~IsClosed(t)}
  BY <1>1, GotoForm DEF Inv
<1>3. \A d \in Channels : uploads'[d] = IF d = ch THEN None ELSE uploads[d]
  BY <1>1
<1>4. uploads' \in [Channels -> Transfers \cup {None}]
  BY <1>1
<1>5. uploads'[ch] # uploads[ch] /\ ~IsClosed(uploads[ch]) => uploads[ch] \in main'.closing
  BY <1>2, <1>3
<1>6. \A t \in main'.closing : Registered(t) /\ ~IsClosed(t)
  BY <1>2, Entries
<1> QED
  BY <1>1, <1>2, <1>3, <1>4, <1>5, <1>6, MainRemoves

\* FINISH of a download, and CloseChannel's second half.
LEMMA DownloadRemoved ==
  ASSUME Inv, main.closing = {}, main.pc # "open", NEW ch \in Channels, RemoveDownload(ch)
  PROVE  Inv'
<1>1. /\ uploads \in [Channels -> Transfers \cup {None}] /\ downloads \in [Channels -> Transfers \cup {None}]
  BY DEF Inv, Shape
<1>2. /\ downloads' = [downloads EXCEPT ![ch] = None] /\ UNCHANGED <<store, uploads, tr>>
      /\ Goto("idle", None, None, {downloads[ch]})
  BY DEF RemoveDownload, Return
<1>3. /\ main' \in MainRec /\ main'.pc = "idle"
      /\ main'.closing = {t \in {downloads[ch]} \ {None} : ~IsClosed(t)}
  <2>1. {downloads[ch]} \in SUBSET (Transfers \cup {None}) /\ Shape
    BY <1>1 DEF Inv
  <2> QED
    BY <1>2, <2>1, GotoForm
<1>4. \A d \in Channels : downloads'[d] = IF d = ch THEN None ELSE downloads[d]
  BY <1>1, <1>2
<1>5. downloads' \in [Channels -> Transfers \cup {None}]
  BY <1>1, <1>2
<1>6. downloads'[ch] # downloads[ch] /\ ~IsClosed(downloads[ch]) => downloads[ch] \in main'.closing
  BY <1>3, <1>4
<1>7. \A t \in main'.closing : Registered(t) /\ ~IsClosed(t)
  BY <1>3, Entries
<1> QED
  BY <1>1, <1>2, <1>3, <1>4, <1>5, <1>6, <1>7, MainRemoves

\* The main loop goes on with the maps as they are.
LEMMA MainMoves ==
  ASSUME Inv, main.closing = {}, main.pc # "open", UNCHANGED <<store, maps, tr>>,
         NEW pc \in {"idle", "cancel", "closed"}, Goto(pc, None, None, {}),
         pc = "closed" =>
           /\ main.pc = "wait"
           /\ \A t \in Transfers : tr[t].g \in {"none", "done"} /\ tr[t].snd \in {"none", "done"}
  PROVE  Inv'
<1>1. /\ uploads \in [Channels -> Transfers \cup {None}] /\ downloads \in [Channels -> Transfers \cup {None}]
      /\ uploads' = uploads /\ downloads' = downloads
  BY DEF Inv, Shape, maps
<1>2. main' \in MainRec /\ main'.pc = pc /\ main'.closing = {}
  BY GotoForm DEF Inv
<1>3. pc = "closed" => \A ch \in Channels : uploads[ch] = None /\ downloads[ch] = None
  BY DEF Inv, Ending
<1> QED
  BY <1>1, <1>2, <1>3, MainRemoves

\* Close takes everything out of the maps and closes it.
LEMMA CloseKeeps == Inv /\ Close => Inv'
<1> SUFFICES ASSUME Inv, Close PROVE Inv'
  OBVIOUS
<1> DEFINE All == {uploads[ch] : ch \in Channels} \cup {downloads[ch] : ch \in Channels}
<1>1. /\ uploads \in [Channels -> Transfers \cup {None}] /\ downloads \in [Channels -> Transfers \cup {None}]
  BY DEF Inv, Shape
<1>2. /\ main.pc = "cancel" /\ main.closing = {}
      /\ uploads' = [ch \in Channels |-> None] /\ downloads' = [ch \in Channels |-> None]
      /\ Goto("wait", None, None, All) /\ UNCHANGED <<store, tr>>
  BY DEF Close, At
<1>3. All \in SUBSET (Transfers \cup {None})
  BY <1>1
<1>4. \A t \in All \ {None} : Registered(t)
  BY DEF Registered
<1>5. \A ch \in Channels : uploads[ch] \in All /\ downloads[ch] \in All
  OBVIOUS
<1> HIDE DEF All
<1>6. /\ main' \in MainRec /\ main'.pc = "wait"
      /\ main'.closing = {c \in All \ {None} : ~IsClosed(c)}
  BY <1>2, <1>3, GotoForm DEF Inv
<1>7. /\ uploads' \in [Channels -> Transfers \cup {None}] /\ downloads' \in [Channels -> Transfers \cup {None}]
      /\ \A ch \in Channels : uploads'[ch] = None /\ downloads'[ch] = None
  BY <1>2
<1>8. \A ch \in Channels :
        /\ uploads'[ch] # uploads[ch] /\ ~IsClosed(uploads[ch]) => uploads[ch] \in main'.closing
        /\ downloads'[ch] # downloads[ch] /\ ~IsClosed(downloads[ch]) => downloads[ch] \in main'.closing
  BY <1>5, <1>6, <1>7
<1>9. \A t \in main'.closing : Registered(t) /\ ~IsClosed(t)
  BY <1>4, <1>6
<1> QED
  BY <1>2, <1>6, <1>7, <1>8, <1>9, MainRemoves

\* The steps that end with the maps smaller or the same.
LEMMA MainKeeps ==
  ASSUME Inv,
         \/ \E ch \in Channels : FrameRejected(ch) \/ RecvFinish(ch) \/ CloseChannel(ch)
         \/ Rejects \/ BeginSent \/ BeginFails \/ ClosesDownload \/ Cancel \/ Close \/ CloseReturns
  PROVE  Inv'
<1>1. main.pc \in {"reject", "begin", "download"} => main.ch \in Channels
  BY DEF Inv, MainForm
<1>2. ASSUME NEW ch \in Channels, FrameRejected(ch) PROVE Inv'
  BY <1>2, UploadRemoved DEF FrameRejected, RejectUpload, Return, At
<1>3. ASSUME NEW ch \in Channels, RecvFinish(ch) PROVE Inv'
  BY <1>3, DownloadRemoved DEF RecvFinish, At
<1>4. ASSUME NEW ch \in Channels, CloseChannel(ch) PROVE Inv'
  BY <1>4, UploadRemoved DEF CloseChannel, At
<1>5. CASE Rejects \/ BeginFails
  BY <1>1, <1>5, UploadRemoved DEF Rejects, BeginFails, RejectUpload, Return, At
<1>6. CASE ClosesDownload
  BY <1>1, <1>6, DownloadRemoved DEF ClosesDownload, At
<1>7. CASE BeginSent \/ Cancel
  BY <1>7, MainMoves DEF BeginSent, Cancel, Return, At
<1>8. CASE CloseReturns
  BY <1>8, MainMoves DEF CloseReturns, At
<1> QED
  BY <1>2, <1>3, <1>4, <1>5, <1>6, <1>7, <1>8, CloseKeeps

-----------------------------------------------------------------------------
(* The beginning of a transfer *)

\* What a place in the pool holds that is not used.
LEMMA Nothing ==
  /\ NoTransfer \in Transfer /\ NoTransfer.kind = "none" /\ NoTransfer.target = "none"
  /\ NoTransfer.g = "none" /\ NoTransfer.snd = "none" /\ ~NoTransfer.closed /\ ~NoTransfer.dog
  /\ NoTransfer.got = 0 /\ NoTransfer.want = 0
  /\ NoAlloc \in AllocRec /\ NoAlloc.size = 0 /\ NoAlloc.back = 0 /\ NoAlloc.st = "none"
BY FileBridgeAssumption DEF NoAlloc, AllocRec, NoTransfer, Transfer

\* CHECK and INIT reserve for a transfer nobody refers to.
LEMMA NewTransfer ==
  ASSUME Inv, NEW ch \in Channels, NEW t \in Transfers, NEW n \in Nat, NEW rec \in Transfer,
         rec.kind \in {"upload", "download"}, rec.chan = ch, rec.kind = "download" => n = MaxFileBytes,
         rec.got <= rec.want, ~rec.closed, ~rec.dog, rec.g = "none", rec.snd = "none", rec.target = "none",
         At("idle"), Free(t), Reserve(t, n), tr' = [tr EXCEPT ![t] = rec], Goto("open", t, ch, {}),
         UNCHANGED maps
  PROVE  Inv'
<1> DEFINE new == [size |-> n, back |-> 0, st |-> "held"]
<1>0. /\ alloc \in [Transfers -> AllocRec] /\ used \in Nat /\ tr \in [Transfers -> Transfer]
      /\ uploads \in [Channels -> Transfers \cup {None}] /\ downloads \in [Channels -> Transfers \cup {None}]
      /\ uploads' = uploads /\ downloads' = downloads
  BY DEF Inv, Shape, maps
<1>1. /\ main' \in MainRec /\ main'.pc = "open" /\ main'.t = t /\ main'.ch = ch /\ main'.closing = {}
  BY GotoForm DEF Inv
<1>2. ~Registered(t)
  <2>1. tr[t].kind = "none" => ~Registered(t)
    BY FileBridgeAssumption DEF Inv, MapForm, Registered
  <2> QED
    BY <2>1 DEF Free
<1>3. alloc[t].st \in {"none", "returned"}
  BY DEF Inv, TransferForm, Free, IsClosed
<1>4. alloc[t].size = 0 /\ alloc[t].back = 0
  BY <1>3 DEF Inv, AllocForm
<1>5. new \in AllocRec /\ new.size = n /\ new.back = 0 /\ new.st = "held"
  BY DEF AllocRec
<1>6. alloc' = [alloc EXCEPT ![t] = new] /\ used' = used + n /\ n <= MaxBytes - used
  BY DEF Reserve
<1> HIDE DEF new
<1>7. used' = used - (alloc[t].size + alloc[t].back) + (new.size + new.back) /\ used' <= MaxBytes
  BY <1>0, <1>4, <1>5, <1>6, TempStoreAssumption
<1>8. /\ alloc' \in [Transfers -> AllocRec] /\ used' \in Nat /\ AllocForm' /\ Quota'
      /\ alloc'[t] = new /\ \A q \in Transfers \ {t} : alloc'[q] = alloc[q]
  BY <1>5, <1>6, <1>7, StoreMoves DEF Inv
<1>9. /\ tr' \in [Transfers -> Transfer] /\ tr'[t] = rec
      /\ \A q \in Transfers \ {t} : tr'[q] = tr[q]
  BY <1>0
<1>10. \A q \in Transfers : Registered(q)' <=> Registered(q)
  BY <1>0 DEF Registered
<1>11. Shape'
  BY <1>0, <1>1, <1>8, <1>9 DEF Shape
<1>12. TransferForm'
  BY <1>5, <1>8, <1>9 DEF Inv, TransferForm
<1>13. Sized' /\ TargetForm'
  BY <1>5, <1>8, <1>9 DEF Inv, Sized, TargetForm
<1>14. MapForm'
  BY <1>0, <1>2, <1>9 DEF Inv, MapForm, Registered
<1>15. MainForm'
  BY <1>1, <1>2, <1>5, <1>8, <1>9, <1>10 DEF MainForm
<1>16. Found'
  BY <1>1, <1>8, <1>9, <1>10 DEF Inv, Found, At
<1>17. Ending'
  BY <1>1 DEF Ending
<1> QED
  BY <1>8, <1>11, <1>12, <1>13, <1>14, <1>15, <1>16, <1>17 DEF Inv

\* CHECK declares the size.
LEMMA CheckReserveKeeps ==
  ASSUME Inv, NEW ch \in Channels, NEW t \in Transfers, NEW n \in 0..MaxFileBytes, CheckReserve(ch, t, n)
  PROVE  Inv'
<1> DEFINE rec == [NoTransfer EXCEPT !.kind = "upload", !.chan = ch, !.want = n]
<1>1. /\ rec \in Transfer /\ rec.kind = "upload" /\ rec.chan = ch /\ rec.got <= rec.want
      /\ ~rec.closed /\ ~rec.dog /\ rec.g = "none" /\ rec.snd = "none" /\ rec.target = "none"
  <2>1. \A r \in Transfer :
          LET q == [r EXCEPT !.kind = "upload", !.chan = ch, !.want = n] IN
          /\ q \in Transfer /\ q.kind = "upload" /\ q.chan = ch /\ q.got = r.got /\ q.want = n
          /\ q.closed = r.closed /\ q.dog = r.dog /\ q.g = r.g /\ q.snd = r.snd /\ q.target = r.target
    BY DEF Transfer
  <2>2. /\ rec \in Transfer /\ rec.kind = "upload" /\ rec.chan = ch /\ rec.got = 0 /\ rec.want = n
        /\ rec.closed = NoTransfer.closed /\ rec.dog = NoTransfer.dog /\ rec.g = NoTransfer.g
        /\ rec.snd = NoTransfer.snd /\ rec.target = NoTransfer.target
    BY <2>1, Nothing
  <2> HIDE DEF rec
  <2> QED
    BY <2>2, Nothing, FileBridgeAssumption
<1>2. /\ At("idle") /\ Free(t) /\ Reserve(t, n) /\ tr' = [tr EXCEPT ![t] = rec]
      /\ Goto("open", t, ch, {}) /\ UNCHANGED maps
  BY DEF CheckReserve
<1> HIDE DEF rec
<1>3. n \in Nat
  BY FileBridgeAssumption
<1> QED
  BY <1>1, <1>2, <1>3, NewTransfer

\* INIT does not know it.
LEMMA RecvInitKeeps ==
  ASSUME Inv, NEW ch \in Channels, NEW t \in Transfers, RecvInit(ch, t)
  PROVE  Inv'
<1> DEFINE rec == [NoTransfer EXCEPT !.kind = "download", !.chan = ch]
<1>1. /\ rec \in Transfer /\ rec.kind = "download" /\ rec.chan = ch /\ rec.got <= rec.want
      /\ ~rec.closed /\ ~rec.dog /\ rec.g = "none" /\ rec.snd = "none" /\ rec.target = "none"
  <2>1. \A r \in Transfer :
          LET q == [r EXCEPT !.kind = "download", !.chan = ch] IN
          /\ q \in Transfer /\ q.kind = "download" /\ q.chan = ch /\ q.got = r.got /\ q.want = r.want
          /\ q.closed = r.closed /\ q.dog = r.dog /\ q.g = r.g /\ q.snd = r.snd /\ q.target = r.target
    BY DEF Transfer
  <2>2. /\ rec \in Transfer /\ rec.kind = "download" /\ rec.chan = ch /\ rec.got = 0 /\ rec.want = 0
        /\ rec.closed = NoTransfer.closed /\ rec.dog = NoTransfer.dog /\ rec.g = NoTransfer.g
        /\ rec.snd = NoTransfer.snd /\ rec.target = NoTransfer.target
    BY <2>1, Nothing
  <2> HIDE DEF rec
  <2> QED
    BY <2>2, Nothing, FileBridgeAssumption
<1>2. /\ At("idle") /\ Free(t) /\ Reserve(t, MaxFileBytes) /\ tr' = [tr EXCEPT ![t] = rec]
      /\ Goto("open", t, ch, {}) /\ UNCHANGED maps
  BY DEF RecvInit
<1> HIDE DEF rec
<1>3. MaxFileBytes \in Nat
  BY FileBridgeAssumption
<1> QED
  BY <1>1, <1>2, <1>3, NewTransfer

\* The new transfer is dropped with its reservation.
LEMMA OpenFileFailsKeeps == Inv /\ OpenFileFails => Inv'
<1> SUFFICES ASSUME Inv, OpenFileFails PROVE Inv'
  OBVIOUS
<1> DEFINE t == main.t
<1>0. /\ alloc \in [Transfers -> AllocRec] /\ used \in Nat /\ tr \in [Transfers -> Transfer]
      /\ uploads \in [Channels -> Transfers \cup {None}] /\ downloads \in [Channels -> Transfers \cup {None}]
      /\ uploads' = uploads /\ downloads' = downloads
  BY DEF Inv, Shape, maps, OpenFileFails
<1>1. main.pc = "open" /\ main.closing = {}
  BY DEF OpenFileFails, At
<1>2. t \in Transfers /\ alloc[t].st = "held" /\ ~Registered(t) /\ main.ch \in Channels
  BY <1>1 DEF Inv, MainForm
<1>3. \/ Goto("reject", None, main.ch, {})
      \/ Goto("idle", None, None, {})
  BY DEF OpenFileFails, Return
<1>4. /\ main' \in MainRec /\ main'.pc \in {"reject", "idle"} /\ main'.closing = {}
      /\ main'.pc = "reject" => main'.ch \in Channels
  <2>1. /\ Shape /\ {} \in SUBSET (Transfers \cup {None}) /\ None \in Transfers \cup {None}
        /\ None \in Channels \cup {None} /\ main.ch \in Channels \cup {None}
    BY <1>2 DEF Inv
  <2>2. CASE Goto("reject", None, main.ch, {})
    BY <1>2, <2>1, <2>2, GotoForm
  <2>3. CASE Goto("idle", None, None, {})
    BY <2>1, <2>3, GotoForm
  <2> QED
    BY <1>3, <2>2, <2>3
<1>5. /\ NoAlloc \in AllocRec /\ NoAlloc.size = 0 /\ NoAlloc.back = 0 /\ NoAlloc.st = "none"
      /\ NoTransfer \in Transfer /\ NoTransfer.kind = "none" /\ NoTransfer.target = "none"
      /\ NoTransfer.g = "none" /\ NoTransfer.snd = "none" /\ NoTransfer.got <= NoTransfer.want
  BY Nothing
<1>6. /\ used' = Less(alloc[t].size) /\ alloc' = [alloc EXCEPT ![t] = NoAlloc]
      /\ tr' = [tr EXCEPT ![t] = NoTransfer]
  BY DEF OpenFileFails, Unreserve
<1> HIDE DEF t
<1>7. alloc[t].back = 0 /\ alloc[t].size \in Nat /\ alloc[t].size <= used /\ used <= MaxBytes
  BY <1>0, <1>2, WithinUsed DEF Inv, AllocForm, Quota
<1>8. used' = used - (alloc[t].size + alloc[t].back) + (NoAlloc.size + NoAlloc.back) /\ used' <= MaxBytes
  BY <1>0, <1>5, <1>6, <1>7, TempStoreAssumption DEF Less
<1>9. /\ alloc' \in [Transfers -> AllocRec] /\ used' \in Nat /\ AllocForm' /\ Quota'
      /\ alloc'[t] = NoAlloc /\ \A q \in Transfers \ {t} : alloc'[q] = alloc[q]
  BY <1>2, <1>5, <1>6, <1>8, StoreMoves DEF Inv
<1>10. /\ tr' \in [Transfers -> Transfer] /\ tr'[t] = NoTransfer
       /\ \A q \in Transfers \ {t} : tr'[q] = tr[q]
  BY <1>0, <1>2, <1>5, <1>6
<1>11. \A q \in Transfers : Registered(q)' <=> Registered(q)
  BY <1>0 DEF Registered
<1>12. Shape'
  BY <1>0, <1>4, <1>9, <1>10 DEF Shape
<1>13. TransferForm'
  BY <1>5, <1>9, <1>10 DEF Inv, TransferForm
<1>14. Sized' /\ TargetForm'
  BY <1>5, <1>9, <1>10 DEF Inv, Sized, TargetForm
<1>15. MapForm'
  BY <1>0, <1>2, <1>10 DEF Inv, MapForm, Registered
<1>16. MainForm' /\ Ending'
  BY <1>4 DEF MainForm, Ending
<1>17. Found'
  BY <1>1, <1>5, <1>9, <1>10, <1>11 DEF Inv, Found, t
<1> QED
  BY <1>9, <1>12, <1>13, <1>14, <1>15, <1>16, <1>17 DEF Inv

\* The transfer is registered, and a download started, or the main loop closes it.
LEMMA RegisterKeeps == Inv /\ (RegisterUpload \/ RegisterDownload) => Inv'
<1> SUFFICES ASSUME Inv, RegisterUpload \/ RegisterDownload PROVE Inv'
  OBVIOUS
<1>1. main.pc = "open" /\ main.closing = {}
  BY DEF RegisterUpload, RegisterDownload, At
<1>2. PICK t \in Transfers, ch \in Channels : t = main.t /\ ch = main.ch
  BY <1>1 DEF Inv, MainForm
<1>3. /\ alloc \in [Transfers -> AllocRec] /\ tr \in [Transfers -> Transfer]
      /\ uploads \in [Channels -> Transfers \cup {None}] /\ downloads \in [Channels -> Transfers \cup {None}]
      /\ used' = used /\ alloc' = alloc
  BY DEF Inv, Shape, store, RegisterUpload, RegisterDownload
<1>4. /\ t \in Transfers /\ ch \in Channels /\ alloc[t].st = "held" /\ ~Registered(t)
      /\ ~tr[t].closed /\ ~tr[t].dog /\ tr[t].g = "none" /\ tr[t].snd = "none" /\ tr[t].chan = ch
      /\ ~IsClosed(t) /\ tr[t].kind # "none" /\ tr[t].target # "held"
  <2>1. /\ t \in Transfers /\ ch \in Channels /\ alloc[t].st = "held" /\ ~Registered(t)
        /\ ~tr[t].closed /\ ~tr[t].dog /\ tr[t].g = "none" /\ tr[t].snd = "none" /\ tr[t].chan = ch
    BY <1>1, <1>2 DEF Inv, MainForm
  <2>2. ~IsClosed(t) /\ tr[t].kind # "none" /\ tr[t].target # "held"
    BY <2>1 DEF Inv, IsClosed, TransferForm, TargetForm
  <2> QED
    BY <2>1, <2>2
<1>5. alloc' \in [Transfers -> AllocRec] /\ used' \in Nat /\ AllocForm' /\ Quota'
  BY <1>3, StoreSame DEF Inv, store
<1>6. CASE UNCHANGED <<maps, tr>> /\ \E pc \in {"idle", "reject"}, c \in {None, ch} :
                Goto(pc, None, c, {t}) /\ (pc = "reject" => c = ch)
  <2>1. PICK pc \in {"idle", "reject"}, c \in {None, ch} :
               Goto(pc, None, c, {t}) /\ (pc = "reject" => c = ch)
    BY <1>6
  <2>2. {t} \in SUBSET (Transfers \cup {None})
    BY <1>4
  <2>3. /\ main' \in MainRec /\ main'.pc = pc /\ main'.ch = c /\ main'.closing = {t}
    <3>1. /\ main' \in MainRec /\ main'.pc = pc /\ main'.ch = c
          /\ main'.closing = {x \in {t} \ {None} : ~IsClosed(x)}
      <4>1. /\ pc \in {"idle", "open", "reject", "begin", "download", "cancel", "wait", "closed"}
            /\ Shape /\ None \in Transfers \cup {None} /\ c \in Channels \cup {None}
        BY <1>4 DEF Inv
      <4> QED
        BY <2>1, <2>2, <4>1, GotoForm
    <3> QED
      BY <1>4, <3>1, FileBridgeAssumption
  <2>4. tr' = tr /\ uploads' = uploads /\ downloads' = downloads
    BY <1>6 DEF maps
  <2>5. Shape' /\ TransferForm' /\ Sized' /\ TargetForm' /\ MapForm'
    BY <1>3, <1>5, <2>3, <2>4 DEF Inv, Shape, TransferForm, Sized, TargetForm, MapForm
  <2>6. MainForm' /\ Ending'
    BY <1>3, <1>4, <2>1, <2>3 DEF MainForm, Ending
  <2>7. Found'
    <3>1. \A q \in Transfers : Registered(q)' <=> Registered(q)
      BY <2>4 DEF Registered
    <3> QED
      BY <1>3, <1>1, <1>2, <2>3, <2>4, <3>1 DEF Inv, Found
  <2> QED
    BY <1>5, <2>5, <2>6, <2>7 DEF Inv
<1>7. ASSUME NEW pc \in {"idle", "begin"}, NEW x \in {t, None}, NEW c \in {ch, None},
             Goto(pc, x, c, {}), pc = "begin" => c = ch,
             \/ /\ tr[t].kind = "upload" /\ tr' = tr
                /\ uploads' = [uploads EXCEPT ![ch] = t] /\ uploads[ch] = None /\ downloads' = downloads
             \/ /\ tr[t].kind = "download" /\ tr' = [tr EXCEPT ![t].g = "open"]
                /\ downloads' = [downloads EXCEPT ![ch] = t] /\ downloads[ch] = None /\ uploads' = uploads
      PROVE  Inv'
  <2>1. main' \in MainRec /\ main'.pc = pc /\ main'.ch = c /\ main'.closing = {}
    <3>1. /\ pc \in {"idle", "open", "reject", "begin", "download", "cancel", "wait", "closed"}
          /\ x \in Transfers \cup {None} /\ c \in Channels \cup {None} /\ Shape
          /\ {} \in SUBSET (Transfers \cup {None})
      BY <1>4 DEF Inv
    <3>2. /\ main' \in MainRec /\ main'.pc = pc /\ main'.ch = c
          /\ main'.closing = {q \in {} \ {None} : ~IsClosed(q)}
      BY <1>7, <3>1, GotoForm
    <3> QED
      BY <3>2
  <2>2. /\ tr' \in [Transfers -> Transfer] /\ \A q \in Transfers \ {t} : tr'[q] = tr[q]
        /\ tr'[t].kind = tr[t].kind /\ tr'[t].chan = ch /\ tr'[t].g \in {"none", "open"}
        /\ tr'[t].closed = tr[t].closed /\ tr'[t].target = tr[t].target /\ tr'[t].snd = "none"
        /\ tr'[t].got = tr[t].got /\ tr'[t].want = tr[t].want
    BY <1>3, <1>4, <1>7 DEF Transfer
  <2>3. /\ uploads' \in [Channels -> Transfers \cup {None}] /\ downloads' \in [Channels -> Transfers \cup {None}]
        /\ \A d \in Channels : /\ uploads'[d] = uploads[d]
                                  \/ (uploads'[d] = t /\ d = ch /\ uploads[d] = None /\ tr[t].kind = "upload")
                               /\ downloads'[d] = downloads[d]
                                  \/ (downloads'[d] = t /\ d = ch /\ downloads[d] = None /\ tr[t].kind = "download")
        /\ uploads'[ch] = t \/ downloads'[ch] = t
    BY <1>3, <1>4, <1>7
  <2>4. Shape'
    BY <1>5, <2>1, <2>2, <2>3 DEF Shape
  <2>5. TransferForm'
    BY <1>3, <1>4, <2>2 DEF Inv, TransferForm
  <2>6. Sized'
    BY <1>3, <1>4, <2>2 DEF Inv, Sized
  <2>7. TargetForm'
    BY <1>4, <2>2 DEF Inv, TargetForm
  <2>8. MapForm'
    BY <1>3, <1>4, <2>2, <2>3 DEF Inv, MapForm, Registered
  <2>9. MainForm' /\ Ending'
    BY <1>4, <1>7, <2>1 DEF MainForm, Ending
  <2>10. Found'
    <3>1. \A q \in Transfers : Registered(q) => Registered(q)'
      BY <2>3, FileBridgeAssumption DEF Registered
    <3>2. Registered(t)'
      <4>1. ch \in Channels /\ (uploads'[ch] = t \/ downloads'[ch] = t)
        BY <1>4, <2>3
      <4> QED
        BY <4>1 DEF Registered
    <3>3. \A q \in Transfers \ {t} : alloc[q].st \in {"held", "released"} =>
            Registered(q) \/ tr[q].g = "close" \/ tr[q].snd = "close"
      BY <1>1, <1>2 DEF Inv, Found
    <3> QED
      BY <1>3, <2>2, <3>1, <3>2, <3>3 DEF Found
  <2> QED
    BY <1>5, <2>4, <2>5, <2>6, <2>7, <2>8, <2>9, <2>10 DEF Inv
<1>8. CASE RegisterUpload
  <2>1. CASE uploads[ch] # None
    <3>1. Goto("reject", None, ch, {t}) /\ UNCHANGED <<maps, tr>>
      BY <1>2, <1>8, <2>1 DEF RegisterUpload, maps
    <3> QED
      BY <1>6, <3>1
  <2>2. CASE uploads[ch] = None
    <3>1. /\ Goto("begin", t, ch, {}) /\ tr[t].kind = "upload" /\ tr' = tr
          /\ uploads' = [uploads EXCEPT ![ch] = t] /\ downloads' = downloads
      BY <1>2, <1>8, <2>2 DEF RegisterUpload
    <3> QED
      BY <1>7, <2>2, <3>1
  <2> QED
    BY <2>1, <2>2
<1>9. CASE RegisterDownload
  <2>1. CASE downloads[ch] # None \/ uploads[ch] # None
    <3>1. Goto("idle", None, None, {t}) /\ UNCHANGED <<maps, tr>>
      BY <1>2, <1>9, <2>1 DEF RegisterDownload, maps, Return
    <3> QED
      BY <1>6, <3>1
  <2>2. CASE downloads[ch] = None /\ uploads[ch] = None
    <3>1. /\ Goto("idle", None, None, {}) /\ tr[t].kind = "download" /\ tr' = [tr EXCEPT ![t].g = "open"]
          /\ downloads' = [downloads EXCEPT ![ch] = t] /\ uploads' = uploads
      BY <1>2, <1>9, <2>2 DEF RegisterDownload, Return
    <3> QED
      BY <1>7, <2>2, <3>1
  <2> QED
    BY <2>1, <2>2
<1> QED
  BY <1>8, <1>9

-----------------------------------------------------------------------------
(* The goroutines of a transfer *)

\* close marks a transfer closed, closes its target and leaves its goroutines.
LEMMA ShutForm ==
  ASSUME NEW r \in Transfer
  PROVE  /\ Shut(r) \in Transfer /\ Shut(r).closed
         /\ Shut(r).kind = r.kind /\ Shut(r).chan = r.chan /\ Shut(r).want = r.want /\ Shut(r).got = r.got
         /\ Shut(r).g = r.g /\ Shut(r).snd = r.snd /\ Shut(r).dog = r.dog
         /\ Shut(r).target = "held" => r.target = "held"
         /\ Shut(r).target = "attached" => r.closed /\ r.target = "attached"
<1>1. CASE r.closed
  BY <1>1 DEF Shut
<1>2. CASE ~r.closed
  BY <1>2 DEF Shut, Transfer
<1> QED
  BY <1>1, <1>2

\* A transfer that anything runs for exists, and is not the one being opened.
LEMMA Runs ==
  ASSUME Inv, NEW t \in Transfers,
         \/ tr[t].g # "none" \/ tr[t].snd # "none" \/ tr[t].dog \/ tr[t].closed \/ t \in main.closing
  PROVE  tr[t].kind # "none" /\ (main.pc = "open" => t # main.t)
<1>1. tr[t].kind # "none"
  <2>1. t \in main.closing => alloc[t].st # "none"
    BY DEF Inv, MainForm
  <2> QED
    BY <2>1, Nothing DEF Inv, TransferForm
<1>2. main.pc = "open" => t # main.t
  BY DEF Inv, MainForm
<1> QED
  BY <1>1, <1>2

\* One record is replaced.
LEMMA Replaced ==
  ASSUME Inv, NEW t \in Transfers, NEW n \in Transfer, tr' = [tr EXCEPT ![t] = n],
         n.kind = tr[t].kind, n.chan = tr[t].chan, n.got <= n.want, tr[t].closed => n.closed,
         n.g \in {"stat", "announce"} => tr[t].kind = "download",
         n.g \in {"none", "open", "attach", "read", "stat"} =>
           tr[t].g \in {"none", "open", "attach", "read", "stat"},
         n.target = "held" => n.g = "attach",
         n.target = "attached" => ~n.closed /\ (n.g = "read" => n.dog),
         tr[t].g = "close" /\ n.g # "close" => IsClosed(t),
         tr[t].snd = "close" /\ n.snd # "close" => IsClosed(t),
         main.pc = "closed" => n.g \in {"none", "done"} /\ n.snd \in {"none", "done"}
  PROVE  Goes(t) /\ tr'[t] = n
<1>1. tr \in [Transfers -> Transfer]
  BY DEF Inv, Shape
<1>2. tr' \in [Transfers -> Transfer] /\ tr'[t] = n /\ \A q \in Transfers \ {t} : tr'[q] = tr[q]
  BY <1>1
<1> QED
  BY <1>2 DEF Goes

\* What the invariant says of one transfer.
LEMMA Known ==
  ASSUME Inv, NEW t \in Transfers
  PROVE  /\ tr[t] \in Transfer /\ tr[t].got <= tr[t].want
         /\ tr[t].g \in {"stat", "announce"} => tr[t].kind = "download"
         /\ tr[t].target = "held" => tr[t].g = "attach"
         /\ tr[t].target = "attached" => ~tr[t].closed /\ (tr[t].g = "read" => tr[t].dog)
         /\ main.pc = "closed" => tr[t].g \in {"none", "done"} /\ tr[t].snd \in {"none", "done"}
         /\ main \in MainRec
BY DEF Inv, Shape, TransferForm, Sized, TargetForm, Ending

\* A transfer is closed by whoever was going to, by its watchdog or by the guard on
\* the size of its file; its timeout passes.
LEMMA ClosingKeeps ==
  ASSUME Inv, NEW t \in Transfers, CloseTransfer(t) \/ DogFires(t) \/ GuardAborts(t) \/ Expires(t)
  PROVE  Inv'
<1> DEFINE r == tr[t]
<1>0. /\ r \in Transfer /\ r.got <= r.want /\ (r.g \in {"stat", "announce"} => r.kind = "download")
      /\ (r.target = "held" => r.g = "attach")
      /\ (r.target = "attached" => ~r.closed /\ (r.g = "read" => r.dog))
      /\ (main.pc = "closed" => r.g \in {"none", "done"} /\ r.snd \in {"none", "done"})
      /\ main \in MainRec
  BY Known
<1>1. main' = main /\ UNCHANGED <<store, maps>>
  BY DEF CloseTransfer, DogFires, GuardAborts, Expires
<1>2. r.kind # "none" /\ (main.pc = "open" => t # main.t)
  BY Runs DEF CloseTransfer, DogFires, GuardAborts, Expires
<1>3. CASE CloseTransfer(t) \/ GuardAborts(t)
  <2>1. tr' = [tr EXCEPT ![t] = Shut(r)]
    BY <1>3 DEF CloseTransfer, GuardAborts
  <2> HIDE DEF r
  <2>2. Goes(t)
    BY <1>0, <2>1, ShutForm, Replaced DEF r
  <2> QED
    BY <1>0, <1>1, <1>2, <2>2, OneTransfer DEF r
<1>4. CASE DogFires(t)
  <2> DEFINE n == [Shut(r) EXCEPT !.dog = FALSE]
  <2>1. tr' = [tr EXCEPT ![t] = n]
    BY <1>4 DEF DogFires
  <2>2. \A s \in Transfer : LET m == [s EXCEPT !.dog = FALSE] IN
          /\ m \in Transfer /\ m.kind = s.kind /\ m.chan = s.chan /\ m.got = s.got /\ m.want = s.want
          /\ m.closed = s.closed /\ m.g = s.g /\ m.snd = s.snd /\ m.target = s.target
    BY DEF Transfer
  <2>3. /\ n \in Transfer /\ n.kind = r.kind /\ n.chan = r.chan /\ n.got = r.got /\ n.want = r.want
        /\ n.closed /\ n.g = r.g /\ n.snd = r.snd
        /\ n.target = "held" => r.target = "held"
        /\ n.target = "attached" => r.closed /\ r.target = "attached"
    BY <1>0, <2>2, ShutForm
  <2> HIDE DEF n
  <2>4. Goes(t)
    BY <1>0, <2>1, <2>3, Replaced
  <2> QED
    BY <1>0, <1>1, <1>2, <2>4, OneTransfer
<1>5. CASE Expires(t)
  <2> DEFINE n == [r EXCEPT !.expired = TRUE]
  <2>1. tr' = [tr EXCEPT ![t] = n]
    BY <1>5 DEF Expires
  <2>2. /\ n \in Transfer /\ n.kind = r.kind /\ n.chan = r.chan /\ n.got = r.got /\ n.want = r.want
        /\ n.closed = r.closed /\ n.g = r.g /\ n.snd = r.snd /\ n.target = r.target /\ n.dog = r.dog
    BY <1>0 DEF Transfer
  <2> HIDE DEF n
  <2>3. Goes(t)
    BY <1>0, <2>1, <2>2, Replaced
  <2> QED
    BY <1>0, <1>1, <1>2, <2>3, OneTransfer
<1> QED
  BY <1>3, <1>4, <1>5

\* A frame moves the transfer of its channel on.
LEMMA FrameKeeps ==
  ASSUME Inv, NEW ch \in Channels, Data(ch) \/ Finish(ch) \/ RecvBegin(ch)
  PROVE  Inv'
<1>1. PICK t \in Transfers :
        /\ uploads[ch] = t \/ downloads[ch] = t
        /\ \/ tr[t].g = "none" /\ tr[t].got < tr[t].want /\ tr' = [tr EXCEPT ![t].got = @ + 1]
           \/ tr[t].g = "none" /\ tr' = [tr EXCEPT ![t].g = "open"]
           \/ tr[t].snd = "none" /\ tr' = [tr EXCEPT ![t].snd = "open"]
  <2>1. CASE Data(ch)
    BY <2>1, Entries DEF Data, Receiving
  <2>2. CASE Finish(ch)
    BY <2>2, Entries DEF Finish, Receiving
  <2>3. CASE RecvBegin(ch)
    BY <2>3, Entries DEF RecvBegin
  <2> QED
    BY <2>1, <2>2, <2>3
<1> DEFINE r == tr[t]
<1>2. /\ r \in Transfer /\ r.got <= r.want /\ (r.g \in {"stat", "announce"} => r.kind = "download")
      /\ (r.target = "held" => r.g = "attach")
      /\ (r.target = "attached" => ~r.closed /\ (r.g = "read" => r.dog))
  BY Known
<1>3. /\ main.pc = "idle" /\ main.closing = {} /\ UNCHANGED <<store, maps>>
      /\ Goto("idle", None, None, {})
  BY DEF Data, Finish, RecvBegin, At, Return
<1>4. main' \in MainRec /\ main'.pc = main.pc /\ main'.closing = main.closing
  <2>1. /\ Shape /\ None \in Transfers \cup {None} /\ None \in Channels \cup {None}
        /\ {} \in SUBSET (Transfers \cup {None})
    BY DEF Inv
  <2>2. main' \in MainRec /\ main'.pc = "idle" /\ main'.closing = {q \in {} \ {None} : ~IsClosed(q)}
    BY <1>3, <2>1, GotoForm
  <2> QED
    BY <1>3, <2>2
<1>5. r.kind # "none"
  BY <1>1, FileBridgeAssumption DEF Inv, MapForm
<1>6. PICK n \in Transfer :
        /\ tr' = [tr EXCEPT ![t] = n] /\ n.kind = r.kind /\ n.chan = r.chan /\ n.got <= n.want
        /\ n.closed = r.closed /\ n.target = r.target /\ n.dog = r.dog
        /\ n.g = r.g \/ (r.g = "none" /\ n.g = "open")
        /\ n.snd = r.snd \/ (r.snd = "none" /\ n.snd = "open")
  <2>1. CASE r.g = "none" /\ r.got < r.want /\ tr' = [tr EXCEPT ![t].got = @ + 1]
    <3> DEFINE n == [r EXCEPT !.got = @ + 1]
    <3>1. r.got + 1 \in 0..MaxFileBytes /\ r.got + 1 <= r.want
      BY <1>2, <2>1, FileBridgeAssumption DEF Transfer
    <3>2. /\ n \in Transfer /\ n.kind = r.kind /\ n.chan = r.chan /\ n.got <= n.want
          /\ n.closed = r.closed /\ n.target = r.target /\ n.dog = r.dog /\ n.g = r.g /\ n.snd = r.snd
      BY <1>2, <3>1 DEF Transfer
    <3>3. tr' = [tr EXCEPT ![t] = n]
      BY <2>1
    <3> QED
      BY <3>2, <3>3
  <2>2. CASE r.g = "none" /\ tr' = [tr EXCEPT ![t].g = "open"]
    <3> DEFINE n == [r EXCEPT !.g = "open"]
    <3>1. /\ n \in Transfer /\ n.kind = r.kind /\ n.chan = r.chan /\ n.got <= n.want
          /\ n.closed = r.closed /\ n.target = r.target /\ n.dog = r.dog /\ n.g = "open" /\ n.snd = r.snd
      BY <1>2 DEF Transfer
    <3>2. tr' = [tr EXCEPT ![t] = n]
      BY <2>2
    <3> QED
      BY <2>2, <3>1, <3>2
  <2>3. CASE r.snd = "none" /\ tr' = [tr EXCEPT ![t].snd = "open"]
    <3> DEFINE n == [r EXCEPT !.snd = "open"]
    <3>1. /\ n \in Transfer /\ n.kind = r.kind /\ n.chan = r.chan /\ n.got <= n.want
          /\ n.closed = r.closed /\ n.target = r.target /\ n.dog = r.dog /\ n.g = r.g /\ n.snd = "open"
      BY <1>2 DEF Transfer
    <3>2. tr' = [tr EXCEPT ![t] = n]
      BY <2>3
    <3> QED
      BY <2>3, <3>1, <3>2
  <2> QED
    BY <1>1, <2>1, <2>2, <2>3
<1>7. Goes(t)
  BY <1>2, <1>3, <1>6, Replaced
<1> QED
  BY <1>3, <1>4, <1>5, <1>7, OneTransfer

\* A goroutine returns.
LEMMA Returned ==
  ASSUME NEW t \in Transfers, tr[t] \in Transfer, GReturns(t)
  PROVE  \E n \in Transfer :
           /\ tr' = [tr EXCEPT ![t] = n] /\ n.kind = tr[t].kind /\ n.chan = tr[t].chan
           /\ n.got = tr[t].got /\ n.want = tr[t].want /\ n.closed = tr[t].closed
           /\ n.target = tr[t].target /\ n.snd = tr[t].snd /\ n.g = "done"
<1> DEFINE r == tr[t]
<1>1. PICK d \in BOOLEAN : tr' = [tr EXCEPT ![t] = [r EXCEPT !.g = "done", !.dog = d, !.expired = FALSE]]
  BY DEF GReturns
<1> DEFINE n == [r EXCEPT !.g = "done", !.dog = d, !.expired = FALSE]
<1>2. /\ n \in Transfer /\ n.kind = r.kind /\ n.chan = r.chan /\ n.got = r.got /\ n.want = r.want
      /\ n.closed = r.closed /\ n.target = r.target /\ n.snd = r.snd /\ n.g = "done"
  BY DEF Transfer
<1> QED
  BY <1>1, <1>2

\* The goroutine towards the device goes on, or ends without being in charge of the
\* close, or when the close is done.
LEMMA DeviceKeeps ==
  ASSUME Inv, NEW t \in Transfers,
         OpenTarget(t) \/ AttachTarget(t) \/ ReadEnds(t) \/ Announce(t) \/ GFinishes(t) \/ GClosed(t)
  PROVE  Inv'
<1> DEFINE r == tr[t]
<1>0. /\ r \in Transfer /\ r.got <= r.want /\ (r.g \in {"stat", "announce"} => r.kind = "download")
      /\ (r.target = "held" => r.g = "attach")
      /\ (r.target = "attached" => ~r.closed /\ (r.g = "read" => r.dog))
      /\ (main.pc = "closed" => r.g \in {"none", "done"} /\ r.snd \in {"none", "done"})
      /\ main \in MainRec
  BY Known
<1>1. /\ main' = main /\ UNCHANGED store /\ r.g \notin {"none", "done"}
      /\ UNCHANGED maps \/ RemoveIfCurrent(t)
  BY DEF OpenTarget, AttachTarget, ReadEnds, Announce, GFinishes, GClosed
<1>2. r.kind # "none" /\ (main.pc = "open" => t # main.t)
  BY <1>1, Runs
<1>3. ASSUME NEW n \in Transfer, tr' = [tr EXCEPT ![t] = n],
             n.kind = r.kind, n.chan = r.chan, n.got = r.got, n.want = r.want,
             n.closed = r.closed, n.snd = r.snd,
             \/ r.g = "open" /\ n.g = "attach"
             \/ r.g = "attach" /\ n.g \in {"read", "done"}
             \/ r.g = "read" /\ n.g = "stat" /\ r.kind = "download"
             \/ r.g \in {"open", "read", "stat", "announce"} /\ n.g \in {"close", "done"}
             \/ r.g = "close" /\ n.g = "done" /\ IsClosed(t),
             n.target = "held" => n.g = "attach",
             n.target = "attached" => ~n.closed /\ (n.g = "read" => n.dog),
             UNCHANGED maps \/ (Registered(t) => n.g = "close")
      PROVE  Inv'
  <2>1. Goes(t) /\ tr'[t] = n
    BY <1>0, <1>1, <1>3, Replaced
  <2>2. \/ UNCHANGED maps
        \/ RemoveIfCurrent(t) /\ (Registered(t) => tr'[t].g = "close" \/ tr'[t].snd = "close")
    BY <1>1, <1>3, <2>1
  <2> QED
    BY <1>0, <1>1, <1>2, <2>1, <2>2, OneTransfer
<1>4. CASE OpenTarget(t)
  <2> DEFINE n == [r EXCEPT !.g = "attach", !.target = "held"]
  <2>1. tr' = [tr EXCEPT ![t] = n] /\ r.g = "open" /\ UNCHANGED maps
    BY <1>4 DEF OpenTarget
  <2>2. /\ n \in Transfer /\ n.kind = r.kind /\ n.chan = r.chan /\ n.got = r.got /\ n.want = r.want
        /\ n.closed = r.closed /\ n.snd = r.snd /\ n.g = "attach" /\ n.target = "held"
    BY <1>0 DEF Transfer
  <2> HIDE DEF n
  <2> QED
    BY <1>3, <2>1, <2>2
<1>5. CASE AttachTarget(t)
  <2>1. CASE r.closed
    <3> DEFINE n == [r EXCEPT !.g = "done", !.target = "none", !.expired = FALSE]
    <3>1. tr' = [tr EXCEPT ![t] = n] /\ r.g = "attach" /\ UNCHANGED maps
      BY <1>5, <2>1 DEF AttachTarget
    <3>2. /\ n \in Transfer /\ n.kind = r.kind /\ n.chan = r.chan /\ n.got = r.got /\ n.want = r.want
          /\ n.closed = r.closed /\ n.snd = r.snd /\ n.g = "done" /\ n.target = "none"
      BY <1>0 DEF Transfer
    <3> HIDE DEF n
    <3> QED
      BY <1>3, <3>1, <3>2
  <2>2. CASE ~r.closed
    <3> DEFINE n == [r EXCEPT !.g = "read", !.target = "attached", !.dog = TRUE]
    <3>1. tr' = [tr EXCEPT ![t] = n] /\ r.g = "attach" /\ UNCHANGED maps
      BY <1>5, <2>2 DEF AttachTarget
    <3>2. /\ n \in Transfer /\ n.kind = r.kind /\ n.chan = r.chan /\ n.got = r.got /\ n.want = r.want
          /\ n.closed = r.closed /\ n.snd = r.snd /\ n.g = "read" /\ n.target = "attached" /\ n.dog
      BY <1>0 DEF Transfer
    <3> HIDE DEF n
    <3> QED
      BY <1>3, <2>2, <3>1, <3>2
  <2> QED
    BY <2>1, <2>2
<1>6. CASE ReadEnds(t)
  <2> DEFINE n == [r EXCEPT !.g = "stat", !.target = "none"]
  <2>1. tr' = [tr EXCEPT ![t] = n] /\ r.g = "read" /\ r.kind = "download" /\ UNCHANGED maps
    BY <1>6 DEF ReadEnds
  <2>2. /\ n \in Transfer /\ n.kind = r.kind /\ n.chan = r.chan /\ n.got = r.got /\ n.want = r.want
        /\ n.closed = r.closed /\ n.snd = r.snd /\ n.g = "stat" /\ n.target = "none"
    BY <1>0 DEF Transfer
  <2> HIDE DEF n
  <2> QED
    BY <1>3, <2>1, <2>2
<1>7. ASSUME GReturns(t), UNCHANGED maps \/ ~Registered(t),
             r.g \in {"open", "read", "stat", "announce"} \/ (r.g = "close" /\ IsClosed(t))
      PROVE  Inv'
  <2>1. PICK n \in Transfer :
           /\ tr' = [tr EXCEPT ![t] = n] /\ n.kind = r.kind /\ n.chan = r.chan
           /\ n.got = r.got /\ n.want = r.want /\ n.closed = r.closed
           /\ n.target = r.target /\ n.snd = r.snd /\ n.g = "done"
    BY <1>0, <1>7, Returned
  <2> QED
    BY <1>0, <1>3, <1>7, <2>1
<1>8. CASE Announce(t) \/ GClosed(t)
  BY <1>7, <1>8 DEF Announce, GClosed
<1>9. CASE GFinishes(t)
  <2>1. CASE Registered(t)
    <3> DEFINE n == [r EXCEPT !.g = "close"]
    <3>1. tr' = [tr EXCEPT ![t] = n] /\ r.g \in {"open", "read", "stat", "announce"}
      BY <1>9, <2>1 DEF GFinishes
    <3>2. /\ n \in Transfer /\ n.kind = r.kind /\ n.chan = r.chan /\ n.got = r.got /\ n.want = r.want
          /\ n.closed = r.closed /\ n.snd = r.snd /\ n.g = "close" /\ n.target = r.target
      BY <1>0 DEF Transfer
    <3> HIDE DEF n
    <3> QED
      BY <1>0, <1>3, <3>1, <3>2
  <2>2. CASE ~Registered(t)
    BY <1>7, <1>9, <2>2 DEF GFinishes
  <2> QED
    BY <2>1, <2>2
<1> QED
  BY <1>4, <1>5, <1>6, <1>8, <1>9

\* The goroutine that replays a download likewise.
LEMMA ReplayKeeps == ASSUME Inv, NEW t \in Transfers, SndGoesOn(t) PROVE Inv'
<1> DEFINE r == tr[t]
<1>0. /\ r \in Transfer /\ r.got <= r.want /\ (r.g \in {"stat", "announce"} => r.kind = "download")
      /\ (r.target = "held" => r.g = "attach")
      /\ (r.target = "attached" => ~r.closed /\ (r.g = "read" => r.dog))
      /\ (main.pc = "closed" => r.g \in {"none", "done"} /\ r.snd \in {"none", "done"})
      /\ main \in MainRec
  BY Known
<1>1. PICK to \in {"send", "done", "close"} :
        /\ tr' = [tr EXCEPT ![t].snd = to] /\ main' = main /\ UNCHANGED store
        /\ r.snd \in {"open", "send"} \/ (r.snd = "close" /\ IsClosed(t))
        /\ UNCHANGED maps \/ (RemoveIfCurrent(t) /\ (Registered(t) => to = "close"))
  <2>1. CASE SndOpens(t)
    BY <2>1 DEF SndOpens, SndStep
  <2>2. CASE SndEnds(t)
    BY <2>2 DEF SndEnds, SndStep
  <2>3. CASE SndFinishes(t)
    BY <2>3 DEF SndFinishes, SndStep
  <2>4. CASE SndClosed(t)
    BY <2>4 DEF SndClosed, SndStep
  <2> QED
    BY <2>1, <2>2, <2>3, <2>4 DEF SndGoesOn
<1>2. r.kind # "none" /\ (main.pc = "open" => t # main.t) /\ main.pc # "closed"
  BY <1>0, <1>1, Runs
<1> DEFINE n == [r EXCEPT !.snd = to]
<1>3. tr' = [tr EXCEPT ![t] = n]
  BY <1>1
<1>4. /\ n \in Transfer /\ n.kind = r.kind /\ n.chan = r.chan /\ n.got = r.got /\ n.want = r.want
      /\ n.closed = r.closed /\ n.snd = to /\ n.g = r.g /\ n.target = r.target /\ n.dog = r.dog
  BY <1>0 DEF Transfer
<1> HIDE DEF n
<1>5. Goes(t) /\ tr'[t] = n
  <2>1. r.snd = "close" => IsClosed(t)
    BY <1>1
  <2> QED
    <3>1. /\ n.got <= n.want /\ (r.closed => n.closed)
          /\ n.g \in {"stat", "announce"} => r.kind = "download"
          /\ n.target = "held" => n.g = "attach"
          /\ n.target = "attached" => ~n.closed /\ (n.g = "read" => n.dog)
          /\ r.g = "close" /\ n.g # "close" => IsClosed(t)
          /\ r.snd = "close" /\ n.snd # "close" => IsClosed(t)
      BY <1>0, <1>4, <2>1
    <3>2. n.g = r.g /\ n.kind = r.kind /\ n.chan = r.chan /\ n \in Transfer
      BY <1>4
    <3> QED
      BY <1>2, <1>3, <3>1, <3>2, Replaced
<1>6. \/ UNCHANGED maps
      \/ RemoveIfCurrent(t) /\ (Registered(t) => tr'[t].g = "close" \/ tr'[t].snd = "close")
  BY <1>1, <1>4, <1>5
<1> QED
  BY <1>0, <1>1, <1>2, <1>5, <1>6, OneTransfer

-----------------------------------------------------------------------------
(* The quota comes back *)

\* close takes the share out of the allocation.
LEMMA TakesKeeps == ASSUME Inv, NEW t \in Transfers, CloseTakes(t) PROVE Inv'
<1> DEFINE rec == [size |-> 0, back |-> alloc[t].size, st |-> "released"]
<1>0. /\ alloc \in [Transfers -> AllocRec] /\ used \in Nat /\ tr \in [Transfers -> Transfer]
      /\ tr' = tr /\ uploads' = uploads /\ downloads' = downloads /\ main' = main /\ used' = used
  BY DEF Inv, Shape, CloseTakes, TakeBack, maps
<1>1. tr[t].closed /\ alloc[t].st = "held" /\ alloc' = [alloc EXCEPT ![t] = rec]
  BY DEF CloseTakes, TakeBack
<1>2. alloc[t].size \in Nat /\ alloc[t].back = 0 /\ used <= MaxBytes
  BY <1>1, WithinUsed DEF Inv, AllocForm, Quota
<1>3. rec \in AllocRec /\ rec.size = 0 /\ rec.back = alloc[t].size /\ rec.st = "released"
  BY <1>2 DEF AllocRec
<1> HIDE DEF rec
<1>4. used' = used - (alloc[t].size + alloc[t].back) + (rec.size + rec.back) /\ used' <= MaxBytes
  BY <1>0, <1>2, <1>3
<1>5. /\ alloc' \in [Transfers -> AllocRec] /\ used' \in Nat /\ AllocForm' /\ Quota'
      /\ alloc'[t] = rec /\ \A q \in Transfers \ {t} : alloc'[q] = alloc[q]
  BY <1>1, <1>3, <1>4, StoreMoves DEF Inv
<1>6. \A q \in Transfers : Registered(q)' <=> Registered(q)
  BY <1>0 DEF Registered
<1>7. Shape' /\ TargetForm' /\ MapForm' /\ Ending'
  BY <1>0, <1>5 DEF Inv, Shape, TargetForm, MapForm, Ending
<1>8. TransferForm' /\ Sized'
  BY <1>0, <1>1, <1>3, <1>5 DEF Inv, TransferForm, Sized
<1>9. MainForm'
  <2>1. main.pc = "open" => main.t \in Transfers \ {t}
    BY <1>1 DEF Inv, MainForm
  <2>2. main.closing \subseteq Transfers
    BY DEF Inv, Shape, MainRec
  <2> QED
    BY <1>0, <1>3, <1>5, <1>6, <2>1, <2>2 DEF Inv, MainForm
<1>10. Found'
  BY <1>0, <1>1, <1>5, <1>6 DEF Inv, Found
<1> QED
  BY <1>5, <1>7, <1>8, <1>9, <1>10 DEF Inv

\* ... and gives it back to the store; those who wait for the close go on.
LEMMA GivesKeeps == ASSUME Inv, NEW t \in Transfers, CloseGives(t) PROVE Inv'
<1> DEFINE rec == [alloc[t] EXCEPT !.back = 0, !.st = "returned"]
<1>0. /\ alloc \in [Transfers -> AllocRec] /\ used \in Nat /\ tr \in [Transfers -> Transfer]
      /\ tr' = tr /\ uploads' = uploads /\ downloads' = downloads /\ main \in MainRec
  BY DEF Inv, Shape, CloseGives, maps
<1>1. /\ alloc[t].st = "released" /\ alloc' = [alloc EXCEPT ![t] = rec] /\ used' = Less(alloc[t].back)
      /\ main' = [main EXCEPT !.closing = @ \ {t}]
  BY DEF CloseGives, GiveBack
<1>2. alloc[t].back \in Nat /\ alloc[t].size = 0 /\ alloc[t].back <= used /\ used <= MaxBytes
  BY <1>0, <1>1, WithinUsed DEF Inv, AllocForm, Quota
<1>3. rec \in AllocRec /\ rec.size = 0 /\ rec.back = 0 /\ rec.st = "returned"
  BY <1>0, <1>2 DEF AllocRec
<1> HIDE DEF rec
<1>4. used' = used - (alloc[t].size + alloc[t].back) + (rec.size + rec.back) /\ used' <= MaxBytes
  BY <1>0, <1>1, <1>2, <1>3, TempStoreAssumption DEF Less
<1>5. /\ alloc' \in [Transfers -> AllocRec] /\ used' \in Nat /\ AllocForm' /\ Quota'
      /\ alloc'[t] = rec /\ \A q \in Transfers \ {t} : alloc'[q] = alloc[q]
  BY <1>1, <1>3, <1>4, StoreMoves DEF Inv
<1>6. \A q \in Transfers : Registered(q)' <=> Registered(q)
  BY <1>0 DEF Registered
<1>7. /\ main' \in MainRec /\ main'.pc = main.pc /\ main'.t = main.t /\ main'.ch = main.ch
      /\ main'.closing = main.closing \ {t}
  BY <1>0, <1>1 DEF MainRec
<1>8. Shape' /\ TargetForm' /\ MapForm' /\ Ending'
  BY <1>0, <1>5, <1>7 DEF Inv, Shape, TargetForm, MapForm, Ending
<1>9. tr[t].closed
  BY <1>1 DEF Inv, TransferForm
<1>10. TransferForm' /\ Sized'
  <2>1. tr[t].kind # "none"
    BY <1>1 DEF Inv, TransferForm
  <2> QED
    BY <1>0, <1>3, <1>5, <1>9, <2>1 DEF Inv, TransferForm, Sized
<1>11. MainForm'
  <2>1. main.pc = "open" => main.t \in Transfers \ {t} /\ main.closing = {}
    BY <1>1 DEF Inv, MainForm
  <2>2. main.closing \subseteq Transfers
    BY <1>0 DEF MainRec
  <2>3. \A q \in main'.closing : alloc'[q].st \in {"held", "released"}
    BY <1>5, <1>7, <2>2 DEF Inv, MainForm
  <2> QED
    BY <1>0, <1>5, <1>6, <1>7, <2>1, <2>3 DEF Inv, MainForm
<1>12. Found'
  BY <1>0, <1>3, <1>5, <1>6, <1>7 DEF Inv, Found
<1> QED
  BY <1>5, <1>8, <1>10, <1>11, <1>12 DEF Inv

\* setSize, within the most that was reserved, unless close has taken the share.
LEMMA SetSizeKeeps ==
  ASSUME Inv, NEW t \in Transfers, NEW n \in 0..MaxFileBytes, SetSize(t, n)
  PROVE  Inv'
<1> DEFINE r == tr[t]
           m == [r EXCEPT !.g = "announce"]
<1>0. /\ r \in Transfer /\ r.got <= r.want /\ (r.g \in {"stat", "announce"} => r.kind = "download")
      /\ (r.target = "held" => r.g = "attach")
      /\ (r.target = "attached" => ~r.closed /\ (r.g = "read" => r.dog))
      /\ (main.pc = "closed" => r.g \in {"none", "done"} /\ r.snd \in {"none", "done"})
      /\ main \in MainRec
  BY Known
<1>1. /\ r.g = "stat" /\ tr' = [tr EXCEPT ![t] = m] /\ UNCHANGED <<maps, main>> /\ Settle(t, n)
  BY DEF SetSize
<1>2. /\ m \in Transfer /\ m.kind = r.kind /\ m.chan = r.chan /\ m.got = r.got /\ m.want = r.want
      /\ m.closed = r.closed /\ m.snd = r.snd /\ m.g = "announce" /\ m.target = r.target /\ m.dog = r.dog
  BY <1>0 DEF Transfer
<1>3. r.kind # "none" /\ (main.pc = "open" => t # main.t)
  BY <1>1, Runs
<1> HIDE DEF m
<1>4. Goes(t) /\ tr'[t] = m
  BY <1>0, <1>1, <1>2, Replaced
<1>5. CASE alloc[t].st # "held"
  <2>1. UNCHANGED store
    BY <1>1, <1>5 DEF Settle, store
  <2> QED
    BY <1>0, <1>1, <1>3, <1>4, <2>1, OneTransfer
<1>6. CASE alloc[t].st = "held"
  <2> DEFINE rec == [alloc[t] EXCEPT !.size = n]
  <2>0. /\ alloc \in [Transfers -> AllocRec] /\ used \in Nat /\ uploads' = uploads /\ downloads' = downloads
    BY <1>1 DEF Inv, Shape, maps
  <2>1. alloc[t].size = MaxFileBytes /\ alloc[t].back = 0
    BY <1>0, <1>1, <1>6 DEF Inv, Sized, AllocForm
  <2>2. n \in Nat /\ ~(n > alloc[t].size) /\ MaxFileBytes \in Nat
    BY <2>1, FileBridgeAssumption
  <2>3. alloc' = [alloc EXCEPT ![t] = rec] /\ used' = Less(alloc[t].size - n)
    BY <1>1, <1>6, <2>2 DEF Settle
  <2>4. rec \in AllocRec /\ rec.size = n /\ rec.back = 0 /\ rec.st = "held"
    BY <1>6, <2>0, <2>1, <2>2 DEF AllocRec
  <2> HIDE DEF rec
  <2>5. used' = used - (alloc[t].size + alloc[t].back) + (rec.size + rec.back) /\ used' <= MaxBytes
    <3>1. alloc[t].size <= used /\ used <= MaxBytes
      BY <2>1, <2>2, WithinUsed DEF Inv, Quota
    <3> QED
      BY <2>0, <2>1, <2>2, <2>3, <2>4, <3>1, TempStoreAssumption DEF Less
  <2>6. /\ alloc' \in [Transfers -> AllocRec] /\ used' \in Nat /\ AllocForm' /\ Quota'
        /\ alloc'[t] = rec /\ \A q \in Transfers \ {t} : alloc'[q] = alloc[q]
    BY <2>3, <2>4, <2>5, StoreMoves DEF Inv
  <2>7. \A q \in Transfers : alloc'[q].st = alloc[q].st
    BY <1>6, <2>4, <2>6
  <2>8. \A q \in Transfers : Registered(q)' <=> Registered(q)
    BY <2>0 DEF Registered
  <2>9. Shape'
    BY <1>1, <1>4, <2>0, <2>6 DEF Inv, Shape, Goes
  <2>10. TransferForm'
    BY <1>3, <1>4, <2>7 DEF Inv, TransferForm, Goes
  <2>11. Sized'
    BY <1>0, <1>1, <1>2, <1>4, <2>6 DEF Inv, Sized, Goes
  <2>12. TargetForm'
    BY <1>4 DEF Inv, TargetForm, Goes
  <2>13. MapForm' /\ Ending'
    <3>1. \A q \in Transfers : tr'[q].kind = tr[q].kind /\ tr'[q].chan = tr[q].chan
      BY <1>4 DEF Goes
    <3>2. MapForm'
      BY <2>0, <3>1 DEF Inv, Shape, MapForm
    <3>3. Ending'
      BY <1>1, <1>4, <2>0 DEF Inv, Ending, Goes
    <3> QED
      BY <3>2, <3>3
  <2>14. MainForm'
    <3>1. main' = main /\ main.closing \subseteq Transfers
      BY <1>0, <1>1 DEF MainRec
    <3>2. main.pc = "open" => main.t \in Transfers \ {t}
      BY <1>3 DEF Inv, MainForm
    <3> QED
      BY <1>4, <2>7, <2>8, <3>1, <3>2 DEF Inv, MainForm, Goes
  <2>15. Found'
    BY <1>1, <1>2, <1>4, <2>7, <2>8 DEF Inv, Found, Goes
  <2> QED
    BY <2>6, <2>9, <2>10, <2>11, <2>12, <2>13, <2>14, <2>15 DEF Inv
<1> QED
  BY <1>5, <1>6

-----------------------------------------------------------------------------
(* The results *)

\* A bridge that has seen no frame satisfies the invariant, and every step keeps it.
LEMMA Invariance == Spec => []Inv
<1>1. Init => Inv
  <2> SUFFICES ASSUME Init PROVE Inv
    OBVIOUS
  <2>1. /\ used = 0 /\ alloc = [t \in Transfers |-> NoAlloc]
        /\ uploads = [ch \in Channels |-> None] /\ downloads = [ch \in Channels |-> None]
        /\ tr = [t \in Transfers |-> NoTransfer]
        /\ main = [pc |-> "idle", t |-> None, ch |-> None, closing |-> {}]
    BY DEF Init
  <2>2. \A t \in Transfers : alloc[t] = NoAlloc /\ tr[t] = NoTransfer
    BY <2>1
  <2>3. Accounted = 0
    BY <2>2, Nothing, NothingAccounted
  <2>4. Shape
    BY <2>1, Nothing DEF Shape, MainRec
  <2>5. AllocForm /\ TransferForm /\ Sized /\ TargetForm
    BY <2>2, Nothing DEF AllocForm, TransferForm, Sized, TargetForm
  <2>6. MapForm /\ MainForm /\ Ending
    BY <2>1 DEF MapForm, MainForm, Ending
  <2>7. Found
    BY <2>2, Nothing DEF Found
  <2>8. Quota
    BY <2>1, <2>3, TempStoreAssumption DEF Quota
  <2> QED
    BY <2>4, <2>5, <2>6, <2>7, <2>8 DEF Inv
<1>2. Inv /\ UNCHANGED vars => Inv'
  <2> SUFFICES ASSUME Inv, UNCHANGED vars PROVE Inv'
    OBVIOUS
  <2>1. UNCHANGED store /\ uploads' = uploads /\ downloads' = downloads /\ tr' = tr /\ main' = main
        /\ alloc' = alloc
    BY DEF vars, maps, store
  <2>2. alloc' \in [Transfers -> AllocRec] /\ used' \in Nat /\ AllocForm' /\ Quota'
    BY <2>1, StoreSame DEF Inv
  <2>3. Shape' /\ TransferForm' /\ Sized' /\ TargetForm' /\ MapForm' /\ Ending'
    BY <2>1, <2>2 DEF Inv, Shape, TransferForm, Sized, TargetForm, MapForm, Ending
  <2>4. MainForm' /\ Found'
    BY <2>1 DEF Inv, MainForm, Found, Registered
  <2> QED
    BY <2>2, <2>3, <2>4 DEF Inv
<1>3. Inv /\ Next => Inv'
  <2> SUFFICES ASSUME Inv, Next PROVE Inv'
    OBVIOUS
  <2>1. CASE MainGoesOn \/ Cancel
    BY <2>1, MainKeeps, OpenFileFailsKeeps, RegisterKeeps DEF MainGoesOn
  <2>2. ASSUME NEW ch \in Channels,
               \/ FrameRejected(ch) \/ Data(ch) \/ Finish(ch) \/ RecvBegin(ch) \/ RecvFinish(ch)
               \/ CloseChannel(ch)
        PROVE  Inv'
    BY <2>2, MainKeeps, FrameKeeps
  <2>3. ASSUME NEW ch \in Channels, NEW t \in Transfers,
               RecvInit(ch, t) \/ \E n \in 0..MaxFileBytes : CheckReserve(ch, t, n)
        PROVE  Inv'
    BY <2>3, RecvInitKeeps, CheckReserveKeeps
  <2>4. ASSUME NEW t \in Transfers, GGoesOn(t) PROVE Inv'
    BY <2>4, DeviceKeeps, SetSizeKeeps DEF GGoesOn
  <2>5. ASSUME NEW t \in Transfers, Closing(t) \/ GuardAborts(t) \/ DogFires(t) \/ Expires(t) PROVE Inv'
    BY <2>5, ClosingKeeps, TakesKeeps, GivesKeeps DEF Closing
  <2> QED
    BY <2>1, <2>2, <2>3, <2>4, <2>5, ReplayKeeps DEF Next
<1> QED
  BY <1>1, <1>2, <1>3, PTL DEF Spec

\* The quota is never overdrawn, and no upload gets more bytes than it has declared.
THEOREM FileTypes == Spec => []TypeOK
<1>1. Inv => TypeOK
  BY TempStoreAssumption DEF Inv, Shape, Quota, TransferForm, TypeOK, MainRec
<1> QED
  BY <1>1, Invariance, PTL

\* Through closes that race with each other and with settle the store accounts for
\* every reserved byte and for no other.
THEOREM FileQuotaExact == Spec => []QuotaExact
<1>1. Inv => QuotaExact
  BY DEF Inv, Quota, QuotaExact
<1> QED
  BY <1>1, Invariance, PTL

\* A transfer that is not closed is known to somebody who is going to close it.
THEOREM FileNoOrphanTransfer == Spec => []NoOrphanTransfer
<1>1. Inv => NoOrphanTransfer
  <2> SUFFICES ASSUME Inv, NEW t \in Transfers, tr[t].kind # "none", ~tr[t].closed
               PROVE  \/ Registered(t) \/ main.t = t \/ t \in main.closing
                      \/ tr[t].g = "close" \/ tr[t].snd = "close"
    BY DEF NoOrphanTransfer
  <2>1. alloc[t].st \in {"none", "held", "released", "returned"}
    BY DEF Inv, Shape, AllocRec
  <2>2. alloc[t].st \in {"held", "released"}
    BY <2>1 DEF Inv, TransferForm
  <2> QED
    BY <2>2 DEF Inv, Found
<1> QED
  BY <1>1, Invariance, PTL

\* An open target has an open transfer, a watchdog while it is read, and somebody
\* about to close it once the bridge closes.
THEOREM FileNoTargetLost == Spec => []NoTargetLost
<1>1. Inv => NoTargetLost
  <2> SUFFICES ASSUME Inv, NEW t \in Transfers
               PROVE  /\ tr[t].target = "held" => tr[t].g = "attach"
                      /\ tr[t].target = "attached" =>
                           /\ ~tr[t].closed
                           /\ tr[t].g = "read" => tr[t].dog
                           /\ main.pc \in {"wait", "closed"} =>
                                t \in main.closing \/ tr[t].g = "close" \/ tr[t].snd = "close"
    BY DEF NoTargetLost
  <2>1. /\ tr[t].target = "held" => tr[t].g = "attach"
        /\ tr[t].target = "attached" => ~tr[t].closed /\ (tr[t].g = "read" => tr[t].dog)
    BY DEF Inv, TargetForm
  <2>2. ASSUME tr[t].target = "attached", main.pc \in {"wait", "closed"}
        PROVE  t \in main.closing \/ tr[t].g = "close" \/ tr[t].snd = "close"
    <3>1. tr[t].kind # "none"
      BY <2>2, Nothing DEF Inv, TransferForm
    <3>2. alloc[t].st \in {"none", "held", "released", "returned"}
      BY DEF Inv, Shape, AllocRec
    <3>3. alloc[t].st \in {"held", "released"}
      BY <2>1, <2>2, <3>1, <3>2 DEF Inv, TransferForm
    <3>4. ~Registered(t)
      BY <2>2, FileBridgeAssumption DEF Inv, Ending, Registered
    <3> QED
      BY <2>2, <3>3, <3>4 DEF Inv, Found
  <2> QED
    BY <2>1, <2>2
<1> QED
  BY <1>1, Invariance, PTL

\* When the bridge has closed, its whole quota is back and no target is open.
THEOREM FileCleanAfterClose == Spec => []CleanAfterClose
<1>1. Inv => CleanAfterClose
  <2> SUFFICES ASSUME Inv, main.pc = "closed"
               PROVE  /\ used = 0
                      /\ \A t \in Transfers :
                           tr[t].target = "none" /\ (tr[t].kind # "none" => tr[t].closed)
    BY DEF CleanAfterClose
  <2>1. \A t \in Transfers :
          /\ ~Registered(t) /\ t \notin main.closing
          /\ tr[t].g \in {"none", "done"} /\ tr[t].snd \in {"none", "done"}
    BY FileBridgeAssumption DEF Inv, Ending, Registered
  <2>2. \A t \in Transfers : alloc[t].st \in {"none", "returned"}
    <3> TAKE t \in Transfers
    <3>1. alloc[t].st \in {"none", "held", "released", "returned"}
      BY DEF Inv, Shape, AllocRec
    <3> QED
      BY <2>1, <3>1 DEF Inv, Found
  <2>3. used = 0
    <3>1. \A t \in Transfers : alloc[t].size = 0 /\ alloc[t].back = 0
      BY <2>2 DEF Inv, AllocForm
    <3> QED
      BY <3>1, NothingAccounted DEF Inv, Quota
  <2>4. \A t \in Transfers : tr[t].kind # "none" => tr[t].closed
    BY <2>2 DEF Inv, TransferForm
  <2>5. ASSUME NEW t \in Transfers PROVE tr[t].target = "none"
    <3>1. tr[t].target \in {"none", "held", "attached"}
      BY DEF Inv, Shape, Transfer
    <3>2. tr[t].kind = "none" => tr[t].target = "none"
      BY Nothing DEF Inv, TransferForm
    <3> QED
      BY <2>1, <2>4, <3>1, <3>2 DEF Inv, TargetForm
  <2> QED
    BY <2>3, <2>4, <2>5
<1> QED
  BY <1>1, Invariance, PTL
=============================================================================
