----------------------------- MODULE TempStore -----------------------------
(***************************************************************************)
(* The temporary store of file and app transfers (internal/bridge/         *)
(* temp_store.go): one quota, of which every transfer reserves its part    *)
(* before it puts anything on disk, and returns it when it closes.  The    *)
(* operators are the locked regions of the store and of an allocation; the *)
(* bridge that extends this module says who takes them, and when.          *)
(***************************************************************************)
EXTENDS Naturals, FiniteSets

CONSTANTS
  Transfers,  \* pool of transfers, each with its tempAllocation
  MaxBytes    \* TempStore.maxBytes

ASSUME TempStoreAssumption == MaxBytes \in Nat \ {0} /\ IsFiniteSet(Transfers)

VARIABLES
  used,   \* TempStore.usedBytes
  alloc   \* per transfer: its share, and how far its close has come

\* size is what the allocation holds; back is what close has taken out of it and
\* has still to give back to the store, once the directory is removed.
AllocRec == [size: Nat, back: Nat, st: {"none", "held", "released", "returned"}]
NoAlloc  == [size |-> 0, back |-> 0, st |-> "none"]

\* allocate and prepareDownload: reserve n bytes, if they are left.
Reserve(t, n) ==
  /\ n <= MaxBytes - used
  /\ used' = used + n
  /\ alloc' = [alloc EXCEPT ![t] = [size |-> n, back |-> 0, st |-> "held"]]

\* TempStore.release never goes below zero.
Less(n) == IF n > used THEN 0 ELSE used - n

\* The directory or the file cannot be created: the reservation is undone.
Unreserve(t) ==
  /\ used' = Less(alloc[t].size)
  /\ alloc' = [alloc EXCEPT ![t] = NoAlloc]

\* Mutant: settle does not ask whether the quota was returned.
Settle_Unchecked(t, n) ==
  /\ used' = IF n > alloc[t].size THEN used + (n - alloc[t].size) ELSE Less(alloc[t].size - n)
  /\ alloc' = [alloc EXCEPT ![t].size = n]

\* settle: adjust the reservation to what is on disk, unless close has taken it.
Settle(t, n) ==
  IF alloc[t].st # "held" THEN UNCHANGED <<used, alloc>>
  ELSE /\ used' = IF n > alloc[t].size THEN used + (n - alloc[t].size) ELSE Less(alloc[t].size - n)
       /\ alloc' = [alloc EXCEPT ![t].size = n]

\* close, first half, under the allocation's lock.
TakeBack(t) ==
  /\ alloc[t].st = "held"
  /\ alloc' = [alloc EXCEPT ![t] = [size |-> 0, back |-> @.size, st |-> "released"]]
  /\ UNCHANGED used

\* close, second half: the directory is removed, then the quota is returned.
GiveBack(t) ==
  /\ alloc[t].st = "released"
  /\ used' = Less(alloc[t].back)
  /\ alloc' = [alloc EXCEPT ![t] = [@ EXCEPT !.back = 0, !.st = "returned"]]

\* The bytes the allocations account for, each by its allocation and its number.
Share(t)  == {t} \X (1 .. alloc[t].size + alloc[t].back)
Accounted == Cardinality(UNION {Share(t) : t \in Transfers})
=============================================================================
