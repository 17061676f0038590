----------------------------- MODULE ChunkLists -----------------------------
(***************************************************************************)
(* The free lists of FCMalloc, seen as sets.                               *)
(*                                                                         *)
(* Every MemoryLinkedListManager is an array of singly linked lists of     *)
(* chunks, one per size class ("index", log2 of the body size).  The       *)
(* program has three families of them:                                     *)
(*   - malloc_   of each LocalMemoryManager,                               *)
(*   - free_[k]  of each LocalMemoryManager, one per core k,               *)
(*   - poolsPerCore_[k] of the CommonMemoryPool.                           *)
(* This module names them and gives the operations on them.  The state is  *)
(* a function ls with ls[l][i] the set of chunks on list i of manager l;   *)
(* the order of a list and its pointers are the subject of the module      *)
(* MemoryLinkedListManager, which refines these operations.                *)
(***************************************************************************)
EXTENDS Integers, FiniteSets

CONSTANTS
  CoreN,     \* number of cores, coreN_
  PoolN,     \* local memory managers per core, poolN_ (FCM_POOL_BUFFER_SIZE)
  Index,     \* the size classes in use, a set of log2 sizes
  None       \* nullptr

ASSUME SizesAssumption ==
  /\ CoreN \in Nat \ {0}
  /\ PoolN \in Nat \ {0}
  /\ Index \subseteq Nat

Core == 0 .. CoreN - 1
Slot == 0 .. PoolN - 1

\* A LocalMemoryManager is managerPools_[poolN_ * core + i]: its core_ is
\* m[1] for ever, its place among the managers of that core is m[2].
Mgr == Core \X Slot

\* The third component of a list manager is the core whose chunks it keeps.
MallocList(m)  == <<"malloc", m, m[1]>>
FreeList(m, k) == <<"free", m, k>>
PoolList(k)    == <<"pool", k, k>>

MallocLists == {MallocList(m) : m \in Mgr}
FreeLists   == {FreeList(m, k) : m \in Mgr, k \in Core}
PoolLists   == {PoolList(k) : k \in Core}

ListId == MallocLists \cup FreeLists \cup PoolLists

Home(l) == l[3]

-----------------------------------------------------------------------------
(* MemoryLinkedListManager's operations, on a set-valued list function ls. *)
(* The definitions named Seeded... here and in FCMalloc are deliberate     *)
(* mistakes, each standing before the definition it can replace: with it   *)
(* in place one of the properties must fail.                               *)

\* Seeded: a non-empty list loses what it had.
SeededPush(ls, l, i, S) == [ls EXCEPT ![l][i] = S]

\* append() of a chain, push() of one chunk.
Push(ls, l, i, S) == [ls EXCEPT ![l][i] = @ \cup S]

\* Seeded: the last chunk is returned without moving the head.
SeededPop(ls, l, i, c) == IF ls[l][i] = {c} THEN ls ELSE [ls EXCEPT ![l][i] = @ \ {c}]

\* pop(): the chunk leaves the list.
Pop(ls, l, i, c) == [ls EXCEPT ![l][i] = @ \ {c}]

\* Seeded: the chunks are pushed without being popped.
SeededMoveChunks(ls, from, to, i, S) == [ls EXCEPT ![to][i] = @ \cup S]

\* Up to n times pop() from one list, each followed by push() on the other.
MoveChunks(ls, from, to, i, S) ==
  [ls EXCEPT ![from][i] = @ \ S, ![to][i] = @ \cup S]

\* Seeded: no temporary, so both lists end as the first one was.
SeededSwap(ls, a, b, i) == [ls EXCEPT ![b][i] = ls[a][i]]

\* Swap(): the two lists of one size class change places.
Swap(ls, a, b, i) == [ls EXCEPT ![a][i] = ls[b][i], ![b][i] = ls[a][i]]

\* Seeded: the source lists keep their heads.
SeededJoin(ls, from, to) ==
  [ls EXCEPT ![to] = [i \in Index |-> ls[to][i] \cup ls[from][i]]]

\* Join(): every list of "from" is appended to its counterpart in "to" and
\* emptied, in every size class.
Join(ls, from, to) ==
  [ls EXCEPT ![to]   = [i \in Index |-> ls[to][i] \cup ls[from][i]],
             ![from] = [i \in Index |-> {}]]

=============================================================================
