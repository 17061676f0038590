-------------------------- MODULE FCMalloc_proofs ---------------------------
(***************************************************************************)
(* For every number of threads, cores, managers, chunks and classes: the   *)
(* managers are used exclusively, so LocalMemoryManager needs no lock.     *)
(*                                                                         *)
(* The argument has two halves.  Control is about who holds which mutex    *)
(* and which manager and never looks at the lists; the facts about the     *)
(* lists (Data) build on it.                                               *)
(***************************************************************************)
EXTENDS FCMalloc, WellFoundedInduction, TLAPS

-----------------------------------------------------------------------------
(* What the list operations of ChunkLists return, list by list, for every  *)
(* number of cores, managers and classes and every set C of chunks.        *)

Lists(C) == [ListId -> [Index -> SUBSET C]]

-----------------------------------------------------------------------------
(* The identities of the lists.                                            *)

LEMMA ListIdType ==
  /\ \A m \in Mgr : m[1] \in Core /\ m[2] \in Slot /\ m = <<m[1], m[2]>>
  /\ \A m \in Mgr : MallocList(m) \in ListId /\ Home(MallocList(m)) = m[1]
  /\ \A m \in Mgr, k \in Core : FreeList(m, k) \in ListId /\ Home(FreeList(m, k)) = k
  /\ \A k \in Core : PoolList(k) \in ListId /\ Home(PoolList(k)) = k
BY DEF Mgr, ListId, MallocLists, FreeLists, PoolLists, MallocList, FreeList, PoolList, Home

\* Different owners, different lists.
LEMMA ListIdDistinct ==
  /\ \A m, n \in Mgr : MallocList(m) = MallocList(n) => m = n
  /\ \A m, n \in Mgr, j, k \in Core : FreeList(m, j) = FreeList(n, k) => m = n /\ j = k
  /\ \A j, k \in Core : PoolList(j) = PoolList(k) => j = k
  /\ \A m, n \in Mgr, k \in Core : MallocList(m) # FreeList(n, k)
  /\ \A m \in Mgr, k \in Core : MallocList(m) # PoolList(k)
  /\ \A m \in Mgr, j, k \in Core : FreeList(m, j) # PoolList(k)
BY DEF MallocList, FreeList, PoolList

-----------------------------------------------------------------------------
(* The operations.                                                         *)

LEMMA PushLists ==
  ASSUME NEW C, NEW ls \in Lists(C), NEW a \in ListId, NEW j \in Index, NEW S \in SUBSET C
  PROVE  /\ Push(ls, a, j, S) \in Lists(C)
         /\ \A l \in ListId, i \in Index : \A c :
              c \in Push(ls, a, j, S)[l][i] <=>
                c \in ls[l][i] \/ (l = a /\ i = j /\ c \in S)
<1> DEFINE T == ls[a][j] \cup S
<1>1. T \in SUBSET C
  BY DEF Lists
<1>2. Push(ls, a, j, S) = [ls EXCEPT ![a] = [ls[a] EXCEPT ![j] = T]]
  BY DEF Push, Lists
<1> HIDE DEF T
<1>3. Push(ls, a, j, S) \in Lists(C)
  BY <1>1, <1>2 DEF Lists
<1>4. \A l \in ListId, i \in Index :
        Push(ls, a, j, S)[l][i] = IF l = a /\ i = j THEN T ELSE ls[l][i]
  BY <1>2 DEF Lists
<1> QED
  BY <1>3, <1>4 DEF T

LEMMA PopLists ==
  ASSUME NEW C, NEW ls \in Lists(C), NEW a \in ListId, NEW j \in Index, NEW c
  PROVE  /\ Pop(ls, a, j, c) \in Lists(C)
         /\ \A l \in ListId, i \in Index : \A d :
              d \in Pop(ls, a, j, c)[l][i] <=>
                d \in ls[l][i] /\ ~(l = a /\ i = j /\ d = c)
<1> DEFINE T == ls[a][j] \ {c}
<1>1. T \in SUBSET C
  BY DEF Lists
<1>2. Pop(ls, a, j, c) = [ls EXCEPT ![a] = [ls[a] EXCEPT ![j] = T]]
  BY DEF Pop, Lists
<1> HIDE DEF T
<1>3. Pop(ls, a, j, c) \in Lists(C)
  BY <1>1, <1>2 DEF Lists
<1>4. \A l \in ListId, i \in Index :
        Pop(ls, a, j, c)[l][i] = IF l = a /\ i = j THEN T ELSE ls[l][i]
  BY <1>2 DEF Lists
<1> QED
  BY <1>3, <1>4 DEF T

LEMMA MoveLists ==
  ASSUME NEW C, NEW ls \in Lists(C), NEW a \in ListId, NEW b \in ListId, a # b,
         NEW j \in Index, NEW S \in SUBSET ls[a][j]
  PROVE  /\ MoveChunks(ls, a, b, j, S) \in Lists(C)
         /\ \A l \in ListId, i \in Index : \A c :
              c \in MoveChunks(ls, a, b, j, S)[l][i] <=>
                \/ c \in ls[l][i] /\ ~(l = a /\ i = j /\ c \in S)
                \/ l = b /\ i = j /\ c \in S
<1> DEFINE T == ls[a][j] \ S
           U == ls[b][j] \cup S
<1>1. T \in SUBSET C /\ U \in SUBSET C
  BY DEF Lists
<1>2. MoveChunks(ls, a, b, j, S) =
        [ls EXCEPT ![a] = [ls[a] EXCEPT ![j] = T], ![b] = [ls[b] EXCEPT ![j] = U]]
  BY DEF MoveChunks, Lists
<1> HIDE DEF T, U
<1>3. MoveChunks(ls, a, b, j, S) \in Lists(C)
  <2> DEFINE A == [ls[a] EXCEPT ![j] = T]
             B == [ls[b] EXCEPT ![j] = U]
  <2>1. A \in [Index -> SUBSET C] /\ B \in [Index -> SUBSET C]
    BY <1>1 DEF Lists
  <2> HIDE DEF A, B
  <2> QED
    BY <1>2, <2>1 DEF Lists, A, B
<1>4. \A l \in ListId, i \in Index :
        MoveChunks(ls, a, b, j, S)[l][i] =
          IF l = a /\ i = j THEN T ELSE IF l = b /\ i = j THEN U ELSE ls[l][i]
  BY <1>2 DEF Lists
<1> QED
  BY <1>3, <1>4 DEF T, U

LEMMA SwapLists ==
  ASSUME NEW C, NEW ls \in Lists(C), NEW a \in ListId, NEW b \in ListId, a # b,
         NEW j \in Index
  PROVE  /\ Swap(ls, a, b, j) \in Lists(C)
         /\ \A l \in ListId, i \in Index : \A c :
              c \in Swap(ls, a, b, j)[l][i] <=>
                \/ l = a /\ i = j /\ c \in ls[b][j]
                \/ l = b /\ i = j /\ c \in ls[a][j]
                \/ ~(i = j /\ l \in {a, b}) /\ c \in ls[l][i]
<1>1. ls[a][j] \in SUBSET C /\ ls[b][j] \in SUBSET C
  BY DEF Lists
<1>2. Swap(ls, a, b, j) =
        [ls EXCEPT ![a] = [ls[a] EXCEPT ![j] = ls[b][j]], ![b] = [ls[b] EXCEPT ![j] = ls[a][j]]]
  BY DEF Swap, Lists
<1> DEFINE A == [ls[a] EXCEPT ![j] = ls[b][j]]
           B == [ls[b] EXCEPT ![j] = ls[a][j]]
<1>3. /\ A \in [Index -> SUBSET C] /\ B \in [Index -> SUBSET C]
      /\ \A i \in Index : A[i] = (IF i = j THEN ls[b][i] ELSE ls[a][i])
      /\ \A i \in Index : B[i] = (IF i = j THEN ls[a][i] ELSE ls[b][i])
  BY <1>1 DEF Lists
<1>4. Swap(ls, a, b, j) = [ls EXCEPT ![a] = A, ![b] = B]
  BY <1>2
<1> HIDE DEF A, B
<1>5. Swap(ls, a, b, j) \in Lists(C)
  BY <1>3, <1>4 DEF Lists
<1>6. \A l \in ListId : Swap(ls, a, b, j)[l] = IF l = b THEN B ELSE IF l = a THEN A ELSE ls[l]
  BY <1>4 DEF Lists
<1> QED
  BY <1>3, <1>5, <1>6

LEMMA JoinLists ==
  ASSUME NEW C, NEW ls \in Lists(C), NEW a \in ListId, NEW b \in ListId, a # b
  PROVE  /\ Join(ls, a, b) \in Lists(C)
         /\ \A l \in ListId, i \in Index : \A c :
              c \in Join(ls, a, b)[l][i] <=>
                l # a /\ (c \in ls[l][i] \/ (l = b /\ c \in ls[a][i]))
<1> DEFINE T == [i \in Index |-> ls[b][i] \cup ls[a][i]]
           E == [i \in Index |-> {}]
<1>1. T \in [Index -> SUBSET C] /\ E \in [Index -> SUBSET C]
  BY DEF Lists
<1>2. \A i \in Index : T[i] = ls[b][i] \cup ls[a][i] /\ E[i] = {}
  OBVIOUS
<1>3. Join(ls, a, b) = [ls EXCEPT ![b] = T, ![a] = E]
  BY DEF Join
<1> HIDE DEF T, E
<1>4. Join(ls, a, b) \in Lists(C)
  BY <1>1, <1>3 DEF Lists
<1>5. \A l \in ListId : Join(ls, a, b)[l] = IF l = a THEN E ELSE IF l = b THEN T ELSE ls[l]
  BY <1>3 DEF Lists
<1> QED
  BY <1>2, <1>4, <1>5

-----------------------------------------------------------------------------
(* The operations keep every chunk at home: hh is the header of each chunk. *)

\* The chunks of the lists ls bear the headers the lists stand for.
AtHome(ls, hh) ==
  \A l \in ListId, i \in Index : \A c \in ls[l][i] : hh[c] = [core |-> Home(l), index |-> i]

LEMMA PushHome ==
  ASSUME NEW C, NEW ls \in Lists(C), NEW a \in ListId, NEW j \in Index, NEW S \in SUBSET C,
         NEW hh, AtHome(ls, hh),
         \A c \in S : hh[c] = [core |-> Home(a), index |-> j]
  PROVE  AtHome(Push(ls, a, j, S), hh)
<1>1. ASSUME NEW l \in ListId, NEW i \in Index, NEW d \in Push(ls, a, j, S)[l][i]
      PROVE  hh[d] = [core |-> Home(l), index |-> i]
  BY <1>1, PushLists DEF AtHome
<1> QED
  BY <1>1 DEF AtHome

LEMMA PopHome ==
  ASSUME NEW C, NEW ls \in Lists(C), NEW a \in ListId, NEW j \in Index, NEW c,
         NEW hh, AtHome(ls, hh)
  PROVE  AtHome(Pop(ls, a, j, c), hh)
<1>1. ASSUME NEW l \in ListId, NEW i \in Index, NEW d \in Pop(ls, a, j, c)[l][i]
      PROVE  hh[d] = [core |-> Home(l), index |-> i]
  BY <1>1, PopLists DEF AtHome
<1> QED
  BY <1>1 DEF AtHome

LEMMA MoveHome ==
  ASSUME NEW C, NEW ls \in Lists(C), NEW a \in ListId, NEW b \in ListId, a # b,
         Home(a) = Home(b), NEW j \in Index, NEW S \in SUBSET ls[a][j],
         NEW hh, AtHome(ls, hh)
  PROVE  AtHome(MoveChunks(ls, a, b, j, S), hh)
<1>1. ASSUME NEW l \in ListId, NEW i \in Index, NEW d \in MoveChunks(ls, a, b, j, S)[l][i]
      PROVE  hh[d] = [core |-> Home(l), index |-> i]
  BY <1>1, MoveLists DEF AtHome
<1> QED
  BY <1>1 DEF AtHome

LEMMA SwapHome ==
  ASSUME NEW C, NEW ls \in Lists(C), NEW a \in ListId, NEW b \in ListId, a # b,
         Home(a) = Home(b), NEW j \in Index,
         NEW hh, AtHome(ls, hh)
  PROVE  AtHome(Swap(ls, a, b, j), hh)
<1>1. ASSUME NEW l \in ListId, NEW i \in Index, NEW d \in Swap(ls, a, b, j)[l][i]
      PROVE  hh[d] = [core |-> Home(l), index |-> i]
  BY <1>1, SwapLists DEF AtHome
<1> QED
  BY <1>1 DEF AtHome

LEMMA JoinHome ==
  ASSUME NEW C, NEW ls \in Lists(C), NEW a \in ListId, NEW b \in ListId, a # b,
         Home(a) = Home(b),
         NEW hh, AtHome(ls, hh)
  PROVE  AtHome(Join(ls, a, b), hh)
<1>1. ASSUME NEW l \in ListId, NEW i \in Index, NEW d \in Join(ls, a, b)[l][i]
      PROVE  hh[d] = [core |-> Home(l), index |-> i]
  BY <1>1, JoinLists DEF AtHome
<1> QED
  BY <1>1 DEF AtHome

-----------------------------------------------------------------------------
(* The operations leave every chunk on one list.                           *)

Elems(ls) == UNION {ls[l][i] : l \in ListId, i \in Index}

Disj(ls) ==
  \A l1, l2 \in ListId, i1, i2 \in Index :
    l1 # l2 \/ i1 # i2 => ls[l1][i1] \cap ls[l2][i2] = {}

LEMMA ElemsIn ==
  ASSUME NEW ls, NEW c
  PROVE  c \in Elems(ls) <=> \E l \in ListId, i \in Index : c \in ls[l][i]
BY DEF Elems

LEMMA DisjIn ==
  ASSUME NEW ls
  PROVE  Disj(ls) <=> \A l1, l2 \in ListId, i1, i2 \in Index : \A c :
                        c \in ls[l1][i1] /\ c \in ls[l2][i2] => l1 = l2 /\ i1 = i2
BY DEF Disj

LEMMA PushPlace ==
  ASSUME NEW C, NEW ls \in Lists(C), NEW a \in ListId, NEW j \in Index, NEW S \in SUBSET C,
         Disj(ls), S \cap Elems(ls) = {}
  PROVE  Disj(Push(ls, a, j, S)) /\ Elems(Push(ls, a, j, S)) = Elems(ls) \cup S
<1> DEFINE ks == Push(ls, a, j, S)
<1>1. \A l1, l2 \in ListId, i1, i2 \in Index : \A d :
        d \in ks[l1][i1] /\ d \in ks[l2][i2] => l1 = l2 /\ i1 = i2
  <2>1. \A l1, l2 \in ListId, i1, i2 \in Index : \A d :
          d \in ls[l1][i1] /\ d \in ls[l2][i2] => l1 = l2 /\ i1 = i2
    BY DisjIn
  <2>2. \A l \in ListId, i \in Index : \A d : d \in ks[l][i] <=>
          d \in ls[l][i] \/ (l = a /\ i = j /\ d \in S)
    BY PushLists
  <2>3. \A l \in ListId, i \in Index : \A d \in S : d \notin ls[l][i]
    BY ElemsIn
  <2> HIDE DEF ks
  <2> QED
    BY <2>1, <2>2, <2>3
<1>2. \A d : (\E l \in ListId, i \in Index : d \in ks[l][i]) <=> d \in Elems(ls) \cup S
  BY PushLists, DisjIn, ElemsIn
<1> HIDE DEF ks
<1>3. Disj(ks)
  BY <1>1, DisjIn
<1>4. Elems(ks) = Elems(ls) \cup S
  BY <1>2, ElemsIn
<1> QED
  BY <1>3, <1>4 DEF ks

LEMMA PopPlace ==
  ASSUME NEW C, NEW ls \in Lists(C), NEW a \in ListId, NEW j \in Index, NEW c \in ls[a][j],
         Disj(ls)
  PROVE  Disj(Pop(ls, a, j, c)) /\ Elems(Pop(ls, a, j, c)) = Elems(ls) \ {c}
<1> DEFINE ks == Pop(ls, a, j, c)
<1>1. \A l1, l2 \in ListId, i1, i2 \in Index : \A d :
        d \in ks[l1][i1] /\ d \in ks[l2][i2] => l1 = l2 /\ i1 = i2
  BY PopLists, DisjIn, ElemsIn
<1>2. \A d : (\E l \in ListId, i \in Index : d \in ks[l][i]) <=> d \in Elems(ls) \ {c}
  BY PopLists, DisjIn, ElemsIn
<1> HIDE DEF ks
<1>3. Disj(ks)
  BY <1>1, DisjIn
<1>4. Elems(ks) = Elems(ls) \ {c}
  BY <1>2, ElemsIn
<1> QED
  BY <1>3, <1>4 DEF ks

LEMMA MovePlace ==
  ASSUME NEW C, NEW ls \in Lists(C), NEW a \in ListId, NEW b \in ListId, a # b, NEW j \in Index, NEW S \in SUBSET ls[a][j],
         Disj(ls)
  PROVE  Disj(MoveChunks(ls, a, b, j, S)) /\ Elems(MoveChunks(ls, a, b, j, S)) = Elems(ls)
<1> DEFINE ks == MoveChunks(ls, a, b, j, S)
<1>1. \A l1, l2 \in ListId, i1, i2 \in Index : \A d :
        d \in ks[l1][i1] /\ d \in ks[l2][i2] => l1 = l2 /\ i1 = i2
  <2>1. \A l1, l2 \in ListId, i1, i2 \in Index : \A d :
          d \in ls[l1][i1] /\ d \in ls[l2][i2] => l1 = l2 /\ i1 = i2
    BY DisjIn
  <2>2. \A l \in ListId, i \in Index : \A d : d \in ks[l][i] <=>
          \/ d \in ls[l][i] /\ ~(l = a /\ i = j /\ d \in S)
          \/ l = b /\ i = j /\ d \in S
    BY MoveLists
  <2> HIDE DEF ks
  <2> QED
    BY <2>1, <2>2
<1>2. \A d : (\E l \in ListId, i \in Index : d \in ks[l][i]) <=> d \in Elems(ls)
  BY MoveLists, DisjIn, ElemsIn
<1> HIDE DEF ks
<1>3. Disj(ks)
  BY <1>1, DisjIn
<1>4. Elems(ks) = Elems(ls)
  BY <1>2, ElemsIn
<1> QED
  BY <1>3, <1>4 DEF ks

LEMMA SwapPlace ==
  ASSUME NEW C, NEW ls \in Lists(C), NEW a \in ListId, NEW b \in ListId, a # b, NEW j \in Index,
         Disj(ls)
  PROVE  Disj(Swap(ls, a, b, j)) /\ Elems(Swap(ls, a, b, j)) = Elems(ls)
<1> DEFINE ks == Swap(ls, a, b, j)
<1>1. \A l1, l2 \in ListId, i1, i2 \in Index : \A d :
        d \in ks[l1][i1] /\ d \in ks[l2][i2] => l1 = l2 /\ i1 = i2
  <2>1. \A l1, l2 \in ListId, i1, i2 \in Index : \A d :
          d \in ls[l1][i1] /\ d \in ls[l2][i2] => l1 = l2 /\ i1 = i2
    BY DisjIn
  <2>2. \A l \in ListId, i \in Index : \A d : d \in ks[l][i] <=>
          \/ l = a /\ i = j /\ d \in ls[b][j]
          \/ l = b /\ i = j /\ d \in ls[a][j]
          \/ ~(i = j /\ l \in {a, b}) /\ d \in ls[l][i]
    BY SwapLists
  <2> HIDE DEF ks
  <2> QED
    BY <2>1, <2>2
<1>2. \A d : (\E l \in ListId, i \in Index : d \in ks[l][i]) <=> d \in Elems(ls)
  BY SwapLists, DisjIn, ElemsIn
<1> HIDE DEF ks
<1>3. Disj(ks)
  BY <1>1, DisjIn
<1>4. Elems(ks) = Elems(ls)
  BY <1>2, ElemsIn
<1> QED
  BY <1>3, <1>4 DEF ks

LEMMA JoinPlace ==
  ASSUME NEW C, NEW ls \in Lists(C), NEW a \in ListId, NEW b \in ListId, a # b,
         Disj(ls)
  PROVE  Disj(Join(ls, a, b)) /\ Elems(Join(ls, a, b)) = Elems(ls)
<1> DEFINE ks == Join(ls, a, b)
<1>1. \A l1, l2 \in ListId, i1, i2 \in Index : \A d :
        d \in ks[l1][i1] /\ d \in ks[l2][i2] => l1 = l2 /\ i1 = i2
  <2>1. \A l1, l2 \in ListId, i1, i2 \in Index : \A d :
          d \in ls[l1][i1] /\ d \in ls[l2][i2] => l1 = l2 /\ i1 = i2
    BY DisjIn
  <2>2. \A l \in ListId, i \in Index : \A d : d \in ks[l][i] <=>
          l # a /\ (d \in ls[l][i] \/ (l = b /\ d \in ls[a][i]))
    BY JoinLists
  <2> HIDE DEF ks
  <2> QED
    BY <2>1, <2>2
<1>2. \A d : (\E l \in ListId, i \in Index : d \in ks[l][i]) <=> d \in Elems(ls)
  BY JoinLists, DisjIn, ElemsIn
<1> HIDE DEF ks
<1>3. Disj(ks)
  BY <1>1, DisjIn
<1>4. Elems(ks) = Elems(ls)
  BY <1>2, ElemsIn
<1> QED
  BY <1>3, <1>4 DEF ks

-----------------------------------------------------------------------------
(* The managers and lists have the identities the code's indices give them. *)

LEMMA Least ==
  ASSUME NEW S \in SUBSET Nat, S # {}
  PROVE  \E i \in S : \A j \in S : i <= j
<1> DEFINE R == {ss \in Nat \X Nat : ss[1] < ss[2]}
<1>1. IsWellFoundedOn(R, Nat)
  BY NatLessThanWellFounded, Zenon DEF OpToRel
<1>2. \A i, j \in Nat : i < j => <<i, j>> \in R
  OBVIOUS
<1> HIDE DEF R
<1>3. PICK i \in S : \A j \in S : ~(<<j, i>> \in R)
  BY <1>1, WFMin
<1>4. ASSUME NEW j \in S PROVE i <= j
  <2>1. ~(j < i)
    BY <1>2, <1>3, Zenon
  <2> QED
    BY <2>1
<1> QED
  BY <1>4

LEMMA ModRange == \A a \in Nat, b \in Nat \ {0} : a % b \in 0 .. b - 1
  OBVIOUS

\* The search of AllocLocalMemoryManager finds a manager of the core that is
\* idle, or none.
LEMMA IdleManagerType ==
  ASSUME NEW core \in Core, offset \in Slot, IdleManager(core) # None
  PROVE  /\ IdleManager(core) \in Mgr
         /\ IdleManager(core)[1] = core
         /\ ~poolFlags[IdleManager(core)]
<1> DEFINE free == {i \in Slot : ~poolFlags[<<core, (NextOffset + i) % PoolN>>]}
           i == CHOOSE i \in free : \A j \in free : i <= j
<1>1. PoolN \in Nat \ {0} /\ free \in SUBSET Nat
  BY SizesAssumption DEF Slot
<1>2. free # {}
  BY DEF IdleManager
<1>3. i \in free
  BY <1>1, <1>2, Least
<1>4. IdleManager(core) = <<core, (NextOffset + i) % PoolN>>
  BY <1>2 DEF IdleManager
<1>5. NextOffset + i \in Nat
  BY <1>1, <1>3 DEF NextOffset, Slot
<1> HIDE DEF i
<1>6. (NextOffset + i) % PoolN \in Slot
  BY <1>1, <1>5, ModRange DEF Slot
<1>7. ~poolFlags[<<core, (NextOffset + i) % PoolN>>]
  BY <1>3
<1> QED
  BY <1>4, <1>6, <1>7 DEF Mgr

LEMMA HeirType ==
  ASSUME NEW m \in Mgr, NEW k \in Core, Heirs(m, k) # {}
  PROVE  Heir(m, k) \in Mgr /\ Heir(m, k)[1] = k /\ Heir(m, k)[2] # m[2]
         /\ ~poolFlags[Heir(m, k)]
<1>1. Heirs(m, k) \in SUBSET Nat
  BY SizesAssumption DEF Heirs, Slot
<1>2. Heir(m, k)[2] \in Heirs(m, k) /\ Heir(m, k) = <<k, Heir(m, k)[2]>>
  BY <1>1, Least DEF Heir
<1> QED
  BY <1>2 DEF Heirs, Mgr

-----------------------------------------------------------------------------
(* Control.                                                                *)

Refill == {"cmp_lock", "cmp_unlock", "allocate", "unmapped"}
Flushing == {"flush_lock", "flush_unlock"}
Releasing == {"rel_lock", "rel_unlock"}

\* What each thread has in hand at each place.
InHand ==
  \A t \in Thread :
    /\ pc[t] \in Refill \cup Flushing => lp[t] \in Mgr
    /\ pc[t] \in Refill => idx[t] \in Index
    /\ pc[t] \in Flushing => t = MainThread
    /\ pc[t] = "gfree_unlock" => gm[t] \in Mgr /\ ptr[t] \in Chunk /\ lp[t] = None
    /\ pc[t] \in Releasing => gm[t] \in Mgr /\ lp[t] \in {gm[t], None}
    /\ pc[t] \notin Releasing \cup {"gfree_unlock"} => gm[t] = None
    /\ ptr[t] # None => pc[t] \in Refill \cup {"gfree_unlock"}
    /\ pc[t] = "new" => lp[t] = None

\* The chunks outside the lists have a header.
Known == \A p \in Held \cup InCall : hdr[p] # None

\* The holders of the mutexes.
Mutexes ==
  \A t \in Thread :
    /\ pc[t] \in {"init_unlock", "gfree_unlock", "rel_unlock"} => mtx = t
    /\ pc[t] = "cmp_unlock" => mtxs[lp[t][1]] = t
    /\ pc[t] = "flush_unlock" => mtxs[fcore] = t

Holds(t) == {lp[t], gm[t]} \ {None}

\* The managers in use: each by one thread, and marked as such, except by
\* the thread that has just found it and still holds mtx_.
Owners ==
  /\ \A t, u \in Thread : t # u => Holds(t) \cap Holds(u) = {}
  /\ \A t \in Thread : \A m \in Holds(t) :
       pc[t] \notin {"init_unlock", "gfree_unlock"} => poolFlags[m]
  /\ \A t \in Thread : \A m \in Holds(t) : m \in Mgr

Control == InHand /\ Mutexes /\ Owners

LEMMA ControlInit == Init => Control /\ Known
BY DEF Init, Control, InHand, Mutexes, Owners, Holds, Refill, Flushing, Releasing,
       Known, InCall, Held

\* The types Control needs.
CtlType ==
  /\ poolFlags \in [Mgr -> BOOLEAN]
  /\ offset \in Slot
  /\ mtxs \in [Core -> Thread \cup {None}]
  /\ pc \in [Thread -> PC]
  /\ lp \in [Thread -> Mgr \cup {None}]
  /\ gm \in [Thread -> Mgr \cup {None}]
  /\ idx \in [Thread -> Index \cup {None}]
  /\ ptr \in [Thread -> Chunk \cup {None}]
  /\ fcore \in Core

\* A step of thread t within its own state, which only moves it on.
LEMMA OwnStep ==
  ASSUME NEW t \in Thread, CtlType, Control, CtlType',
         UNCHANGED <<gvars, mtxs, lp, gm>>,
         \A u \in Thread \ {t} : pc'[u] = pc[u] /\ idx'[u] = idx[u] /\ ptr'[u] = ptr[u],
         pc[t] \notin {"init_unlock", "gfree_unlock", "rel_unlock", "cmp_unlock", "flush_unlock"},
         t # MainThread => fcore' = fcore,
         InHand',
         pc'[t] \notin {"init_unlock", "gfree_unlock", "rel_unlock", "cmp_unlock", "flush_unlock"}
  PROVE  Mutexes' /\ Owners'
<1>1. /\ UNCHANGED <<poolFlags, mtx, mtxs, lp, gm>>
  BY DEF gvars
<1>2. Mutexes'
  <2> SUFFICES ASSUME NEW u \in Thread
               PROVE
    /\ pc'[u] \in {"init_unlock", "gfree_unlock", "rel_unlock"} => mtx = u
    /\ pc'[u] = "cmp_unlock" => mtxs[lp[u][1]] = u
    /\ pc'[u] = "flush_unlock" => mtxs[fcore'] = u
    BY <1>1 DEF Mutexes
  <2>1. CASE u = t
    BY <2>1
  <2>2. CASE u # t
    <3>1. pc[u] = "flush_unlock" => fcore' = fcore
      BY <2>2 DEF Control, InHand, Flushing
    <3> QED
      BY <2>2, <3>1 DEF Control, Mutexes
  <2> QED
    BY <2>1, <2>2
<1>3. Owners'
  BY <1>1 DEF Control, Owners, Holds
<1> QED
  BY <1>2, <1>3

-----------------------------------------------------------------------------
(* Types.                                                                  *)

LEMMA LocalFreeLists ==
  ASSUME NEW ls \in Lists(Chunk), NEW m \in Mgr, NEW p \in Chunk, hdr[p] \in Header
  PROVE  /\ LocalFree(ls, m, p) \in Lists(Chunk)
         /\ \A l \in ListId, i \in Index : \A c :
              c \in LocalFree(ls, m, p)[l][i] <=>
                \/ c \in ls[l][i]
                \/ l = FreeList(m, hdr[p].core) /\ i = hdr[p].index /\ c = p
<1> DEFINE a == FreeList(m, hdr[p].core)
           j == hdr[p].index
           S == {p}
<1>1. hdr[p].core \in Core /\ j \in Index
  BY DEF Header
<1>2. a \in ListId /\ S \in SUBSET Chunk
  BY <1>1, ListIdType
<1>3. LocalFree(ls, m, p) = Push(ls, a, j, S)
  BY DEF LocalFree
<1> HIDE DEF a, j, S
<1>4. j \in Index
  BY <1>1
<1>5. /\ Push(ls, a, j, S) \in Lists(Chunk)
      /\ \A l \in ListId, i \in Index : \A c :
           c \in Push(ls, a, j, S)[l][i] <=> c \in ls[l][i] \/ (l = a /\ i = j /\ c \in S)
  BY <1>2, <1>4, PushLists
<1>6. \A c : c \in S <=> c = p
  BY DEF S
<1>7. \A l \in ListId, i \in Index : \A c :
        c \in LocalFree(ls, m, p)[l][i] <=> c \in ls[l][i] \/ (l = a /\ i = j /\ c = p)
  BY <1>3, <1>5, <1>6
<1>8. LocalFree(ls, m, p) \in Lists(Chunk)
  BY <1>3, <1>5
<1> QED
  BY <1>7, <1>8 DEF a, j

LEMMA TakeBackType ==
  ASSUME live \in [Chunk -> Nat], NEW p \in Chunk \cup {None}, p # None => p \in Held
  PROVE  TakeBack(live, p) \in [Chunk -> Nat]
BY DEF TakeBack, Held

LEMMA HandOutType ==
  ASSUME NEW lv \in [Chunk -> Nat], NEW c \in Chunk
  PROVE  HandOut(lv, c) \in [Chunk -> Nat]
BY DEF HandOut

LEMMA DeliverType ==
  ASSUME NEW t \in Thread, lp[t] \in Mgr, NEW ls \in Lists(Chunk),
         NEW lv \in [Chunk -> Nat], NEW c \in Chunk, NEW p \in Chunk \cup {None},
         p # None => hdr[p] \in Header,
         idx \in [Thread -> Index \cup {None}], ptr \in [Thread -> Chunk \cup {None}],
         pc \in [Thread -> PC],
         Deliver(t, ls, lv, c, p)
  PROVE  /\ lists' \in Lists(Chunk) /\ live' \in [Chunk -> Nat]
         /\ idx' \in [Thread -> Index \cup {None}] /\ ptr' \in [Thread -> Chunk \cup {None}]
         /\ pc' \in [Thread -> PC]
<1>1. lists' \in Lists(Chunk)
  BY LocalFreeLists DEF Deliver
<1>2. live' \in [Chunk -> Nat]
  BY HandOutType DEF Deliver
<1>3. "idle" \in PC
  BY DEF PC
<1> QED
  BY <1>1, <1>2, <1>3 DEF Deliver, Goto

\* What Malloc and Realloc have in common.
MallocStep(t, i, p) ==
  /\ pc[t] = "idle" /\ lp[t] # None
  /\ p # None => p \in Held /\ hdr[p].index < i
  /\ MallocLocal(t, i, p)
  /\ UNCHANGED <<gvars, mtxs, hdr, cvars, ended, lp, gm>>

LEMMA MallocSteps ==
  ASSUME NEW t \in Thread, NEW i \in Index,
         Malloc(t, i) \/ \E p \in Chunk : Realloc(t, p, i)
  PROVE  \E p \in Chunk \cup {None} : MallocStep(t, i, p)
BY DEF Malloc, Realloc, MallocStep

\* The inductive invariant.
IInv == TypeOK /\ Control /\ Known /\ HomeAffinity

LEMMA IInvFacts ==
  ASSUME IInv
  PROVE  /\ lists \in Lists(Chunk) /\ live \in [Chunk -> Nat]
         /\ \A p \in Held \cup InCall : p \in Chunk /\ hdr[p] \in Header
         /\ \A t \in Thread : lp[t] # None => lp[t] \in Mgr
         /\ \A t \in Thread : gm[t] # None => gm[t] \in Mgr
BY DEF IInv, TypeOK, Lists, Known, Held, InCall

\* The lists a thread works on.
LEMMA OwnLists ==
  ASSUME NEW m \in Mgr
  PROVE  /\ MallocList(m) \in ListId /\ FreeList(m, m[1]) \in ListId /\ PoolList(m[1]) \in ListId
         /\ MallocList(m) # FreeList(m, m[1]) /\ MallocList(m) # PoolList(m[1])
         /\ m[1] \in Core
BY ListIdType, ListIdDistinct

LEMMA MallocStepType ==
  ASSUME IInv, NEW t \in Thread, NEW i \in Index, NEW p \in Chunk \cup {None},
         MallocStep(t, i, p)
  PROVE  TypeOK'
<1> DEFINE m  == lp[t]
           ml == MallocList(m)
           fl == FreeList(m, m[1])
           Good == /\ lists' \in Lists(Chunk) /\ live' \in [Chunk -> Nat]
                   /\ idx' \in [Thread -> Index \cup {None}]
                   /\ ptr' \in [Thread -> Chunk \cup {None}]
                   /\ pc' \in [Thread -> PC]
<1>1. /\ m \in Mgr /\ lists \in Lists(Chunk)
      /\ p # None => hdr[p] \in Header
      /\ TakeBack(live, p) \in [Chunk -> Nat]
      /\ idx \in [Thread -> Index \cup {None}] /\ ptr \in [Thread -> Chunk \cup {None}]
      /\ pc \in [Thread -> PC]
  BY IInvFacts, TakeBackType DEF MallocStep, IInv, TypeOK
<1>2. ml \in ListId /\ fl \in ListId /\ ml # fl
  BY <1>1, OwnLists
<1>3. /\ lists[ml][i] \subseteq Chunk /\ lists[fl][i] \subseteq Chunk
  BY <1>1, <1>2 DEF Lists
<1>4. Good
  <2>1. ASSUME NEW c \in lists[ml][i],
               Deliver(t, Pop(lists, ml, i, c), TakeBack(live, p), c, p)
        PROVE  Good
    <3>1. c \in Chunk /\ Pop(lists, ml, i, c) \in Lists(Chunk)
      BY <1>1, <1>2, <1>3, PopLists
    <3> QED
      BY <1>1, <2>1, <3>1, DeliverType
  <2>2. ASSUME NEW c \in lists[fl][i],
               Deliver(t, Pop(Swap(lists, ml, fl, i), ml, i, c), TakeBack(live, p), c, p)
        PROVE  Good
    <3>1. Swap(lists, ml, fl, i) \in Lists(Chunk)
      BY <1>1, <1>2, SwapLists
    <3>2. c \in Chunk /\ Pop(Swap(lists, ml, fl, i), ml, i, c) \in Lists(Chunk)
      BY <1>2, <1>3, <3>1, PopLists
    <3> QED
      BY <1>1, <2>2, <3>2, DeliverType
  <2>3. ASSUME /\ idx' = [idx EXCEPT ![t] = i] /\ ptr' = [ptr EXCEPT ![t] = p]
               /\ live' = TakeBack(live, p) /\ Goto(t, "cmp_lock") /\ UNCHANGED lists
        PROVE  Good
    BY <1>1, <2>3 DEF Goto, PC
  <2> QED
    BY <2>1, <2>2, <2>3 DEF MallocStep, MallocLocal
<1> HIDE DEF m, ml, fl
<1> QED
  BY <1>4 DEF MallocStep, IInv, TypeOK, Lists, gvars, cvars

LEMMA RefillType ==
  ASSUME IInv, NEW t \in Thread,
         CmpRefill(t) \/ CmpUnlock(t) \/ Allocate(t) \/ AllocateNone(t)
  PROVE  TypeOK'
<1> DEFINE m  == lp[t]
           ml == MallocList(m)
           i  == idx[t]
<1>1. /\ m \in Mgr /\ i \in Index /\ lists \in Lists(Chunk) /\ live \in [Chunk -> Nat]
      /\ ptr[t] \in Chunk \cup {None} /\ (ptr[t] # None => hdr[ptr[t]] \in Header)
      /\ idx \in [Thread -> Index \cup {None}] /\ ptr \in [Thread -> Chunk \cup {None}]
      /\ pc \in [Thread -> PC] /\ mtxs \in [Core -> Thread \cup {None}]
      /\ hdr \in [Chunk -> Header \cup {None}]
  <2>1. pc[t] \in Refill
    BY DEF CmpRefill, CmpUnlock, Allocate, AllocateNone, Refill
  <2>2. m \in Mgr /\ i \in Index
    BY <2>1 DEF IInv, Control, InHand
  <2>3. ptr[t] # None => ptr[t] \in InCall
    BY DEF InCall
  <2> QED
    BY <2>2, <2>3, IInvFacts DEF IInv, TypeOK
<1>2. /\ ml \in ListId /\ PoolList(m[1]) \in ListId /\ ml # PoolList(m[1]) /\ m[1] \in Core
  BY <1>1, OwnLists
<1>3. lists[ml][i] \subseteq Chunk
  BY <1>1, <1>2 DEF Lists
<1>4. CASE CmpRefill(t)
  <2>1. PICK S \in SUBSET lists[PoolList(m[1])][i] :
          lists' = MoveChunks(lists, PoolList(m[1]), ml, i, S)
    BY <1>4 DEF CmpRefill
  <2>2. lists' \in Lists(Chunk)
    BY <1>1, <1>2, <2>1, MoveLists
  <2>3. mtxs' \in [Core -> Thread \cup {None}] /\ pc' \in [Thread -> PC]
    BY <1>1, <1>4 DEF CmpRefill, LockPool, Goto, PC
  <2> HIDE DEF m, ml, i
  <2> QED
    BY <1>4, <2>2, <2>3 DEF CmpRefill, IInv, TypeOK, Lists, gvars, cvars
<1>5. CASE CmpUnlock(t)
  <2> DEFINE Good == /\ lists' \in Lists(Chunk) /\ live' \in [Chunk -> Nat]
                     /\ idx' \in [Thread -> Index \cup {None}]
                     /\ ptr' \in [Thread -> Chunk \cup {None}]
                     /\ pc' \in [Thread -> PC]
  <2>1. ASSUME NEW c \in lists[ml][i], Deliver(t, Pop(lists, ml, i, c), live, c, ptr[t])
        PROVE  Good
    <3>1. c \in Chunk /\ Pop(lists, ml, i, c) \in Lists(Chunk)
      BY <1>1, <1>2, <1>3, PopLists
    <3> QED
      BY <1>1, <2>1, <3>1, DeliverType
  <2>2. ASSUME Goto(t, "allocate"), UNCHANGED <<lists, live, idx, ptr>> PROVE Good
    BY <1>1, <2>2 DEF Goto, PC
  <2>3. Good
    BY <1>5, <2>1, <2>2 DEF CmpUnlock
  <2>4. mtxs' \in [Core -> Thread \cup {None}]
    BY <1>1, <1>5 DEF CmpUnlock, UnlockPool
  <2> HIDE DEF m, ml, i
  <2> QED
    BY <1>5, <2>3, <2>4 DEF CmpUnlock, IInv, TypeOK, Lists, gvars, cvars
<1>6. CASE Allocate(t)
  <2>1. PICK S \in SUBSET Fresh :
          /\ hdr' = [c \in Chunk |-> IF c \in S THEN [core |-> m[1], index |-> i] ELSE hdr[c]]
          /\ \E c \in S : Deliver(t, Pop(Push(lists, ml, i, S), ml, i, c), live, c, ptr[t])
    BY <1>6 DEF Allocate
  <2>2. PICK c \in S : Deliver(t, Pop(Push(lists, ml, i, S), ml, i, c), live, c, ptr[t])
    BY <2>1
  <2>3. S \in SUBSET Chunk /\ c \in Chunk
    BY DEF Fresh
  <2>4. Push(lists, ml, i, S) \in Lists(Chunk)
    BY <1>1, <1>2, <2>3, PushLists
  <2>5. Pop(Push(lists, ml, i, S), ml, i, c) \in Lists(Chunk)
    BY <1>1, <1>2, <2>4, PopLists
  <2>6. /\ lists' \in Lists(Chunk) /\ live' \in [Chunk -> Nat]
        /\ idx' \in [Thread -> Index \cup {None}] /\ ptr' \in [Thread -> Chunk \cup {None}]
        /\ pc' \in [Thread -> PC]
    BY <1>1, <2>2, <2>3, <2>5, DeliverType
  <2>7. hdr' \in [Chunk -> Header \cup {None}]
    BY <1>1, <1>2, <2>1 DEF Header
  <2> HIDE DEF m, ml, i
  <2> QED
    BY <1>6, <2>6, <2>7 DEF Allocate, IInv, TypeOK, Lists, gvars, cvars
<1>7. CASE AllocateNone(t)
  <2>1. live' \in [Chunk -> Nat]
    BY <1>1, <1>7, HandOutType DEF AllocateNone
  <2>2. /\ idx' \in [Thread -> Index \cup {None}] /\ ptr' \in [Thread -> Chunk \cup {None}]
        /\ pc' \in [Thread -> PC]
    BY <1>1, <1>7 DEF AllocateNone, Goto, PC
  <2> HIDE DEF m, ml, i
  <2> QED
    BY <1>7, <2>1, <2>2 DEF AllocateNone, IInv, TypeOK, gvars, cvars
<1> QED
  BY <1>4, <1>5, <1>6, <1>7

\* What FreeLocalMemoryManager makes of the lists.
LEMMA HandOverLists ==
  ASSUME NEW m \in Mgr, lists \in Lists(Chunk)
  PROVE  /\ HandOver(m) \in Lists(Chunk)
         /\ \A l \in ListId, i \in Index : \A c :
              c \in HandOver(m)[l][i] <=>
                /\ ~ \E k \in Core : Heirs(m, k) # {} /\ l = FreeList(m, k)
                /\ \/ c \in lists[l][i]
                   \/ \E k \in Core : /\ Heirs(m, k) # {} /\ l = MallocList(Heir(m, k))
                                      /\ c \in lists[FreeList(m, k)][i]
<1> DEFINE Left == {k \in Core : Heirs(m, k) # {}}
           Gain(l, i) == UNION {lists[FreeList(m, k)][i] :
                                  k \in {j \in Left : l = MallocList(Heir(m, j))}}
           G(l, i) == IF \E k \in Left : l = FreeList(m, k)
                      THEN {} ELSE lists[l][i] \cup Gain(l, i)
<1>1. HandOver(m) = [l \in ListId |-> [i \in Index |-> G(l, i)]]
  BY Zenon DEF HandOver
<1>2. \A k \in Core : FreeList(m, k) \in ListId
  BY ListIdType
<1>3. \A l, i, c : c \in Gain(l, i) <=>
        \E k \in Core : /\ Heirs(m, k) # {} /\ l = MallocList(Heir(m, k))
                        /\ c \in lists[FreeList(m, k)][i]
  OBVIOUS
<1>4. ASSUME NEW l \in ListId, NEW i \in Index
      PROVE  /\ G(l, i) \in SUBSET Chunk
             /\ \A c : c \in G(l, i) <=>
                  /\ ~ \E k \in Core : Heirs(m, k) # {} /\ l = FreeList(m, k)
                  /\ \/ c \in lists[l][i]
                     \/ \E k \in Core : /\ Heirs(m, k) # {} /\ l = MallocList(Heir(m, k))
                                        /\ c \in lists[FreeList(m, k)][i]
  <2>1. /\ lists[l][i] \subseteq Chunk
        /\ \A k \in Core : lists[FreeList(m, k)][i] \subseteq Chunk
    BY <1>2 DEF Lists
  <2> HIDE DEF Gain
  <2> QED
    BY <1>3, <2>1
<1> HIDE DEF G
<1>5. HandOver(m) \in Lists(Chunk)
  BY <1>1, <1>4 DEF Lists
<1>6. \A l \in ListId, i \in Index : HandOver(m)[l][i] = G(l, i)
  BY <1>1
<1> QED
  BY <1>4, <1>5, <1>6

LEMMA FreeType ==
  ASSUME IInv, NEW t \in Thread, NEW p \in Chunk, Free(t, p)
  PROVE  TypeOK'
<1>1. /\ lp[t] \in Mgr /\ lists \in Lists(Chunk) /\ hdr[p] \in Header /\ hdr[p].index \in Index
      /\ TakeBack(live, p) \in [Chunk -> Nat]
  BY IInvFacts, TakeBackType DEF Free, Header
<1>2. lists' \in Lists(Chunk)
  BY <1>1, LocalFreeLists DEF Free
<1>3. /\ cnts \in [Index -> Nat] /\ \A j \in Index : cnts[j] <= NPerSize[j]
      /\ fcore \in Core /\ pc \in [Thread -> PC] /\ NPerSize \in [Index -> Nat]
  BY FCMallocAssumption DEF IInv, TypeOK
<1>4. cnts' \in [Index -> Nat] /\ \A j \in Index : cnts'[j] <= NPerSize[j]
  <2> DEFINE i == hdr[p].index
  <2>1. i \in Index
    BY <1>1
  <2>2. cnts' = IF FlushDue(t, i) THEN [j \in Index |-> 0]
                ELSE IF t = MainThread THEN [cnts EXCEPT ![i] = @ + 1] ELSE cnts
    BY DEF Free
  <2> HIDE DEF i
  <2>3. CASE FlushDue(t, i)
    BY <1>3, <2>2, <2>3
  <2>4. CASE ~FlushDue(t, i) /\ t = MainThread
    <3>1. cnts[i] + 1 <= NPerSize[i]
      BY <1>3, <2>1, <2>4 DEF FlushDue
    <3> QED
      BY <1>3, <2>1, <2>2, <2>4, <3>1
  <2>5. CASE t # MainThread
    BY <1>3, <2>2, <2>5 DEF FlushDue
  <2> QED
    BY <2>3, <2>4, <2>5
<1>5. fcore' \in Core
  BY <1>3, SizesAssumption DEF Free, NextCore, Core
<1>6. pc' \in [Thread -> PC]
  BY <1>3 DEF Free, Goto, PC
<1> QED
  BY <1>1, <1>2, <1>4, <1>5, <1>6 DEF Free, IInv, TypeOK, Lists, gvars

LEMMA FlushType ==
  ASSUME IInv, NEW t \in Thread, Flush(t) \/ FlushUnlock(t)
  PROVE  TypeOK'
<1>1. /\ lp[t] \in Mgr /\ lists \in Lists(Chunk) /\ fcore \in Core
      /\ pc \in [Thread -> PC] /\ mtxs \in [Core -> Thread \cup {None}]
  BY IInvFacts DEF Flush, FlushUnlock, IInv, TypeOK, Control, InHand, Flushing
<1>2. CASE Flush(t)
  <2>1. /\ FreeList(lp[t], fcore) \in ListId /\ PoolList(fcore) \in ListId
        /\ FreeList(lp[t], fcore) # PoolList(fcore)
    BY <1>1, ListIdType, ListIdDistinct
  <2>2. lists' \in Lists(Chunk)
    BY <1>1, <1>2, <2>1, JoinLists DEF Flush
  <2>3. mtxs' \in [Core -> Thread \cup {None}] /\ pc' \in [Thread -> PC]
    BY <1>1, <1>2 DEF Flush, LockPool, Goto, PC
  <2> QED
    BY <1>2, <2>2, <2>3 DEF Flush, IInv, TypeOK, Lists, gvars, cvars
<1>3. CASE FlushUnlock(t)
  <2>1. fcore' \in Core
    BY <1>1, <1>3, SizesAssumption DEF FlushUnlock, NextCore, Core
  <2>2. mtxs' \in [Core -> Thread \cup {None}] /\ pc' \in [Thread -> PC]
    BY <1>1, <1>3 DEF FlushUnlock, UnlockPool, Goto, PC
  <2> QED
    BY <1>3, <2>1, <2>2 DEF FlushUnlock, IInv, TypeOK, gvars
<1> QED
  BY <1>2, <1>3

LEMMA GFreeType ==
  ASSUME IInv, NEW t \in Thread, (\E p \in Chunk : GFree(t, p)) \/ GFreeUnlock(t)
  PROVE  TypeOK'
<1>1. /\ lists \in Lists(Chunk) /\ pc \in [Thread -> PC] /\ offset \in Slot
      /\ gm \in [Thread -> Mgr \cup {None}] /\ ptr \in [Thread -> Chunk \cup {None}]
      /\ poolFlags \in [Mgr -> BOOLEAN]
  BY IInvFacts DEF IInv, TypeOK
<1>2. ASSUME NEW p \in Chunk, GFree(t, p) PROVE TypeOK'
  <2>1. hdr[p] \in Header /\ hdr[p].core \in Core /\ TakeBack(live, p) \in [Chunk -> Nat]
    BY <1>2, IInvFacts, TakeBackType DEF GFree, Header
  <2>2. gm' \in [Thread -> Mgr \cup {None}]
    BY <1>1, <1>2, <2>1, IdleManagerType DEF GFree
  <2>3. mtx' \in Thread \cup {None} /\ offset' \in Slot
    BY <1>1, <1>2, SizesAssumption, ModRange DEF GFree, AllocLocalMemoryManager, NextOffset, Slot
  <2>4. ptr' \in [Thread -> Chunk \cup {None}] /\ pc' \in [Thread -> PC]
    BY <1>1, <1>2 DEF GFree, Goto, PC
  <2> QED
    BY <1>2, <2>1, <2>2, <2>3, <2>4 DEF GFree, IInv, TypeOK, cvars
<1>3. CASE GFreeUnlock(t)
  <2>1. gm[t] \in Mgr /\ ptr[t] \in Chunk /\ ptr[t] # None
    BY <1>3, FCMallocAssumption DEF GFreeUnlock, IInv, Control, InHand
  <2>2. hdr[ptr[t]] \in Header
    BY <2>1, IInvFacts DEF InCall
  <2>3. lists' \in Lists(Chunk)
    BY <1>1, <1>3, <2>1, <2>2, LocalFreeLists DEF GFreeUnlock
  <2>4. poolFlags' \in [Mgr -> BOOLEAN] /\ mtx' \in Thread \cup {None}
    BY <1>1, <1>3 DEF GFreeUnlock, TakeManager
  <2>5. ptr' \in [Thread -> Chunk \cup {None}] /\ pc' \in [Thread -> PC]
    BY <1>1, <1>3 DEF GFreeUnlock, Goto, PC
  <2> QED
    BY <1>3, <2>3, <2>4, <2>5 DEF GFreeUnlock, IInv, TypeOK, Lists, cvars
<1> QED
  BY <1>2, <1>3

LEMMA ReleaseType ==
  ASSUME IInv, NEW t \in Thread, FreeLocalMemoryManager(t) \/ ReleaseUnlock(t)
  PROVE  TypeOK'
<1>1. /\ lists \in Lists(Chunk) /\ pc \in [Thread -> PC] /\ gm[t] \in Mgr
      /\ gm \in [Thread -> Mgr \cup {None}] /\ lp \in [Thread -> Mgr \cup {None}]
      /\ poolFlags \in [Mgr -> BOOLEAN]
  BY IInvFacts DEF FreeLocalMemoryManager, ReleaseUnlock, IInv, TypeOK, Control, InHand, Releasing
<1>2. CASE FreeLocalMemoryManager(t)
  <2>1. lists' \in Lists(Chunk)
    BY <1>1, <1>2, HandOverLists DEF FreeLocalMemoryManager
  <2>2. mtx' \in Thread \cup {None} /\ pc' \in [Thread -> PC]
    BY <1>1, <1>2 DEF FreeLocalMemoryManager, Goto, PC
  <2> QED
    BY <1>2, <2>1, <2>2 DEF FreeLocalMemoryManager, IInv, TypeOK, Lists, cvars
<1>3. CASE ReleaseUnlock(t)
  <2>1. poolFlags' \in [Mgr -> BOOLEAN] /\ mtx' \in Thread \cup {None}
    BY <1>1, <1>3 DEF ReleaseUnlock
  <2>2. gm' \in [Thread -> Mgr \cup {None}] /\ lp' \in [Thread -> Mgr \cup {None}]
        /\ pc' \in [Thread -> PC]
    BY <1>1, <1>3 DEF ReleaseUnlock, Goto, PC
  <2> QED
    BY <1>3, <2>1, <2>2 DEF ReleaseUnlock, IInv, TypeOK, cvars
<1> QED
  BY <1>2, <1>3

LEMMA ThreadType ==
  ASSUME IInv, NEW t \in Thread,
         ThreadInit(t) \/ InitUnlock(t) \/ ThreadTerm(t) \/ MainTerm(t)
         \/ NullMalloc(t) \/ (\E p \in Chunk : NullFree(t, p)) \/ AllocateUnmapped(t)
         \/ UNCHANGED vars
  PROVE  TypeOK'
<1>1. /\ pc \in [Thread -> PC] /\ offset \in Slot /\ poolFlags \in [Mgr -> BOOLEAN]
      /\ gm \in [Thread -> Mgr \cup {None}] /\ lp \in [Thread -> Mgr \cup {None}]
      /\ ended \in SUBSET Thread
  BY DEF IInv, TypeOK
<1>2. CASE ThreadInit(t)
  <2>1. lp' \in [Thread -> Mgr \cup {None}]
    BY <1>1, <1>2, IdleManagerType DEF ThreadInit
  <2>2. mtx' \in Thread \cup {None} /\ offset' \in Slot
    BY <1>1, <1>2, SizesAssumption, ModRange
    DEF ThreadInit, AllocLocalMemoryManager, NextOffset, Slot
  <2>3. pc' \in [Thread -> PC]
    BY <1>1, <1>2 DEF ThreadInit, Goto, PC
  <2> QED
    BY <1>2, <2>1, <2>2, <2>3 DEF ThreadInit, IInv, TypeOK, cvars
<1>3. CASE InitUnlock(t)
  <2>1. poolFlags' \in [Mgr -> BOOLEAN] /\ mtx' \in Thread \cup {None}
    BY <1>1, <1>3 DEF InitUnlock, TakeManager
  <2>2. pc' \in [Thread -> PC]
    BY <1>1, <1>3 DEF InitUnlock, Goto, PC
  <2> QED
    BY <1>3, <2>1, <2>2 DEF InitUnlock, IInv, TypeOK, cvars
<1>4. CASE ThreadTerm(t)
  <2>1. /\ gm' \in [Thread -> Mgr \cup {None}] /\ pc' \in [Thread -> PC]
        /\ ended' \in SUBSET Thread
    BY <1>1, <1>4 DEF ThreadTerm, Goto, PC
  <2> QED
    BY <1>4, <2>1 DEF ThreadTerm, IInv, TypeOK, gvars, cvars
<1>5. CASE NullMalloc(t) \/ (\E p \in Chunk : NullFree(t, p)) \/ AllocateUnmapped(t)
  <2>1. pc' \in [Thread -> PC] /\ UNCHANGED <<gvars, mtxs, lists, hdr, live, cvars, ended, lp, gm, idx, ptr>>
    BY <1>1, <1>5 DEF NullMalloc, NullFree, AllocateUnmapped, Goto, PC
  <2> QED
    BY <2>1 DEF IInv, TypeOK, gvars, cvars
<1>6. CASE MainTerm(t)
  BY <1>6 DEF MainTerm, Term, IInv, TypeOK, gvars, tvars
<1>7. CASE UNCHANGED vars
  BY <1>7 DEF IInv, TypeOK, vars, gvars, cvars, tvars
<1> QED
  BY <1>2, <1>3, <1>4, <1>5, <1>6, <1>7

LEMMA TypeStep == IInv /\ [Next]_vars => TypeOK'
<1> SUFFICES ASSUME IInv, [Next]_vars PROVE TypeOK'
  OBVIOUS
<1>1. CASE UNCHANGED vars \/ Over
  <2>1. PICK t \in Thread : TRUE
    BY FCMallocAssumption
  <2> QED
    BY <1>1, <2>1, ThreadType DEF Over
<1>2. ASSUME NEW t \in Thread, Call(t) PROVE TypeOK'
  BY <1>2, MallocSteps, MallocStepType, FreeType, GFreeType, ThreadType DEF Call
<1>3. ASSUME NEW t \in Thread, Step(t) PROVE TypeOK'
  BY <1>3, RefillType, FlushType, GFreeType, ReleaseType, ThreadType DEF Step
<1> QED
  BY <1>1, <1>2, <1>3 DEF Next

-----------------------------------------------------------------------------
(* Control is kept by every step.                                          *)

LEMMA TypeGivesCtlType ==
  /\ TypeOK => CtlType
  /\ TypeOK' => CtlType'
BY DEF TypeOK, CtlType

\* The managers stay where they are.
LEMMA SameOwners ==
  ASSUME Owners, UNCHANGED <<poolFlags, lp, gm>>,
         \A u \in Thread : pc[u] \in {"init_unlock", "gfree_unlock"} => pc'[u] = pc[u]
  PROVE  Owners'
BY DEF Owners, Holds

\* Deliver ends the call.
LEMMA DeliverControl ==
  ASSUME CtlType, NEW t \in Thread, NEW ls, NEW lv, NEW c, NEW p, Deliver(t, ls, lv, c, p)
  PROVE  /\ pc'[t] = "idle" /\ ptr'[t] = None
         /\ \A u \in Thread \ {t} : pc'[u] = pc[u] /\ idx'[u] = idx[u] /\ ptr'[u] = ptr[u]
BY DEF Deliver, Goto, CtlType

LEMMA MallocControl ==
  ASSUME IInv, TypeOK', NEW t \in Thread, NEW i \in Index, NEW p \in Chunk \cup {None},
         MallocStep(t, i, p)
  PROVE  Control'
<1>1. CtlType /\ CtlType' /\ Control
  BY TypeGivesCtlType DEF IInv, TypeOK, CtlType
<1>2. /\ UNCHANGED <<gvars, mtxs, cvars, lp, gm>>
      /\ pc[t] = "idle" /\ lp[t] \in Mgr
  BY <1>1 DEF MallocStep, CtlType
<1>3. /\ \A u \in Thread \ {t} : pc'[u] = pc[u] /\ idx'[u] = idx[u] /\ ptr'[u] = ptr[u]
      /\ \/ pc'[t] = "idle" /\ ptr'[t] = None
         \/ pc'[t] = "cmp_lock" /\ idx'[t] = i
  <2>1. CASE \E ls, lv, c : Deliver(t, ls, lv, c, p)
    BY <1>1, <2>1, DeliverControl
  <2>2. CASE idx' = [idx EXCEPT ![t] = i] /\ ptr' = [ptr EXCEPT ![t] = p] /\ Goto(t, "cmp_lock")
    BY <1>1, <2>2 DEF Goto, CtlType
  <2> QED
    BY <2>1, <2>2, Zenon DEF MallocStep, MallocLocal
<1>4. InHand'
  BY <1>1, <1>2, <1>3 DEF Control, InHand, Refill, Flushing, Releasing
<1>5. t # MainThread => fcore' = fcore
  BY <1>2 DEF cvars
<1>6. Mutexes' /\ Owners'
  BY <1>1, <1>2, <1>3, <1>4, <1>5, OwnStep
<1> QED
  BY <1>4, <1>6 DEF Control

LEMMA RefillControl ==
  ASSUME IInv, TypeOK', NEW t \in Thread,
         CmpRefill(t) \/ CmpUnlock(t) \/ Allocate(t) \/ AllocateNone(t)
  PROVE  Control'
<1>1. /\ CtlType /\ CtlType' /\ Control
      /\ pc[t] \in Refill /\ lp[t] \in Mgr /\ idx[t] \in Index /\ lp[t][1] \in Core
  BY TypeGivesCtlType, ListIdType
  DEF IInv, CmpRefill, CmpUnlock, Allocate, AllocateNone, Refill, Control, InHand
<1>2. UNCHANGED <<gvars, cvars, lp, gm>>
  BY DEF CmpRefill, CmpUnlock, Allocate, AllocateNone
<1>3. \A u \in Thread \ {t} : pc'[u] = pc[u] /\ idx'[u] = idx[u] /\ ptr'[u] = ptr[u]
  <2>1. CASE CmpRefill(t)
    BY <1>1, <2>1 DEF CmpRefill, Goto, CtlType
  <2>2. CASE CmpUnlock(t)
    BY <1>1, <2>2, DeliverControl DEF CmpUnlock, Goto, CtlType
  <2>3. CASE Allocate(t)
    BY <1>1, <2>3, DeliverControl DEF Allocate
  <2>4. CASE AllocateNone(t)
    BY <1>1, <2>4 DEF AllocateNone, Goto, CtlType
  <2> QED
    BY <2>1, <2>2, <2>3, <2>4
<1>4. CASE CmpRefill(t)
  <2>1. /\ pc[t] = "cmp_lock" /\ pc'[t] = "cmp_unlock" /\ idx'[t] = idx[t] /\ mtxs[lp[t][1]] = None
        /\ mtxs' = [mtxs EXCEPT ![lp[t][1]] = t]
    BY <1>1, <1>4 DEF CmpRefill, LockPool, Goto, CtlType
  <2>2. InHand'
    BY <1>1, <1>2, <1>3, <2>1 DEF Control, InHand, Refill, Flushing, Releasing
  <2>3. Mutexes'
    <3>1. \A u \in Thread : u # None
      BY FCMallocAssumption
    <3> QED
      BY <1>1, <1>2, <1>3, <2>1, <3>1 DEF Control, Mutexes, CtlType, gvars, cvars
  <2>4. Owners'
    <3>1. UNCHANGED <<poolFlags, lp, gm>> /\ Owners
      BY <1>1, <1>2 DEF gvars, Control
    <3>2. \A u \in Thread : pc[u] \in {"init_unlock", "gfree_unlock"} => pc'[u] = pc[u]
      BY <1>3, <2>1
    <3> QED
      BY <3>1, <3>2, SameOwners
  <2> QED
    BY <2>2, <2>3, <2>4 DEF Control
<1>5. CASE CmpUnlock(t)
  <2>1. /\ pc[t] = "cmp_unlock" /\ mtxs[lp[t][1]] = t
        /\ mtxs' = [mtxs EXCEPT ![lp[t][1]] = None]
        /\ \/ pc'[t] = "idle" /\ ptr'[t] = None
           \/ pc'[t] = "allocate" /\ idx'[t] = idx[t]
    BY <1>1, <1>5, DeliverControl DEF CmpUnlock, UnlockPool, Goto, CtlType, Control, Mutexes
  <2>2. InHand'
    BY <1>1, <1>2, <1>3, <2>1 DEF Control, InHand, Refill, Flushing, Releasing
  <2>3. Mutexes'
    BY <1>1, <1>2, <1>3, <2>1 DEF Control, Mutexes, CtlType, gvars, cvars
  <2>4. Owners'
    <3>1. UNCHANGED <<poolFlags, lp, gm>> /\ Owners
      BY <1>1, <1>2 DEF gvars, Control
    <3>2. \A u \in Thread : pc[u] \in {"init_unlock", "gfree_unlock"} => pc'[u] = pc[u]
      BY <1>3, <2>1
    <3> QED
      BY <3>1, <3>2, SameOwners
  <2> QED
    BY <2>2, <2>3, <2>4 DEF Control
<1>6. CASE Allocate(t) \/ AllocateNone(t)
  <2>1. pc[t] = "allocate" /\ pc'[t] = "idle" /\ ptr'[t] = None /\ UNCHANGED mtxs
    BY <1>1, <1>6, DeliverControl DEF Allocate, AllocateNone, Goto, CtlType
  <2>2. InHand'
    BY <1>1, <1>2, <1>3, <2>1 DEF Control, InHand, Refill, Flushing, Releasing
  <2>3. Mutexes' /\ Owners'
    BY <1>1, <1>2, <1>3, <2>1, <2>2, OwnStep DEF cvars
  <2> QED
    BY <2>2, <2>3 DEF Control
<1> QED
  BY <1>4, <1>5, <1>6

LEMMA FreeControl ==
  ASSUME IInv, TypeOK', NEW t \in Thread, NEW p \in Chunk, Free(t, p)
  PROVE  Control'
<1>1. /\ CtlType /\ CtlType' /\ Control /\ pc[t] = "idle" /\ lp[t] \in Mgr
      /\ UNCHANGED <<gvars, mtxs, lp, gm, idx, ptr>>
  BY TypeGivesCtlType DEF IInv, Free, CtlType
<1>2. /\ \A u \in Thread \ {t} : pc'[u] = pc[u]
      /\ pc'[t] \in {"idle", "flush_lock"}
      /\ pc'[t] = "flush_lock" => t = MainThread
      /\ t # MainThread => fcore' = fcore
  <2> DEFINE flush == FlushDue(t, hdr[p].index)
             first == NextCore(lp[t], 0)
  <2>1. flush => t = MainThread
    BY DEF FlushDue
  <2>2. /\ fcore' = IF flush /\ first < CoreN THEN first ELSE fcore
        /\ pc' = [pc EXCEPT ![t] = IF flush /\ first < CoreN THEN "flush_lock" ELSE "idle"]
    BY DEF Free, Goto
  <2>3. pc \in [Thread -> PC]
    BY <1>1 DEF CtlType
  <2> HIDE DEF flush, first
  <2>4. \A u \in Thread \ {t} : pc'[u] = pc[u]
    BY <2>2, <2>3
  <2>5. pc'[t] = IF flush /\ first < CoreN THEN "flush_lock" ELSE "idle"
    BY <2>2, <2>3, Zenon
  <2> QED
    BY <2>1, <2>2, <2>4, <2>5
<1>3. InHand'
  BY <1>1, <1>2 DEF Control, InHand, Refill, Flushing, Releasing
<1>4. Mutexes' /\ Owners'
  BY <1>1, <1>2, <1>3, OwnStep
<1> QED
  BY <1>3, <1>4 DEF Control

LEMMA FlushControl ==
  ASSUME IInv, TypeOK', NEW t \in Thread, Flush(t) \/ FlushUnlock(t)
  PROVE  Control'
<1>1. /\ CtlType /\ CtlType' /\ Control
      /\ pc[t] \in Flushing /\ t = MainThread /\ lp[t] \in Mgr
      /\ UNCHANGED <<gvars, lp, gm, idx, ptr>>
  BY TypeGivesCtlType DEF IInv, Flush, FlushUnlock, Control, InHand, Flushing
<1>2. \A u \in Thread \ {t} : pc'[u] = pc[u] /\ pc[u] \notin Flushing
  BY <1>1 DEF Flush, FlushUnlock, Goto, CtlType, Control, InHand
<1>3. CASE Flush(t)
  <2>1. /\ pc'[t] = "flush_unlock" /\ mtxs[fcore] = None /\ mtxs' = [mtxs EXCEPT ![fcore] = t]
        /\ UNCHANGED fcore
    BY <1>1, <1>3 DEF Flush, LockPool, Goto, CtlType, cvars
  <2>2. InHand'
    BY <1>1, <1>2, <2>1 DEF Control, InHand, Refill, Flushing, Releasing
  <2>3. Mutexes'
    <3>1. \A u \in Thread : u # None
      BY FCMallocAssumption
    <3> QED
      BY <1>1, <1>2, <2>1, <3>1 DEF Control, Mutexes, CtlType, gvars, Flushing
  <2>4. Owners'
    BY <1>1, <1>2, <2>1, SameOwners DEF Control, gvars, Flushing
  <2> QED
    BY <2>2, <2>3, <2>4 DEF Control
<1>4. CASE FlushUnlock(t)
  <2>1. /\ pc'[t] \in {"flush_lock", "idle"} /\ mtxs[fcore] = t
        /\ mtxs' = [mtxs EXCEPT ![fcore] = None]
    BY <1>1, <1>4 DEF FlushUnlock, UnlockPool, Goto, CtlType, Control, Mutexes
  <2>2. InHand'
    BY <1>1, <1>2, <2>1 DEF Control, InHand, Refill, Flushing, Releasing
  <2>3. Mutexes'
    BY <1>1, <1>2, <2>1 DEF Control, Mutexes, InHand, Refill, CtlType, gvars, Flushing
  <2>4. Owners'
    BY <1>1, <1>2, <2>1, SameOwners DEF Control, gvars, Flushing
  <2> QED
    BY <2>2, <2>3, <2>4 DEF Control
<1> QED
  BY <1>3, <1>4

\* Thread t has taken mtx_ and looked for a manager, m, that it now holds.
LEMMA SearchControl ==
  ASSUME IInv, TypeOK', NEW t \in Thread, NEW m \in Mgr \cup {None},
         m # None => ~poolFlags[m],
         mtx = None, mtx' = t, UNCHANGED <<poolFlags, mtxs, fcore>>,
         \A u \in Thread \ {t} : /\ pc'[u] = pc[u] /\ lp'[u] = lp[u] /\ gm'[u] = gm[u],
         Holds(t) = {}, Holds(t)' = {m} \ {None},
         pc'[t] \in {"init_unlock", "gfree_unlock"}
  PROVE  Mutexes' /\ Owners'
<1>1. CtlType /\ CtlType' /\ Control /\ \A u \in Thread : u # None
  BY TypeGivesCtlType, FCMallocAssumption DEF IInv
<1>2. Mutexes'
  BY <1>1 DEF Control, Mutexes
<1>3. Owners'
  <2>1. \A u \in Thread \ {t} : /\ m \notin Holds(u) \/ m = None
                                /\ Holds(u)' = Holds(u)
                                /\ pc[u] \notin {"init_unlock", "gfree_unlock"}
    BY <1>1 DEF Control, Mutexes, Owners, Holds
  <2> QED
    BY <1>1, <2>1 DEF Control, Owners
<1> QED
  BY <1>2, <1>3

\* Thread t marks the manager it has found and releases mtx_.
LEMMA TakeControl ==
  ASSUME IInv, TypeOK', NEW t \in Thread, NEW m \in Mgr \cup {None},
         TakeManager(m), Holds(t) = {m} \ {None}, UNCHANGED <<mtxs, fcore, lp, gm>>,
         \A u \in Thread \ {t} : pc'[u] = pc[u],
         pc[t] \in {"init_unlock", "gfree_unlock"}, pc'[t] \in {"idle", "rel_lock"}
  PROVE  Mutexes' /\ Owners'
<1>1. CtlType /\ CtlType' /\ Control /\ \A u \in Thread : u # None
  BY TypeGivesCtlType, FCMallocAssumption DEF IInv
<1>2. mtx = t /\ mtx' = None /\ \A n \in Mgr : poolFlags'[n] = (poolFlags[n] \/ n = m)
  BY <1>1 DEF Control, Mutexes, TakeManager
<1>3. Mutexes'
  BY <1>1, <1>2 DEF Control, Mutexes
<1>4. Owners'
  BY <1>1, <1>2 DEF Control, Owners, Holds
<1> QED
  BY <1>3, <1>4

LEMMA GFreeControl ==
  ASSUME IInv, TypeOK', NEW t \in Thread, (\E p \in Chunk : GFree(t, p)) \/ GFreeUnlock(t)
  PROVE  Control'
<1>1. CtlType /\ CtlType' /\ Control
  BY TypeGivesCtlType DEF IInv
<1>2. ASSUME NEW p \in Chunk, GFree(t, p) PROVE Control'
  <2> DEFINE m == IdleManager(hdr[p].core)
  <2>1. m \in Mgr /\ m # None /\ ~poolFlags[m]
    BY <1>1, <1>2, IInvFacts, IdleManagerType DEF GFree, Header, CtlType
  <2>2. /\ pc[t] = "idle" /\ lp[t] = None /\ gm[t] = None
        /\ pc' = [pc EXCEPT ![t] = "gfree_unlock"] /\ gm' = [gm EXCEPT ![t] = m]
        /\ ptr' = [ptr EXCEPT ![t] = p] /\ UNCHANGED <<poolFlags, mtxs, fcore, lp, idx>>
        /\ mtx = None /\ mtx' = t
    BY <1>1, <1>2 DEF GFree, AllocLocalMemoryManager, Goto, Control, InHand, Releasing, cvars
  <2> HIDE DEF m
  <2>3. InHand'
    BY <1>1, <2>1, <2>2 DEF Control, InHand, Refill, Flushing, Releasing, CtlType
  <2>4. Holds(t) = {} /\ Holds(t)' = {m} \ {None}
    BY <1>1, <2>1, <2>2 DEF Holds, CtlType
  <2>5. \A u \in Thread \ {t} : pc'[u] = pc[u] /\ lp'[u] = lp[u] /\ gm'[u] = gm[u]
    BY <1>1, <2>2 DEF CtlType
  <2>6. pc'[t] = "gfree_unlock"
    BY <1>1, <2>2 DEF CtlType
  <2>7. Mutexes' /\ Owners'
    BY <2>1, <2>2, <2>4, <2>5, <2>6, SearchControl
  <2> QED
    BY <2>3, <2>7 DEF Control
<1>3. CASE GFreeUnlock(t)
  <2>1. /\ pc[t] = "gfree_unlock" /\ gm[t] \in Mgr /\ lp[t] = None
        /\ pc' = [pc EXCEPT ![t] = "rel_lock"] /\ ptr' = [ptr EXCEPT ![t] = None]
        /\ UNCHANGED <<mtxs, fcore, lp, gm, idx>> /\ TakeManager(gm[t])
    BY <1>1, <1>3 DEF GFreeUnlock, Goto, Control, InHand, cvars
  <2>2. InHand'
    BY <1>1, <2>1 DEF Control, InHand, Refill, Flushing, Releasing, CtlType
  <2>3. Holds(t) = {gm[t]} \ {None}
    BY <2>1 DEF Holds
  <2>4. (\A u \in Thread \ {t} : pc'[u] = pc[u]) /\ pc'[t] = "rel_lock"
    BY <1>1, <2>1 DEF CtlType
  <2>5. Mutexes' /\ Owners'
    BY <2>1, <2>3, <2>4, TakeControl
  <2> QED
    BY <2>2, <2>5 DEF Control
<1> QED
  BY <1>2, <1>3

LEMMA ThreadControl ==
  ASSUME IInv, TypeOK', NEW t \in Thread, ThreadInit(t) \/ InitUnlock(t)
  PROVE  Control'
<1>1. CtlType /\ CtlType' /\ Control
  BY TypeGivesCtlType DEF IInv
<1>2. CASE ThreadInit(t)
  <2>1. PICK core \in Core : lp' = [lp EXCEPT ![t] = IdleManager(core)]
    BY <1>2 DEF ThreadInit
  <2> DEFINE m == IdleManager(core)
  <2>2. m \in Mgr \cup {None} /\ (m # None => ~poolFlags[m])
    BY <1>1, IdleManagerType DEF CtlType
  <2>3. /\ pc[t] = "new" /\ lp[t] = None /\ gm[t] = None
        /\ pc' = [pc EXCEPT ![t] = "init_unlock"]
        /\ UNCHANGED <<poolFlags, mtxs, fcore, gm, idx, ptr>> /\ mtx = None /\ mtx' = t
    BY <1>1, <1>2 DEF ThreadInit, AllocLocalMemoryManager, Goto, Control, InHand, Releasing, cvars
  <2> HIDE DEF m
  <2>4. lp' = [lp EXCEPT ![t] = m]
    BY <2>1 DEF m
  <2>5. InHand'
    BY <1>1, <2>2, <2>3, <2>4 DEF Control, InHand, Refill, Flushing, Releasing, CtlType
  <2>6. Holds(t) = {} /\ Holds(t)' = {m} \ {None}
    BY <1>1, <2>3, <2>4 DEF Holds, CtlType
  <2>7. \A u \in Thread \ {t} : pc'[u] = pc[u] /\ lp'[u] = lp[u] /\ gm'[u] = gm[u]
    BY <1>1, <2>3, <2>4 DEF CtlType
  <2>8. pc'[t] = "init_unlock"
    BY <1>1, <2>3 DEF CtlType
  <2>9. Mutexes' /\ Owners'
    BY <2>2, <2>3, <2>6, <2>7, <2>8, SearchControl
  <2> QED
    BY <2>5, <2>9 DEF Control
<1>3. CASE InitUnlock(t)
  <2>1. /\ pc[t] = "init_unlock" /\ gm[t] = None /\ lp[t] \in Mgr \cup {None}
        /\ pc' = [pc EXCEPT ![t] = "idle"]
        /\ UNCHANGED <<mtxs, fcore, lp, gm, idx, ptr>> /\ TakeManager(lp[t])
    BY <1>1, <1>3 DEF InitUnlock, Goto, Control, InHand, Releasing, CtlType, cvars
  <2>2. InHand'
    BY <1>1, <2>1 DEF Control, InHand, Refill, Flushing, Releasing, CtlType
  <2>3. Holds(t) = {lp[t]} \ {None}
    BY <2>1 DEF Holds
  <2>4. (\A u \in Thread \ {t} : pc'[u] = pc[u]) /\ pc'[t] = "idle"
    BY <1>1, <2>1 DEF CtlType
  <2>5. Mutexes' /\ Owners'
    BY <2>1, <2>3, <2>4, TakeControl
  <2> QED
    BY <2>2, <2>5 DEF Control
<1> QED
  BY <1>2, <1>3

LEMMA TermControl ==
  ASSUME IInv, TypeOK', NEW t \in Thread,
         ThreadTerm(t) \/ FreeLocalMemoryManager(t) \/ ReleaseUnlock(t)
         \/ MainTerm(t) \/ NullMalloc(t) \/ (\E p \in Chunk : NullFree(t, p))
         \/ AllocateUnmapped(t) \/ UNCHANGED vars
  PROVE  Control'
<1>1. CtlType /\ CtlType' /\ Control /\ \A u \in Thread : u # None
  BY TypeGivesCtlType, FCMallocAssumption DEF IInv
<1>2. CASE ThreadTerm(t)
  <2>1. /\ pc[t] = "idle" /\ gm' = [gm EXCEPT ![t] = lp[t]] /\ lp[t] \in Mgr \cup {None}
        /\ pc' = [pc EXCEPT ![t] = IF lp[t] = None THEN "idle" ELSE "rel_lock"]
        /\ UNCHANGED <<poolFlags, mtx, mtxs, fcore, lp, idx, ptr>>
    BY <1>1, <1>2 DEF ThreadTerm, Goto, CtlType, gvars, cvars
  <2>2. gm[t] = None
    BY <1>1, <2>1 DEF Control, InHand, Releasing
  <2>3. InHand'
    BY <1>1, <2>1, <2>2 DEF Control, InHand, Refill, Flushing, Releasing, CtlType
  <2>4. Mutexes'
    BY <1>1, <2>1 DEF Control, Mutexes, CtlType
  <2>5. \A u \in Thread : Holds(u)' = Holds(u)
    BY <1>1, <2>1, <2>2 DEF Holds, CtlType
  <2>6. Owners'
    BY <1>1, <2>1, <2>5 DEF Control, Owners, CtlType
  <2> QED
    BY <2>3, <2>4, <2>6 DEF Control
<1>3. CASE FreeLocalMemoryManager(t)
  <2>1. /\ pc[t] = "rel_lock" /\ mtx = None /\ mtx' = t
        /\ pc' = [pc EXCEPT ![t] = "rel_unlock"]
        /\ UNCHANGED <<poolFlags, mtxs, fcore, lp, gm, idx, ptr>>
    BY <1>3 DEF FreeLocalMemoryManager, Goto, cvars
  <2>2. InHand'
    BY <1>1, <2>1 DEF Control, InHand, Refill, Flushing, Releasing, CtlType
  <2>3. Mutexes'
    BY <1>1, <2>1 DEF Control, Mutexes, CtlType
  <2>4. Owners'
    BY <1>1, <2>1 DEF Control, Owners, Holds, CtlType
  <2> QED
    BY <2>2, <2>3, <2>4 DEF Control
<1>4. CASE ReleaseUnlock(t)
  <2>1. /\ pc[t] = "rel_unlock" /\ mtx' = None /\ pc' = [pc EXCEPT ![t] = "idle"]
        /\ poolFlags' = [poolFlags EXCEPT ![gm[t]] = FALSE]
        /\ gm' = [gm EXCEPT ![t] = None] /\ lp' = [lp EXCEPT ![t] = None]
        /\ UNCHANGED <<mtxs, fcore, idx, ptr>> /\ mtx = t /\ gm[t] \in Mgr /\ gm[t] # None
    BY <1>1, <1>4, FCMallocAssumption
    DEF ReleaseUnlock, Goto, cvars, Control, Mutexes, InHand, Releasing
  <2>2. InHand'
    BY <1>1, <2>1 DEF Control, InHand, Refill, Flushing, Releasing, CtlType
  <2>3. Mutexes'
    BY <1>1, <2>1 DEF Control, Mutexes, InHand, Refill, Releasing, CtlType
  <2>4. /\ Holds(t)' = {} /\ gm[t] \in Holds(t)
        /\ \A u \in Thread \ {t} : Holds(u)' = Holds(u) /\ gm[t] \notin Holds(u)
    BY <1>1, <2>1 DEF Control, Owners, Holds, CtlType
  <2>5. Owners'
    BY <1>1, <2>1, <2>4 DEF Control, Owners, CtlType
  <2> QED
    BY <2>2, <2>3, <2>5 DEF Control
<1>5. CASE NullMalloc(t) \/ \E p \in Chunk : NullFree(t, p)
  <2>1. /\ pc[t] = "idle" /\ pc' = [pc EXCEPT ![t] = "fault"]
        /\ UNCHANGED <<poolFlags, mtx, mtxs, fcore, lp, gm, idx, ptr>>
    BY <1>5 DEF NullMalloc, NullFree, Goto, gvars, cvars
  <2>2. InHand'
    BY <1>1, <2>1 DEF Control, InHand, Refill, Flushing, Releasing, CtlType
  <2>3. Mutexes' /\ Owners'
    BY <1>1, <2>1 DEF Control, Mutexes, Owners, Holds, CtlType
  <2> QED
    BY <2>2, <2>3 DEF Control
<1>6. CASE AllocateUnmapped(t)
  <2>1. /\ pc[t] = "allocate" /\ pc' = [pc EXCEPT ![t] = "unmapped"]
        /\ UNCHANGED <<poolFlags, mtx, mtxs, fcore, lp, gm, idx, ptr>>
    BY <1>6 DEF AllocateUnmapped, Goto, gvars, cvars
  <2>2. InHand'
    BY <1>1, <2>1 DEF Control, InHand, Refill, Flushing, Releasing, CtlType
  <2>3. Mutexes' /\ Owners'
    BY <1>1, <2>1 DEF Control, Mutexes, Owners, Holds, CtlType
  <2> QED
    BY <2>2, <2>3 DEF Control
<1>7. CASE MainTerm(t) \/ UNCHANGED vars
  <2>1. UNCHANGED <<gvars, mtxs, fcore, tvars>>
    BY <1>7 DEF MainTerm, vars, cvars
  <2> QED
    BY <1>1, <2>1 DEF Control, InHand, Mutexes, Owners, Holds, gvars, tvars
<1> QED
  BY <1>2, <1>3, <1>4, <1>5, <1>6, <1>7

LEMMA ControlStep == IInv /\ [Next]_vars => Control'
<1> SUFFICES ASSUME IInv, [Next]_vars PROVE Control'
  OBVIOUS
<1>1. TypeOK'
  BY TypeStep
<1>2. CASE UNCHANGED vars \/ Over
  <2>1. PICK t \in Thread : TRUE
    BY FCMallocAssumption
  <2> QED
    BY <1>1, <1>2, <2>1, TermControl DEF Over
<1>3. ASSUME NEW t \in Thread, Call(t) PROVE Control'
  BY <1>1, <1>3, MallocSteps, MallocControl, FreeControl, GFreeControl, ThreadControl,
     TermControl DEF Call
<1>4. ASSUME NEW t \in Thread, Step(t) PROVE Control'
  BY <1>1, <1>4, RefillControl, FlushControl, GFreeControl, ThreadControl, TermControl DEF Step
<1> QED
  BY <1>2, <1>3, <1>4 DEF Next

-----------------------------------------------------------------------------
(* Chunks are kept with their core and class, and have a header from the   *)
(* moment they leave fresh memory.                                         *)

LEMMA AtHomeCarved ==
  ASSUME NEW ls \in Lists(Chunk), NEW hh, AtHome(ls, hh),
         NEW l \in ListId, NEW i \in Index, NEW c \in ls[l][i]
  PROVE  c \in Chunk /\ hh[c] # None
<1>1. c \in Chunk /\ Home(l) \in Core
  BY ListIdType DEF Lists, ListId, MallocLists, FreeLists, PoolLists
<1>2. [core |-> Home(l), index |-> i] \in Header
  BY <1>1 DEF Header
<1> QED
  BY <1>1, <1>2, FCMallocAssumption DEF AtHome, Header

LEMMA LocalFreeHome ==
  ASSUME NEW ls \in Lists(Chunk), NEW m \in Mgr, NEW p \in Chunk, hdr[p] \in Header,
         NEW hh, AtHome(ls, hh), hh[p] = hdr[p]
  PROVE  AtHome(LocalFree(ls, m, p), hh)
<1>1. Home(FreeList(m, hdr[p].core)) = hdr[p].core
  BY ListIdType DEF Header
<1>2. hdr[p] = [core |-> hdr[p].core, index |-> hdr[p].index]
  BY DEF Header
<1> DEFINE S == {p}
<1>3. S \in SUBSET Chunk /\ \A c \in S : hh[c] = hdr[p]
  OBVIOUS
<1>4. LocalFree(ls, m, p) = Push(ls, FreeList(m, hdr[p].core), hdr[p].index, S)
  BY DEF LocalFree
<1>5. FreeList(m, hdr[p].core) \in ListId /\ hdr[p].index \in Index
  BY ListIdType DEF Header
<1> HIDE DEF S
<1> QED
  BY <1>1, <1>2, <1>3, <1>4, <1>5, PushHome

LEMMA DeliverHome ==
  ASSUME NEW t \in Thread, lp[t] \in Mgr, NEW ls \in Lists(Chunk), NEW lv \in [Chunk -> Nat],
         NEW c \in Chunk, NEW p \in Chunk \cup {None}, p # None => hdr[p] \in Header /\ hdr'[p] = hdr[p],
         AtHome(ls, hdr'), hdr'[c] # None,
         ptr \in [Thread -> Chunk \cup {None}],
         \A q \in Chunk : lv[q] > 0 => hdr'[q] # None,
         \A q \in InCall : hdr'[q] # None,
         Deliver(t, ls, lv, c, p)
  PROVE  HomeAffinity' /\ Known'
<1>1. AtHome(lists', hdr')
  BY LocalFreeHome DEF Deliver
<1>2. Held' \subseteq {q \in Chunk : lv[q] > 0} \cup {c}
  BY DEF Deliver, HandOut, Held
<1>3. InCall' \subseteq InCall
  BY DEF Deliver, InCall
<1> QED
  BY <1>1, <1>2, <1>3 DEF HomeAffinity, AtHome, Known, Held

LEMMA MallocHome ==
  ASSUME IInv, NEW t \in Thread, NEW i \in Index, NEW p \in Chunk \cup {None},
         MallocStep(t, i, p)
  PROVE  HomeAffinity' /\ Known'
<1> DEFINE m  == lp[t]
           ml == MallocList(m)
           fl == FreeList(m, m[1])
           lv == TakeBack(live, p)
<1>1. /\ m \in Mgr /\ lists \in Lists(Chunk) /\ AtHome(lists, hdr) /\ hdr' = hdr
      /\ p # None => p \in Held /\ hdr[p] \in Header
      /\ lv \in [Chunk -> Nat] /\ ptr \in [Thread -> Chunk \cup {None}]
      /\ \A q \in Held \cup InCall : hdr[q] # None
  BY IInvFacts, TakeBackType DEF MallocStep, IInv, TypeOK, HomeAffinity, AtHome, Known
<1>2. ml \in ListId /\ fl \in ListId /\ ml # fl /\ Home(ml) = m[1] /\ Home(fl) = m[1]
  BY <1>1, OwnLists, ListIdType
<1>3. \A q \in Chunk : lv[q] > 0 => q \in Held
  BY <1>1 DEF TakeBack, Held, IInv, TypeOK
<1>4. \A l \in {ml, fl} : \A c \in lists[l][i] : c \in Chunk /\ hdr[c] # None
  BY <1>1, <1>2, AtHomeCarved
<1>5. ASSUME NEW c \in lists[ml][i], Deliver(t, Pop(lists, ml, i, c), lv, c, p)
      PROVE  HomeAffinity' /\ Known'
  <2>1. Pop(lists, ml, i, c) \in Lists(Chunk) /\ AtHome(Pop(lists, ml, i, c), hdr)
    BY <1>1, <1>2, PopLists, PopHome
  <2> HIDE DEF m, ml, fl, lv
  <2> QED
    BY <1>1, <1>2, <1>3, <1>4, <1>5, <2>1, DeliverHome DEF m
<1>6. ASSUME NEW c \in lists[fl][i],
             Deliver(t, Pop(Swap(lists, ml, fl, i), ml, i, c), lv, c, p)
      PROVE  HomeAffinity' /\ Known'
  <2> DEFINE ks == Swap(lists, ml, fl, i)
  <2>1. ks \in Lists(Chunk) /\ AtHome(ks, hdr)
    BY <1>1, <1>2, SwapLists, SwapHome
  <2> HIDE DEF ks
  <2>2. Pop(ks, ml, i, c) \in Lists(Chunk) /\ AtHome(Pop(ks, ml, i, c), hdr)
    BY <1>2, <2>1, PopLists, PopHome
  <2>3. Deliver(t, Pop(ks, ml, i, c), lv, c, p)
    BY <1>6 DEF ks
  <2> HIDE DEF m, ml, fl, lv
  <2> QED
    BY <1>1, <1>2, <1>3, <1>4, <2>2, <2>3, DeliverHome DEF m
<1>7. ASSUME ptr' = [ptr EXCEPT ![t] = p], live' = lv, UNCHANGED lists
      PROVE  HomeAffinity' /\ Known'
  <2>1. HomeAffinity'
    BY <1>1, <1>7 DEF HomeAffinity, AtHome
  <2>2. InCall' \subseteq InCall \cup ({p} \ {None})
    BY <1>1, <1>7 DEF InCall
  <2>3. Held' \subseteq Held
    BY <1>3, <1>7 DEF Held
  <2> QED
    BY <1>1, <2>1, <2>2, <2>3 DEF Known
<1> QED
  BY <1>5, <1>6, <1>7, Zenon DEF MallocStep, MallocLocal

LEMMA RefillHome ==
  ASSUME IInv, NEW t \in Thread,
         CmpRefill(t) \/ CmpUnlock(t) \/ Allocate(t) \/ AllocateNone(t)
  PROVE  HomeAffinity' /\ Known'
<1> DEFINE m  == lp[t]
           ml == MallocList(m)
           pl == PoolList(m[1])
           i  == idx[t]
           p  == ptr[t]
<1>1. /\ m \in Mgr /\ i \in Index /\ lists \in Lists(Chunk) /\ AtHome(lists, hdr)
      /\ live \in [Chunk -> Nat] /\ ptr \in [Thread -> Chunk \cup {None}]
      /\ p \in Chunk \cup {None} /\ (p # None => p \in InCall /\ hdr[p] \in Header)
      /\ \A q \in Held \cup InCall : hdr[q] # None
      /\ \A q \in Held \cup InCall : q \in Chunk
      /\ \A q \in Chunk : live[q] > 0 => q \in Held
  <2>1. pc[t] \in Refill
    BY DEF CmpRefill, CmpUnlock, Allocate, AllocateNone, Refill
  <2>2. m \in Mgr /\ i \in Index
    BY <2>1 DEF IInv, Control, InHand
  <2>3. p # None => p \in InCall
    BY DEF InCall
  <2> QED
    BY <2>2, <2>3, IInvFacts DEF IInv, TypeOK, HomeAffinity, AtHome, Known, Held
<1>2. /\ ml \in ListId /\ pl \in ListId /\ ml # pl
      /\ Home(ml) = m[1] /\ Home(pl) = m[1] /\ m[1] \in Core
  BY <1>1, OwnLists, ListIdType
<1> HIDE DEF m, ml, pl, i, p
<1>3. CASE CmpRefill(t)
  <2>1. PICK S \in SUBSET lists[pl][i] : lists' = MoveChunks(lists, pl, ml, i, S)
    BY <1>3 DEF CmpRefill, m, ml, pl, i
  <2>2. AtHome(lists', hdr)
    BY <1>1, <1>2, <2>1, MoveHome
  <2>3. UNCHANGED <<hdr, live, ptr>>
    BY <1>3 DEF CmpRefill
  <2> QED
    BY <1>1, <2>2, <2>3 DEF HomeAffinity, AtHome, Known, Held, InCall
<1>4. CASE CmpUnlock(t)
  <2>1. ASSUME NEW c \in lists[ml][i], Deliver(t, Pop(lists, ml, i, c), live, c, p)
        PROVE  HomeAffinity' /\ Known'
    <3>1. Pop(lists, ml, i, c) \in Lists(Chunk) /\ AtHome(Pop(lists, ml, i, c), hdr)
      BY <1>1, <1>2, PopLists, PopHome
    <3>2. c \in Chunk /\ hdr[c] # None
      BY <1>1, <1>2, AtHomeCarved
    <3>3. hdr' = hdr
      BY <1>4 DEF CmpUnlock
    <3> QED
      BY <1>1, <2>1, <3>1, <3>2, <3>3, DeliverHome DEF m
  <2>2. CASE UNCHANGED <<lists, hdr, live, ptr>>
    BY <1>1, <2>2 DEF HomeAffinity, AtHome, Known, Held, InCall
  <2> QED
    BY <1>4, <2>1, <2>2 DEF CmpUnlock, m, ml, i, p
<1>5. CASE Allocate(t)
  <2>1. PICK S \in SUBSET Fresh :
          /\ hdr' = [c \in Chunk |-> IF c \in S THEN [core |-> m[1], index |-> i] ELSE hdr[c]]
          /\ \E c \in S : Deliver(t, Pop(Push(lists, ml, i, S), ml, i, c), live, c, p)
    BY <1>5 DEF Allocate, m, ml, i, p
  <2>2. PICK c \in S : Deliver(t, Pop(Push(lists, ml, i, S), ml, i, c), live, c, p)
    BY <2>1
  <2>3. /\ S \in SUBSET Chunk /\ c \in Chunk
        /\ \A q \in S : hdr'[q] = [core |-> m[1], index |-> i]
        /\ \A q \in Chunk : hdr[q] # None => hdr'[q] = hdr[q]
    BY <2>1 DEF Fresh
  <2>4. [core |-> m[1], index |-> i] # None
    BY <1>1, <1>2, FCMallocAssumption
  <2>5. AtHome(lists, hdr')
    BY <1>1, <2>3, AtHomeCarved DEF AtHome
  <2>6. Push(lists, ml, i, S) \in Lists(Chunk) /\ AtHome(Push(lists, ml, i, S), hdr')
    BY <1>1, <1>2, <2>3, <2>5, PushLists, PushHome
  <2> DEFINE ks == Push(lists, ml, i, S)
  <2> HIDE DEF ks
  <2>7. Pop(ks, ml, i, c) \in Lists(Chunk) /\ AtHome(Pop(ks, ml, i, c), hdr')
    BY <1>1, <1>2, <2>6, PopLists, PopHome DEF ks
  <2>8. /\ p # None => hdr'[p] = hdr[p]
        /\ hdr'[c] # None
        /\ \A q \in Held \cup InCall : hdr'[q] # None
    BY <1>1, <2>3, <2>4
  <2>9. Deliver(t, Pop(ks, ml, i, c), live, c, p)
    BY <2>2 DEF ks
  <2> QED
    BY <1>1, <2>3, <2>7, <2>8, <2>9, DeliverHome DEF m
<1>6. CASE AllocateNone(t)
  <2>1. /\ UNCHANGED <<lists, hdr>> /\ ptr' = [ptr EXCEPT ![t] = None]
        /\ live' = IF p = None THEN live ELSE HandOut(live, p)
    BY <1>6 DEF AllocateNone, p
  <2>2. Held' \subseteq Held \cup ({p} \ {None})
    BY <1>1, <2>1 DEF HandOut, Held
  <2>3. InCall' \subseteq InCall
    BY <2>1, <1>1 DEF InCall
  <2> QED
    BY <1>1, <2>1, <2>2, <2>3 DEF HomeAffinity, AtHome, Known
<1> QED
  BY <1>3, <1>4, <1>5, <1>6

LEMMA FreeHome ==
  ASSUME IInv, NEW t \in Thread,
         (\E p \in Chunk : Free(t, p)) \/ (\E p \in Chunk : GFree(t, p)) \/ GFreeUnlock(t)
  PROVE  HomeAffinity' /\ Known'
<1>1. /\ lists \in Lists(Chunk) /\ AtHome(lists, hdr) /\ live \in [Chunk -> Nat]
      /\ ptr \in [Thread -> Chunk \cup {None}] /\ hdr' = hdr
      /\ \A q \in Held \cup InCall : q \in Chunk /\ hdr[q] \in Header /\ hdr[q] # None
  BY IInvFacts
  DEF IInv, TypeOK, HomeAffinity, AtHome, Known, Free, GFree, GFreeUnlock
<1>2. ASSUME NEW p \in Chunk \cap Held, live' = TakeBack(live, p)
      PROVE  Held' \subseteq Held
  BY <1>1, <1>2 DEF TakeBack, Held
<1>3. ASSUME NEW p \in Chunk, Free(t, p) PROVE HomeAffinity' /\ Known'
  <2>1. AtHome(lists', hdr)
    BY <1>1, <1>3, IInvFacts, LocalFreeHome DEF Free
  <2> QED
    BY <1>1, <1>2, <1>3, <2>1 DEF Free, HomeAffinity, AtHome, Known, InCall
<1>4. ASSUME NEW p \in Chunk, GFree(t, p) PROVE HomeAffinity' /\ Known'
  <2>1. InCall' \subseteq InCall \cup {p} /\ p \in Held
    BY <1>1, <1>4 DEF GFree, InCall
  <2> QED
    BY <1>1, <1>2, <1>4, <2>1 DEF GFree, HomeAffinity, AtHome, Known
<1>5. CASE GFreeUnlock(t)
  <2>1. gm[t] \in Mgr /\ ptr[t] \in InCall
    BY <1>5, FCMallocAssumption DEF GFreeUnlock, IInv, Control, InHand, InCall
  <2>2. AtHome(lists', hdr)
    BY <1>1, <1>5, <2>1, LocalFreeHome DEF GFreeUnlock
  <2>3. InCall' \subseteq InCall
    BY <1>1, <1>5 DEF GFreeUnlock, InCall
  <2> QED
    BY <1>1, <1>5, <2>2, <2>3 DEF GFreeUnlock, HomeAffinity, AtHome, Known, Held
<1> QED
  BY <1>3, <1>4, <1>5

LEMMA FlushHome ==
  ASSUME IInv, NEW t \in Thread, Flush(t)
  PROVE  HomeAffinity' /\ Known'
<1>1. /\ lp[t] \in Mgr /\ lists \in Lists(Chunk) /\ AtHome(lists, hdr) /\ fcore \in Core
  BY IInvFacts DEF Flush, IInv, TypeOK, Control, InHand, Flushing, HomeAffinity, AtHome
<1> DEFINE a == FreeList(lp[t], fcore)
           b == PoolList(fcore)
<1>2. a \in ListId /\ b \in ListId /\ a # b /\ Home(a) = Home(b)
  BY <1>1, ListIdType, ListIdDistinct
<1>3. lists' = Join(lists, a, b) /\ UNCHANGED <<hdr, live, ptr>>
  BY DEF Flush
<1> HIDE DEF a, b
<1>4. AtHome(lists', hdr)
  BY <1>1, <1>2, <1>3, JoinHome
<1> QED
  BY <1>3, <1>4 DEF IInv, HomeAffinity, AtHome, Known, Held, InCall

LEMMA HandOverHome ==
  ASSUME IInv, NEW t \in Thread, FreeLocalMemoryManager(t)
  PROVE  HomeAffinity' /\ Known'
<1>1. /\ gm[t] \in Mgr /\ lists \in Lists(Chunk) /\ AtHome(lists, hdr)
      /\ lists' = HandOver(gm[t]) /\ UNCHANGED <<hdr, live, ptr>>
  BY IInvFacts
  DEF FreeLocalMemoryManager, IInv, Control, InHand, Releasing, HomeAffinity, AtHome
<1>2. ASSUME NEW l \in ListId, NEW i \in Index, NEW c \in lists'[l][i]
      PROVE  hdr[c] = [core |-> Home(l), index |-> i]
  <2>1. CASE c \in lists[l][i]
    BY <1>1, <2>1 DEF AtHome
  <2>2. ASSUME NEW k \in Core, Heirs(gm[t], k) # {}, l = MallocList(Heir(gm[t], k)),
               c \in lists[FreeList(gm[t], k)][i]
        PROVE  hdr[c] = [core |-> Home(l), index |-> i]
    <3>1. Home(l) = k /\ Home(FreeList(gm[t], k)) = k /\ FreeList(gm[t], k) \in ListId
      BY <1>1, <2>2, HeirType, ListIdType
    <3> QED
      BY <1>1, <2>2, <3>1 DEF AtHome
  <2> QED
    BY <1>1, <2>1, <2>2, HandOverLists
<1> QED
  BY <1>1, <1>2 DEF IInv, HomeAffinity, Known, Held, InCall

LEMMA HomeStep == IInv /\ [Next]_vars => HomeAffinity' /\ Known'
<1> SUFFICES ASSUME IInv, [Next]_vars PROVE HomeAffinity' /\ Known'
  OBVIOUS
<1>1. CASE UNCHANGED <<lists, hdr, live, ptr>>
  BY <1>1 DEF IInv, HomeAffinity, Known, Held, InCall
<1>2. CASE UNCHANGED vars \/ Over
  BY <1>1, <1>2 DEF Over, vars, tvars
<1>3. ASSUME NEW t \in Thread, Call(t) PROVE HomeAffinity' /\ Known'
  <2>1. CASE \/ ThreadInit(t) \/ ThreadTerm(t) \/ MainTerm(t)
             \/ NullMalloc(t) \/ \E p \in Chunk : NullFree(t, p)
    BY <1>1, <2>1 DEF ThreadInit, ThreadTerm, MainTerm, NullMalloc, NullFree, tvars
  <2> QED
    BY <1>3, <2>1, MallocSteps, MallocHome, FreeHome DEF Call
<1>4. ASSUME NEW t \in Thread, Step(t) PROVE HomeAffinity' /\ Known'
  <2>1. CASE InitUnlock(t) \/ FlushUnlock(t) \/ ReleaseUnlock(t) \/ AllocateUnmapped(t)
    BY <1>1, <2>1 DEF InitUnlock, FlushUnlock, ReleaseUnlock, AllocateUnmapped
  <2> QED
    BY <1>4, <2>1, RefillHome, FlushHome, FreeHome, HandOverHome DEF Step
<1> QED
  BY <1>2, <1>3, <1>4 DEF Next

-----------------------------------------------------------------------------
(* The theorems.                                                           *)

LEMMA IInvInit == Init => IInv
<1> SUFFICES ASSUME Init PROVE IInv
  OBVIOUS
<1>1. TypeOK
  <2>1. 0 \in Core /\ PoolN - 1 \in Slot
    BY SizesAssumption DEF Core, Slot
  <2>2. \A i \in Index : NPerSize[i] \in Nat
    BY FCMallocAssumption
  <2> QED
    BY <2>1, <2>2 DEF Init, TypeOK, PC
<1>2. Control /\ Known
  BY ControlInit
<1>3. HomeAffinity
  BY DEF Init, HomeAffinity
<1> QED
  BY <1>1, <1>2, <1>3 DEF IInv

LEMMA IInvAlways == Spec => []IInv
<1>1. IInv /\ [Next]_vars => IInv'
  BY TypeStep, ControlStep, HomeStep DEF IInv
<1> QED
  BY <1>1, IInvInit, PTL DEF Spec

\* Every variable keeps its type, and the main thread's counts of frees stay
\* within the batch sizes, whatever the threads do.
THEOREM TypeCorrect == Spec => []TypeOK
<1>1. IInv => TypeOK
  BY DEF IInv
<1> QED
  BY <1>1, IInvAlways, PTL

\* malloc never serves a block of another core's memory or of another size
\* class, for any number of cores, managers, threads and chunks: swap, refill,
\* flush and the hand-over of FreeLocalMemoryManager keep every chunk on lists
\* of its own core and class.
THEOREM AlwaysHome == Spec => []HomeAffinity
<1>1. IInv => HomeAffinity
  BY DEF IInv
<1> QED
  BY <1>1, IInvAlways, PTL

\* No two threads ever have access to the same free list, so that
\* LocalMemoryManager needs no lock and the steps of the model are coarse
\* enough and no coarser than the code allows.
THEOREM NoRace == Spec => []Exclusive
<1>1. IInv => Exclusive
  <2> SUFFICES ASSUME IInv, NEW t \in Thread, NEW u \in Thread, t # u,
                      NEW l \in Touches(t) \cap Touches(u)
               PROVE  FALSE
    BY DEF Exclusive
  <2> DEFINE Own(v)  == \E m \in Holds(v) : l = MallocList(m) \/ \E k \in Core : l = FreeList(m, k)
             Pool(v) == \/ pc[v] = "cmp_unlock" /\ l = PoolList(lp[v][1])
                        \/ pc[v] = "flush_unlock" /\ l = PoolList(fcore)
             Rel(v)  == pc[v] = "rel_unlock" /\ \E m \in Mgr : l = MallocList(m) /\ ~poolFlags[m]
  <2>1. \A v \in Thread : l \in Touches(v) => Own(v) \/ Pool(v) \/ Rel(v)
    <3> SUFFICES ASSUME NEW v \in Thread, l \in Touches(v) PROVE Own(v) \/ Pool(v) \/ Rel(v)
      OBVIOUS
    <3>1. CASE l \in MallocLists \cup FreeLists /\ l[2] \in Holds(v)
      BY <3>1 DEF MallocLists, FreeLists, MallocList, FreeList
    <3> QED
      BY <3>1 DEF Touches, Holds
  <2>2. /\ Control /\ fcore \in Core
        /\ \A v \in Thread : v # None /\ \A m \in Holds(v) : m \in Mgr
        /\ \A v \in Thread : pc[v] = "cmp_unlock" => lp[v] \in Mgr /\ lp[v][1] \in Core
    BY FCMallocAssumption, ListIdType DEF IInv, TypeOK, Control, Owners, InHand, Refill
  <2>3. \A v, w \in Thread : v # w => ~(Own(v) /\ Own(w))
    BY <2>2, ListIdDistinct DEF Control, Owners
  <2>4. \A v, w \in Thread : ~(Own(v) /\ Pool(w))
    BY <2>2, ListIdDistinct
  <2>5. \A v, w \in Thread : ~(Rel(v) /\ Pool(w))
    BY <2>2, ListIdDistinct
  <2>6. \A v, w \in Thread : v # w => ~(Pool(v) /\ Pool(w))
    BY <2>2, ListIdDistinct DEF Control, Mutexes
  <2>7. \A v, w \in Thread : v # w => ~(Rel(v) /\ Rel(w))
    BY <2>2 DEF Control, Mutexes
  <2>8. \A v, w \in Thread : v # w => ~(Rel(v) /\ Own(w))
    BY <2>2, ListIdDistinct DEF Control, Mutexes, Owners
  <2> HIDE DEF Own, Pool, Rel
  <2> QED
    BY <2>1, <2>3, <2>4, <2>5, <2>6, <2>7, <2>8
<1> QED
  BY <1>1, IInvAlways, PTL
=============================================================================
