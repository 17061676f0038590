----------------------- MODULE FCMallocChunks_proofs ------------------------
(***************************************************************************)
(* For every number of threads, cores, managers, chunks and classes: a     *)
(* chunk is in one place, none is lost, and FCMalloc implements Heap.      *)
(*                                                                         *)
(* The invariant is inductive on top of IInv of FCMalloc_proofs.  Its      *)
(* parts are restated here as facts about three sets, the chunks on lists, *)
(* with the application and in calls, so that each step of the allocator   *)
(* is a step of these sets.                                                *)
(***************************************************************************)
EXTENDS FCMalloc_proofs

\* The pointers in the hands of the calls of other threads than t, and of t.
Others(t) == {ptr[u] : u \in Thread \ {t}} \ {None}
Opt(x)    == {x} \ {None}
Own(t)    == Opt(ptr[t])

\* OnePlace in these terms.
Apart ==
  /\ Disj(lists)
  /\ Elems(lists) \cap (Held \cup InCall) = {}
  /\ \A c \in Chunk : live[c] <= 1
  /\ Held \cap InCall = {}
  /\ \A t, u \in Thread : t # u /\ ptr[t] = ptr[u] => ptr[t] = None

LEMMA ApartIsOnePlace == Apart => OnePlace
BY DEF Apart, OnePlace, Disj, Elems

Whole == Carved = Held \cup InCall \cup Elems(lists)

LEMMA WholeIsNoLeak == Whole => NoLeak
BY DEF Whole, NoLeak, Elems

\* The inductive invariant.
PInv == IInv /\ Apart /\ Whole

-----------------------------------------------------------------------------
(* What holds before a step of thread t, and what is to be shown after it. *)

LEMMA Before ==
  ASSUME PInv, NEW t \in Thread
  PROVE  /\ None \notin Chunk
         /\ lists \in Lists(Chunk) /\ live \in [Chunk -> Nat]
         /\ ptr \in [Thread -> Chunk \cup {None}]
         /\ \A p \in Held \cup Others(t) \cup Own(t) : p \in Chunk /\ hdr[p] \in Header
         /\ Disj(lists)
         /\ Elems(lists) \cap (Held \cup Others(t) \cup Own(t)) = {}
         /\ Held \cap (Others(t) \cup Own(t)) = {}
         /\ Others(t) \cap Own(t) = {}
         /\ \A u, v \in Thread \ {t} : u # v /\ ptr[u] = ptr[v] => ptr[u] = None
         /\ \A c \in Chunk : live[c] <= 1
         /\ Carved = Held \cup Others(t) \cup Own(t) \cup Elems(lists)
         /\ pc[t] = "idle" => Own(t) = {}
<1>1. InCall = Others(t) \cup Own(t)
  BY DEF InCall, Others, Own, Opt
<1>2. Others(t) \cap Own(t) = {}
  BY DEF PInv, Apart, Others, Own, Opt
<1>3. pc[t] = "idle" => Own(t) = {}
  BY DEF PInv, IInv, Control, InHand, Refill, Own, Opt
<1>4. /\ lists \in Lists(Chunk) /\ live \in [Chunk -> Nat]
      /\ \A p \in Held \cup InCall : p \in Chunk /\ hdr[p] \in Header
  BY IInvFacts DEF PInv
<1>5. None \notin Chunk /\ ptr \in [Thread -> Chunk \cup {None}]
  BY FCMallocAssumption DEF PInv, IInv, TypeOK
<1> QED
  BY <1>1, <1>2, <1>3, <1>4, <1>5 DEF PInv, Apart, Whole

LEMMA After ==
  ASSUME PInv, NEW t \in Thread, NEW x \in Chunk \cup {None},
         ptr' = [ptr EXCEPT ![t] = x],
         Disj(lists'), Others(t) \cap Opt(x) = {},
         Elems(lists') \cap (Held' \cup Others(t) \cup Opt(x)) = {},
         Held' \cap (Others(t) \cup Opt(x)) = {},
         \A c \in Chunk : live'[c] <= 1,
         Carved' = Held' \cup Others(t) \cup Opt(x) \cup Elems(lists')
  PROVE  Apart' /\ Whole'
<1>1. /\ ptr \in [Thread -> Chunk \cup {None}]
      /\ \A u, v \in Thread \ {t} : u # v /\ ptr[u] = ptr[v] => ptr[u] = None
  BY Before
<1>2. ptr'[t] = x /\ \A u \in Thread \ {t} : ptr'[u] = ptr[u]
  BY <1>1
<1>3. InCall' = Others(t) \cup Opt(x)
  BY <1>2 DEF InCall, Others, Opt
<1>4. \A u, v \in Thread : u # v /\ ptr'[u] = ptr'[v] => ptr'[u] = None
  <2>1. \A u \in Thread \ {t} : ptr[u] = x => x = None
    BY DEF Others, Opt
  <2> QED
    BY <1>1, <1>2, <2>1
<1>5. Apart'
  BY <1>3, <1>4 DEF Apart
<1>6. Whole'
  BY <1>3 DEF Whole
<1> QED
  BY <1>5, <1>6

\* The chunks the application has by the counts lv.
With(lv) == {q \in Chunk : lv[q] > 0}

\* What the application has after a pointer was taken from it or given to it.
LEMMA TakeBackPlace ==
  ASSUME live \in [Chunk -> Nat], \A q \in Chunk : live[q] <= 1, None \notin Chunk,
         NEW p \in Chunk \cup {None}, p # None => p \in Held
  PROVE  /\ TakeBack(live, p) \in [Chunk -> Nat]
         /\ \A q \in Chunk : TakeBack(live, p)[q] <= 1
         /\ With(TakeBack(live, p)) = Held \ {p}
<1>1. CASE p = None
  BY <1>1 DEF TakeBack, Held, With
<1>2. CASE p # None
  <2>1. live[p] = 1
    BY <1>2 DEF Held
  <2>2. /\ TakeBack(live, p) \in [Chunk -> Nat]
        /\ \A q \in Chunk : TakeBack(live, p)[q] = IF q = p THEN 0 ELSE live[q]
    BY <1>2, <2>1 DEF TakeBack
  <2> QED
    BY <2>2 DEF Held, With
<1> QED
  BY <1>1, <1>2

LEMMA HandOutPlace ==
  ASSUME NEW lv \in [Chunk -> Nat], \A q \in Chunk : lv[q] <= 1,
         NEW c \in Chunk, ~(lv[c] > 0)
  PROVE  /\ \A q \in Chunk : HandOut(lv, c)[q] <= 1
         /\ With(HandOut(lv, c)) = With(lv) \cup {c}
<1>1. \A q \in Chunk : HandOut(lv, c)[q] = IF q = c THEN 1 ELSE lv[q]
  BY DEF HandOut
<1> QED
  BY <1>1 DEF With

LEMMA LocalFreePlace ==
  ASSUME NEW ls \in Lists(Chunk), Disj(ls), NEW m \in Mgr, NEW p \in Chunk,
         hdr[p] \in Header, p \notin Elems(ls)
  PROVE  Disj(LocalFree(ls, m, p)) /\ Elems(LocalFree(ls, m, p)) = Elems(ls) \cup {p}
<1> DEFINE a == FreeList(m, hdr[p].core)
           j == hdr[p].index
           S == {p}
<1>1. a \in ListId /\ j \in Index /\ S \in SUBSET Chunk /\ S \cap Elems(ls) = {}
  BY ListIdType DEF Header
<1>2. LocalFree(ls, m, p) = Push(ls, a, j, S)
  BY DEF LocalFree
<1> HIDE DEF a, j, S
<1>3. Disj(Push(ls, a, j, S)) /\ Elems(Push(ls, a, j, S)) = Elems(ls) \cup S
  BY <1>1, PushPlace
<1> QED
  BY <1>2, <1>3 DEF S

\* The end of a malloc or realloc puts the chunk popped with the application
\* and the old block, if any, on a list.
LEMMA DeliverPlace ==
  ASSUME PInv, NEW t \in Thread, lp[t] \in Mgr, NEW ls \in Lists(Chunk), Disj(ls),
         NEW lv \in [Chunk -> Nat], \A q \in Chunk : lv[q] <= 1,
         NEW c \in Chunk, NEW p \in Chunk \cup {None}, p # None => hdr[p] \in Header,
         Elems(ls) \cap (With(lv) \cup Others(t)) = {}, With(lv) \cap Others(t) = {},
         Opt(p) \cap (Elems(ls) \cup With(lv) \cup Others(t)) = {},
         c \notin Elems(ls) \cup With(lv) \cup Others(t) \cup Opt(p),
         Carved' = Elems(ls) \cup With(lv) \cup Others(t) \cup Opt(p) \cup {c},
         Deliver(t, ls, lv, c, p)
  PROVE  Apart' /\ Whole'
<1>1. Disj(lists') /\ Elems(lists') = Elems(ls) \cup Opt(p)
  BY LocalFreePlace DEF Deliver, Opt
<1>2. Held' = With(lv) \cup {c} /\ \A q \in Chunk : live'[q] <= 1
  <2>1. live' = HandOut(lv, c) /\ ~(lv[c] > 0)
    BY DEF Deliver, With
  <2> QED
    BY <2>1, HandOutPlace DEF Held, With
<1>3. ptr' = [ptr EXCEPT ![t] = None] /\ Opt(None) = {}
  BY DEF Deliver, Opt
<1>4. /\ Others(t) \cap Opt(None) = {}
      /\ Elems(lists') \cap (Held' \cup Others(t) \cup Opt(None)) = {}
      /\ Held' \cap (Others(t) \cup Opt(None)) = {}
      /\ Carved' = Held' \cup Others(t) \cup Opt(None) \cup Elems(lists')
  BY <1>1, <1>2, <1>3
<1> QED
  BY <1>1, <1>2, <1>3, <1>4, After

-----------------------------------------------------------------------------
(* The steps.                                                              *)

LEMMA MallocPlace ==
  ASSUME PInv, NEW t \in Thread, NEW i \in Index, NEW p \in Chunk \cup {None},
         MallocStep(t, i, p)
  PROVE  Apart' /\ Whole'
<1> DEFINE m  == lp[t]
           ml == MallocList(m)
           fl == FreeList(m, m[1])
           lv == TakeBack(live, p)
<1>1. /\ m \in Mgr /\ lists \in Lists(Chunk) /\ Disj(lists) /\ Own(t) = {}
      /\ p # None => hdr[p] \in Header /\ p \in Held
      /\ ptr \in [Thread -> Chunk \cup {None}]
  BY IInvFacts, Before DEF MallocStep, PInv
<1>2. /\ lv \in [Chunk -> Nat] /\ \A q \in Chunk : lv[q] <= 1
      /\ With(lv) = Held \ {p}
  BY <1>1, Before, TakeBackPlace
<1>3. ml \in ListId /\ fl \in ListId /\ ml # fl
  BY <1>1, OwnLists
<1>4. Carved' = Carved
  BY DEF MallocStep, Carved, Fresh
<1>5. \A l \in {ml, fl} : \A c \in lists[l][i] : c \in Chunk /\ c \in Elems(lists)
  BY <1>1, <1>3, ElemsIn DEF Lists
<1>6. /\ Elems(lists) \cap (With(lv) \cup Others(t) \cup Opt(p)) = {}
      /\ With(lv) \cap (Others(t) \cup Opt(p)) = {} /\ Others(t) \cap Opt(p) = {}
      /\ Carved' = Elems(lists) \cup With(lv) \cup Others(t) \cup Opt(p)
  <2>1. With(lv) \cup Opt(p) = Held /\ With(lv) \cap Opt(p) = {}
    BY <1>1, <1>2, Before DEF Opt, Held
  <2> HIDE DEF lv
  <2> QED
    BY <1>1, <1>4, <2>1, Before
<1> HIDE DEF m, ml, fl, lv
<1>7. ASSUME NEW ls \in Lists(Chunk), Disj(ls), NEW c \in Elems(lists), c \in Chunk,
             Elems(ls) = Elems(lists) \ {c}, Deliver(t, ls, lv, c, p)
      PROVE  Apart' /\ Whole'
  <2>1. /\ Elems(ls) \cap (With(lv) \cup Others(t)) = {} /\ With(lv) \cap Others(t) = {}
        /\ Opt(p) \cap (Elems(ls) \cup With(lv) \cup Others(t)) = {}
        /\ c \notin Elems(ls) \cup With(lv) \cup Others(t) \cup Opt(p)
        /\ Carved' = Elems(ls) \cup With(lv) \cup Others(t) \cup Opt(p) \cup {c}
    BY <1>6, <1>7
  <2>2. lp[t] \in Mgr
    BY <1>1 DEF m
  <2> QED
    BY <1>1, <1>2, <1>7, <2>1, <2>2, DeliverPlace
<1>8. ASSUME NEW c \in lists[ml][i], Deliver(t, Pop(lists, ml, i, c), lv, c, p)
      PROVE  Apart' /\ Whole'
  <2>1. /\ Pop(lists, ml, i, c) \in Lists(Chunk) /\ Disj(Pop(lists, ml, i, c))
        /\ Elems(Pop(lists, ml, i, c)) = Elems(lists) \ {c}
    BY <1>1, <1>3, PopLists, PopPlace
  <2> QED
    BY <1>3, <1>5, <1>7, <1>8, <2>1
<1>9. ASSUME NEW c \in lists[fl][i],
             Deliver(t, Pop(Swap(lists, ml, fl, i), ml, i, c), lv, c, p)
      PROVE  Apart' /\ Whole'
  <2> DEFINE ks == Swap(lists, ml, fl, i)
  <2>1. ks \in Lists(Chunk) /\ Disj(ks) /\ Elems(ks) = Elems(lists) /\ c \in ks[ml][i]
    BY <1>1, <1>3, <1>9, SwapLists, SwapPlace
  <2>2. Deliver(t, Pop(ks, ml, i, c), lv, c, p)
    BY <1>9
  <2> HIDE DEF ks
  <2>3. /\ Pop(ks, ml, i, c) \in Lists(Chunk) /\ Disj(Pop(ks, ml, i, c))
        /\ Elems(Pop(ks, ml, i, c)) = Elems(lists) \ {c}
    BY <1>3, <2>1, PopLists, PopPlace
  <2> QED
    BY <1>3, <1>5, <1>7, <1>9, <2>2, <2>3
<1>10. ASSUME ptr' = [ptr EXCEPT ![t] = p], live' = lv, UNCHANGED lists
       PROVE  Apart' /\ Whole'
  <2>1. Held' = With(lv) /\ \A c \in Chunk : live'[c] <= 1
    BY <1>2, <1>10 DEF Held, With
  <2>2. /\ Elems(lists') \cap (Held' \cup Others(t) \cup Opt(p)) = {}
        /\ Held' \cap (Others(t) \cup Opt(p)) = {}
        /\ Carved' = Held' \cup Others(t) \cup Opt(p) \cup Elems(lists')
    BY <1>6, <1>10, <2>1
  <2>3. Disj(lists')
    BY <1>1, <1>10
  <2> QED
    BY <1>6, <1>10, <2>1, <2>2, <2>3, After
<1> QED
  BY <1>8, <1>9, <1>10, Zenon DEF MallocStep, MallocLocal, m, ml, fl, lv

LEMMA RefillPlace ==
  ASSUME PInv, NEW t \in Thread,
         CmpRefill(t) \/ CmpUnlock(t) \/ Allocate(t) \/ AllocateNone(t)
  PROVE  Apart' /\ Whole'
<1> DEFINE m  == lp[t]
           ml == MallocList(m)
           pl == PoolList(m[1])
           i  == idx[t]
           p  == ptr[t]
<1>1. /\ m \in Mgr /\ i \in Index /\ lists \in Lists(Chunk) /\ Disj(lists)
      /\ live \in [Chunk -> Nat] /\ \A q \in Chunk : live[q] <= 1
      /\ ptr \in [Thread -> Chunk \cup {None}] /\ ptr = [ptr EXCEPT ![t] = p]
      /\ p \in Chunk \cup {None} /\ (p # None => hdr[p] \in Header)
  <2>1. pc[t] \in Refill
    BY DEF CmpRefill, CmpUnlock, Allocate, AllocateNone, Refill
  <2>2. m \in Mgr /\ i \in Index
    BY <2>1 DEF PInv, IInv, Control, InHand
  <2>3. p # None => p \in Own(t)
    BY DEF Own, Opt
  <2> QED
    BY <2>2, <2>3, Before
<1>2. /\ ml \in ListId /\ pl \in ListId /\ ml # pl
  BY <1>1, OwnLists
<1>3. With(live) = Held
  BY DEF With, Held
<1>4. /\ Elems(lists) \cap (Held \cup Others(t) \cup Opt(p)) = {}
      /\ Held \cap (Others(t) \cup Opt(p)) = {} /\ Others(t) \cap Opt(p) = {}
      /\ Carved = Elems(lists) \cup Held \cup Others(t) \cup Opt(p)
  BY Before DEF Own
<1> HIDE DEF m, ml, pl, i, p
<1>5. ASSUME Disj(lists'), Elems(lists') = Elems(lists), UNCHANGED <<hdr, live, ptr>>
      PROVE  Apart' /\ Whole'
  <2>1. Held' = Held /\ Carved' = Carved
    BY <1>5 DEF Held, Carved, Fresh
  <2>2. /\ Elems(lists') \cap (Held' \cup Others(t) \cup Opt(p)) = {}
        /\ Held' \cap (Others(t) \cup Opt(p)) = {}
        /\ Carved' = Held' \cup Others(t) \cup Opt(p) \cup Elems(lists')
    BY <1>4, <1>5, <2>1
  <2> QED
    BY <1>1, <1>4, <1>5, <2>2, After
<1>6. CASE CmpRefill(t)
  <2>1. PICK S \in SUBSET lists[pl][i] : lists' = MoveChunks(lists, pl, ml, i, S)
    BY <1>6 DEF CmpRefill, m, ml, pl, i
  <2>2. Disj(lists') /\ Elems(lists') = Elems(lists)
    BY <1>1, <1>2, <2>1, MovePlace
  <2> QED
    BY <1>5, <1>6, <2>2 DEF CmpRefill
<1>7. CASE CmpUnlock(t)
  <2>1. ASSUME NEW c \in lists[ml][i], Deliver(t, Pop(lists, ml, i, c), live, c, p)
        PROVE  Apart' /\ Whole'
    <3> DEFINE ls == Pop(lists, ml, i, c)
    <3>1. ls \in Lists(Chunk) /\ Disj(ls) /\ Elems(ls) = Elems(lists) \ {c}
      BY <1>1, <1>2, PopLists, PopPlace
    <3>2. c \in Chunk /\ c \in Elems(lists)
      BY <1>1, <1>2, ElemsIn DEF Lists
    <3>3. Deliver(t, ls, live, c, p)
      BY <2>1
    <3> HIDE DEF ls
    <3>4. Carved' = Carved
      BY <1>7 DEF CmpUnlock, Carved, Fresh
    <3>5. /\ Elems(ls) \cap (With(live) \cup Others(t)) = {} /\ With(live) \cap Others(t) = {}
          /\ Opt(p) \cap (Elems(ls) \cup With(live) \cup Others(t)) = {}
          /\ c \notin Elems(ls) \cup With(live) \cup Others(t) \cup Opt(p)
          /\ Carved' = Elems(ls) \cup With(live) \cup Others(t) \cup Opt(p) \cup {c}
      BY <1>3, <1>4, <3>1, <3>2, <3>4
    <3> QED
      BY <1>1, <3>1, <3>2, <3>3, <3>5, DeliverPlace DEF m
  <2>2. CASE UNCHANGED <<lists, live, ptr>>
    BY <1>1, <1>5, <1>7, <2>2 DEF CmpUnlock
  <2> QED
    BY <1>7, <2>1, <2>2 DEF CmpUnlock, m, ml, i, p
<1>8. CASE Allocate(t)
  <2>1. PICK S \in SUBSET Fresh :
          /\ hdr' = [c \in Chunk |-> IF c \in S THEN [core |-> m[1], index |-> i] ELSE hdr[c]]
          /\ \E c \in S : Deliver(t, Pop(Push(lists, ml, i, S), ml, i, c), live, c, p)
    BY <1>8 DEF Allocate, m, ml, i, p
  <2>2. PICK c \in S : Deliver(t, Pop(Push(lists, ml, i, S), ml, i, c), live, c, p)
    BY <2>1
  <2>3. S \in SUBSET Chunk /\ S \cap Carved = {} /\ c \in Chunk
    BY DEF Fresh, Carved
  <2>4. Carved' = Carved \cup S
    <3>1. [core |-> m[1], index |-> i] # None
      BY <1>1, OwnLists, FCMallocAssumption
    <3> QED
      BY <2>1, <3>1 DEF Fresh, Carved
  <2> DEFINE ks == Push(lists, ml, i, S)
  <2>5. ks \in Lists(Chunk) /\ c \in ks[ml][i]
    BY <1>1, <1>2, <2>3, PushLists
  <2>6. S \cap Elems(lists) = {}
    BY <1>4, <2>3
  <2>7. Disj(ks) /\ Elems(ks) = Elems(lists) \cup S
    BY <1>1, <1>2, <2>3, <2>6, PushPlace
  <2> HIDE DEF ks
  <2> DEFINE ls == Pop(ks, ml, i, c)
  <2>8. ls \in Lists(Chunk) /\ Disj(ls) /\ Elems(ls) = (Elems(lists) \cup S) \ {c}
    BY <1>1, <1>2, <2>5, <2>7, PopLists, PopPlace
  <2>9. Deliver(t, ls, live, c, p)
    BY <2>2 DEF ks
  <2> HIDE DEF ls
  <2>10. /\ Elems(ls) \cap (With(live) \cup Others(t)) = {} /\ With(live) \cap Others(t) = {}
         /\ Opt(p) \cap (Elems(ls) \cup With(live) \cup Others(t)) = {}
         /\ c \notin Elems(ls) \cup With(live) \cup Others(t) \cup Opt(p)
         /\ Carved' = Elems(ls) \cup With(live) \cup Others(t) \cup Opt(p) \cup {c}
    BY <1>3, <1>4, <2>3, <2>4, <2>8
  <2> QED
    BY <1>1, <2>3, <2>8, <2>9, <2>10, DeliverPlace DEF m
<1>9. CASE AllocateNone(t)
  <2>1. /\ ptr' = [ptr EXCEPT ![t] = None] /\ UNCHANGED <<lists, hdr>>
        /\ live' = IF p = None THEN live ELSE HandOut(live, p)
    BY <1>9 DEF AllocateNone, p
  <2>2. Held' = Held \cup Opt(p) /\ \A c \in Chunk : live'[c] <= 1
    <3>1. CASE p = None
      BY <1>1, <2>1, <3>1 DEF Held, Opt
    <3>2. CASE p # None
      <4>1. p \in Chunk /\ p \notin Held
        BY <1>1, <1>4, <3>2 DEF Opt
      <4>2. ~(live[p] > 0)
        BY <4>1 DEF Held
      <4> QED
        BY <1>1, <1>3, <2>1, <3>2, <4>1, <4>2, HandOutPlace DEF Held, Opt, With
    <3> QED
      BY <3>1, <3>2
  <2>3. Carved' = Carved /\ Opt(None) = {}
    BY <2>1 DEF Carved, Fresh, Opt
  <2>4. /\ Others(t) \cap Opt(None) = {}
        /\ Elems(lists') \cap (Held' \cup Others(t) \cup Opt(None)) = {}
        /\ Held' \cap (Others(t) \cup Opt(None)) = {}
        /\ Carved' = Held' \cup Others(t) \cup Opt(None) \cup Elems(lists')
    BY <1>4, <2>1, <2>2, <2>3
  <2>5. Disj(lists')
    BY <1>1, <2>1
  <2> QED
    BY <2>1, <2>2, <2>4, <2>5, After
<1> QED
  BY <1>6, <1>7, <1>8, <1>9

LEMMA FreePlace ==
  ASSUME PInv, NEW t \in Thread,
         (\E p \in Chunk : Free(t, p)) \/ (\E p \in Chunk : GFree(t, p)) \/ GFreeUnlock(t)
  PROVE  Apart' /\ Whole'
<1>1. Carved' = Carved
  BY DEF Free, GFree, GFreeUnlock, Carved, Fresh
<1>2. ASSUME NEW p \in Chunk, p \in Held, live' = TakeBack(live, p)
      PROVE  Held' = Held \ {p} /\ \A c \in Chunk : live'[c] <= 1
  BY <1>2, Before, TakeBackPlace DEF Held, With
<1>3. ASSUME NEW p \in Chunk, Free(t, p) PROVE Apart' /\ Whole'
  <2>1. /\ lp[t] \in Mgr /\ p \in Held /\ live' = TakeBack(live, p)
        /\ lists' = LocalFree(lists, lp[t], p) /\ Own(t) = {} /\ ptr' = ptr
    BY <1>3, IInvFacts, Before DEF Free, PInv
  <2>2. p \notin Elems(lists) /\ hdr[p] \in Header
    BY <2>1, Before
  <2>3. Disj(lists') /\ Elems(lists') = Elems(lists) \cup {p}
    BY <2>1, <2>2, Before, LocalFreePlace
  <2>4. ptr[t] = None /\ ptr' = [ptr EXCEPT ![t] = None] /\ Opt(None) = {}
    BY <2>1, Before DEF Own, Opt
  <2>5. Held' = Held \ {p} /\ \A c \in Chunk : live'[c] <= 1
    BY <1>2, <2>1
  <2>6. /\ Others(t) \cap Opt(None) = {}
        /\ Elems(lists') \cap (Held' \cup Others(t) \cup Opt(None)) = {}
        /\ Held' \cap (Others(t) \cup Opt(None)) = {}
        /\ Carved' = Held' \cup Others(t) \cup Opt(None) \cup Elems(lists')
    BY <1>1, <2>1, <2>3, <2>4, <2>5, Before
  <2> QED
    BY <2>3, <2>4, <2>5, <2>6, After
<1>4. ASSUME NEW p \in Chunk, GFree(t, p) PROVE Apart' /\ Whole'
  <2>1. /\ p \in Held /\ live' = TakeBack(live, p) /\ lists' = lists
        /\ Own(t) = {} /\ ptr' = [ptr EXCEPT ![t] = p]
    BY <1>4, Before DEF GFree
  <2>2. Held' = Held \ {p} /\ (\A c \in Chunk : live'[c] <= 1) /\ Opt(p) = {p}
    BY <1>2, <2>1, Before DEF Opt
  <2>3. /\ Others(t) \cap Opt(p) = {}
        /\ Elems(lists') \cap (Held' \cup Others(t) \cup Opt(p)) = {}
        /\ Held' \cap (Others(t) \cup Opt(p)) = {}
        /\ Carved' = Held' \cup Others(t) \cup Opt(p) \cup Elems(lists')
    BY <1>1, <2>1, <2>2, Before
  <2>4. Disj(lists')
    BY <2>1, Before
  <2> QED
    BY <2>1, <2>2, <2>3, <2>4, After
<1>5. CASE GFreeUnlock(t)
  <2> DEFINE p == ptr[t]
  <2>1. /\ gm[t] \in Mgr /\ p \in Chunk /\ Own(t) = {p}
        /\ lists' = LocalFree(lists, gm[t], p) /\ ptr' = [ptr EXCEPT ![t] = None]
        /\ live' = live
    BY <1>5, Before DEF GFreeUnlock, PInv, IInv, Control, InHand, Own, Opt
  <2> HIDE DEF p
  <2>2. p \notin Elems(lists) /\ hdr[p] \in Header
    BY <2>1, Before
  <2>3. Disj(lists') /\ Elems(lists') = Elems(lists) \cup {p}
    BY <2>1, <2>2, Before, LocalFreePlace
  <2>4. Held' = Held /\ (\A c \in Chunk : live'[c] <= 1) /\ Opt(None) = {}
    BY <2>1, Before DEF Held, Opt
  <2>5. /\ Others(t) \cap Opt(None) = {}
        /\ Elems(lists') \cap (Held' \cup Others(t) \cup Opt(None)) = {}
        /\ Held' \cap (Others(t) \cup Opt(None)) = {}
        /\ Carved' = Held' \cup Others(t) \cup Opt(None) \cup Elems(lists')
    BY <1>1, <2>1, <2>3, <2>4, Before
  <2> QED
    BY <2>1, <2>3, <2>4, <2>5, After
<1> QED
  BY <1>3, <1>4, <1>5

\* A step that at most moves chunks between lists.
LEMMA MovesOnly ==
  ASSUME PInv, UNCHANGED <<hdr, live, ptr>>, Disj(lists'), Elems(lists') = Elems(lists)
  PROVE  Apart' /\ Whole'
<1>1. Held' = Held /\ InCall' = InCall /\ Carved' = Carved
  BY DEF Held, InCall, Carved, Fresh
<1> QED
  BY <1>1 DEF PInv, Apart, Whole

LEMMA FlushPlace ==
  ASSUME PInv, NEW t \in Thread, Flush(t)
  PROVE  Apart' /\ Whole'
<1> DEFINE a == FreeList(lp[t], fcore)
           b == PoolList(fcore)
<1>1. lp[t] \in Mgr /\ fcore \in Core /\ lists \in Lists(Chunk) /\ Disj(lists)
  BY IInvFacts DEF Flush, PInv, IInv, TypeOK, Control, InHand, Flushing, Apart
<1>2. a \in ListId /\ b \in ListId /\ a # b
  BY <1>1, ListIdType, ListIdDistinct
<1>3. lists' = Join(lists, a, b) /\ UNCHANGED <<hdr, live, ptr>>
  BY DEF Flush
<1> HIDE DEF a, b
<1>4. Disj(lists') /\ Elems(lists') = Elems(lists)
  BY <1>1, <1>2, <1>3, JoinPlace
<1> QED
  BY <1>3, <1>4, MovesOnly

LEMMA HandOverPlace ==
  ASSUME PInv, NEW t \in Thread, FreeLocalMemoryManager(t)
  PROVE  Apart' /\ Whole'
<1> DEFINE m == gm[t]
           Left(l) == \E k \in Core : Heirs(m, k) # {} /\ l = FreeList(m, k)
<1>1. /\ m \in Mgr /\ lists \in Lists(Chunk) /\ Disj(lists)
      /\ lists' = HandOver(m) /\ UNCHANGED <<hdr, live, ptr>>
  BY IInvFacts
  DEF FreeLocalMemoryManager, PInv, IInv, Control, InHand, Releasing, Apart
<1> HIDE DEF m
<1>2. \A k \in Core : Heirs(m, k) # {} =>
        /\ MallocList(Heir(m, k)) \in ListId
        /\ Heir(m, k)[1] = k
        /\ \A j \in Core : MallocList(Heir(m, k)) # FreeList(m, j)
        /\ \A j \in Core : Heirs(m, j) # {} /\ MallocList(Heir(m, k)) = MallocList(Heir(m, j)) => j = k
  BY <1>1, HeirType, ListIdType, ListIdDistinct
<1>3. \A k \in Core : FreeList(m, k) \in ListId
  BY <1>1, ListIdType
<1>4. \A l \in ListId, i \in Index : \A c :
        c \in lists'[l][i] <=>
          /\ ~Left(l)
          /\ \/ c \in lists[l][i]
             \/ \E k \in Core : /\ Heirs(m, k) # {} /\ l = MallocList(Heir(m, k))
                                /\ c \in lists[FreeList(m, k)][i]
  BY <1>1, HandOverLists
<1>5. \A l1, l2 \in ListId, i1, i2 \in Index : \A c :
        c \in lists[l1][i1] /\ c \in lists[l2][i2] => l1 = l2 /\ i1 = i2
  BY <1>1, DisjIn
<1>6. \A l \in ListId, i \in Index : \A c \in lists[l][i] :
        \E n \in ListId : c \in lists'[n][i]
  <2> SUFFICES ASSUME NEW l \in ListId, NEW i \in Index, NEW c \in lists[l][i]
               PROVE  \E n \in ListId : c \in lists'[n][i]
    OBVIOUS
  <2>1. CASE ~Left(l)
    BY <1>4, <2>1
  <2>2. CASE Left(l)
    <3>1. PICK k \in Core : Heirs(m, k) # {} /\ l = FreeList(m, k)
      BY <2>2
    <3>2. ~Left(MallocList(Heir(m, k)))
      BY <1>2, <3>1
    <3>3. c \in lists'[MallocList(Heir(m, k))][i]
      BY <1>2, <1>4, <3>1, <3>2
    <3> QED
      BY <1>2, <3>1, <3>3
  <2> QED
    BY <2>1, <2>2
<1>7. Elems(lists') = Elems(lists)
  <2>1. \A l \in ListId, i \in Index : \A c \in lists'[l][i] :
          \E n \in ListId : c \in lists[n][i]
    BY <1>3, <1>4
  <2>2. \A c : c \in Elems(lists') <=> c \in Elems(lists)
    <3>1. \A c : c \in Elems(lists') <=> \E l \in ListId, i \in Index : c \in lists'[l][i]
      BY ElemsIn
    <3>2. \A c : c \in Elems(lists) <=> \E l \in ListId, i \in Index : c \in lists[l][i]
      BY ElemsIn
    <3> QED
      BY <1>6, <2>1, <3>1, <3>2
  <2> QED
    BY <2>2
<1>8. \A l1, l2 \in ListId, i1, i2 \in Index : \A c :
        c \in lists'[l1][i1] /\ c \in lists'[l2][i2] => l1 = l2 /\ i1 = i2
  <2> SUFFICES ASSUME NEW l1 \in ListId, NEW l2 \in ListId, NEW i1 \in Index, NEW i2 \in Index,
                      NEW c, c \in lists'[l1][i1], c \in lists'[l2][i2]
               PROVE  l1 = l2 /\ i1 = i2
    OBVIOUS
  <2> DEFINE From(l, i, n) == /\ c \in lists[n][i]
                              /\ \/ n = l /\ ~Left(l)
                                 \/ \E k \in Core : /\ Heirs(m, k) # {} /\ n = FreeList(m, k)
                                                    /\ l = MallocList(Heir(m, k))
  <2>1. (\E n \in ListId : From(l1, i1, n)) /\ (\E n \in ListId : From(l2, i2, n))
    BY <1>3, <1>4
  <2>2. PICK n1 \in ListId, n2 \in ListId : From(l1, i1, n1) /\ From(l2, i2, n2)
    BY <2>1
  <2>3. n1 = n2 /\ i1 = i2
    BY <1>5, <2>2
  <2>4. CASE Left(n1)
    BY <1>1, <2>2, <2>3, <2>4, ListIdDistinct
  <2>5. CASE ~Left(n1)
    BY <2>2, <2>3, <2>5
  <2> QED
    BY <2>3, <2>4, <2>5
<1>9. Disj(lists')
  BY <1>8, DisjIn
<1> QED
  BY <1>1, <1>7, <1>9, MovesOnly

LEMMA PlaceStep == PInv /\ [Next]_vars => Apart' /\ Whole'
<1> SUFFICES ASSUME PInv, [Next]_vars PROVE Apart' /\ Whole'
  OBVIOUS
<1>1. CASE UNCHANGED <<lists, hdr, live, ptr>>
  BY <1>1, MovesOnly DEF PInv, Apart
<1>2. CASE UNCHANGED vars \/ Over
  BY <1>1, <1>2 DEF Over, vars, tvars
<1>3. ASSUME NEW t \in Thread, Call(t) PROVE Apart' /\ Whole'
  <2>1. CASE \/ ThreadInit(t) \/ ThreadTerm(t) \/ MainTerm(t)
             \/ NullMalloc(t) \/ \E p \in Chunk : NullFree(t, p)
    BY <1>1, <2>1 DEF ThreadInit, ThreadTerm, MainTerm, NullMalloc, NullFree, tvars
  <2> QED
    BY <1>3, <2>1, MallocSteps, MallocPlace, FreePlace DEF Call
<1>4. ASSUME NEW t \in Thread, Step(t) PROVE Apart' /\ Whole'
  <2>1. CASE InitUnlock(t) \/ FlushUnlock(t) \/ ReleaseUnlock(t) \/ AllocateUnmapped(t)
    BY <1>1, <2>1 DEF InitUnlock, FlushUnlock, ReleaseUnlock, AllocateUnmapped
  <2> QED
    BY <1>4, <2>1, RefillPlace, FlushPlace, FreePlace, HandOverPlace DEF Step
<1> QED
  BY <1>2, <1>3, <1>4 DEF Next

-----------------------------------------------------------------------------
(* The theorems.                                                           *)

LEMMA PInvInit == Init => PInv
<1> SUFFICES ASSUME Init PROVE PInv
  OBVIOUS
<1>1. Held = {} /\ InCall = {} /\ Carved = {}
  BY DEF Init, Held, InCall, Carved, Fresh
<1>2. Elems(lists) = {} /\ Disj(lists)
  <2>1. \A l \in ListId, i \in Index : lists[l][i] = {}
    BY DEF Init
  <2> QED
    BY <2>1 DEF Elems, Disj
<1>3. (\A c \in Chunk : live[c] <= 1) /\ \A t \in Thread : ptr[t] = None
  BY DEF Init
<1> QED
  BY <1>1, <1>2, <1>3, IInvInit DEF PInv, Apart, Whole

LEMMA PInvAlways == Spec => []PInv
<1>1. IInv /\ [Next]_vars => IInv'
  BY TypeStep, ControlStep, HomeStep DEF IInv
<1>2. PInv /\ [Next]_vars => PInv'
  BY <1>1, PlaceStep DEF PInv
<1> QED
  BY <1>2, PInvInit, PTL DEF Spec

\* No chunk is ever in two places, so no pointer is handed out while another
\* owner has it: not by a double swap, a flush that meets a refill, a hand-over
\* at the end of a thread or a borrowed manager, for any number of each.
THEOREM NeverInTwoPlaces == Spec => []OnePlace
<1>1. PInv => OnePlace
  BY ApartIsOnePlace DEF PInv
<1> QED
  BY <1>1, PInvAlways, PTL

\* No chunk that has been carved is ever lost: it is on a list, with the
\* application, or in the hands of a call under way.
THEOREM NoChunkIsLost == Spec => []NoLeak
<1>1. PInv => NoLeak
  BY WholeIsNoLeak DEF PInv
<1> QED
  BY <1>1, PInvAlways, PTL

-----------------------------------------------------------------------------
(* FCMalloc implements Heap: each step is a step of Heap or leaves Heap's  *)
(* state alone.  PInv supplies what the steps need: a chunk that is popped *)
(* from a list has no owner and is of the class of the list.               *)

LEMMA RefillingIs == \A t \in Thread : t \in Refilling <=> pc[t] \in Refill
BY DEF Refilling, Refill

\* The old block of the request of thread t, and of the other threads.
Old(t)    == IF pc[t] \in Refill THEN Opt(ptr[t]) ELSE {}
OldsBut(t) == {ptr[u] : u \in Refilling \ {t}} \ {None}

LEMMA ReallocatingIs ==
  ASSUME PInv, NEW t \in Thread
  PROVE  /\ Reallocating = OldsBut(t) \cup Old(t)
         /\ OldsBut(t) \subseteq Others(t)
         /\ Reallocating \subseteq InCall
BY DEF Reallocating, OldsBut, Old, Opt, Others, InCall, Refilling, Refill

\* What Heap's variables are before a step.
LEMMA HeapBefore ==
  ASSUME PInv
  PROVE  /\ None \notin Chunk /\ live \in [Chunk -> Nat]
         /\ \A c \in Chunk : Owned[c] = live[c] + IF c \in Reallocating THEN 1 ELSE 0
         /\ \A c \in Chunk : ClassOf[c] = IF c \in Fresh THEN None ELSE hdr[c].index
         /\ \A t \in Thread : pc[t] \in Refill =>
              Request[t] = [class |-> idx[t], old |-> ptr[t]] /\ Request[t] # None
         /\ \A t \in Thread : pc[t] \notin Refill => Request[t] = None
<1>1. None \notin Chunk /\ live \in [Chunk -> Nat]
  BY FCMallocAssumption DEF PInv, IInv, TypeOK
<1>2. \A t \in Thread : pc[t] \in Refill => [class |-> idx[t], old |-> ptr[t]] # None
  <2>1. \A t \in Thread : pc[t] \in Refill => idx[t] \in Index /\ ptr[t] \in Chunk \cup {None}
    BY DEF PInv, IInv, TypeOK, Control, InHand
  <2> QED
    BY <2>1, FCMallocAssumption
<1> QED
  BY <1>1, <1>2, RefillingIs DEF Owned, ClassOf, Request

\* A chunk on a list has no owner, and its class is that of the list.
LEMMA ListedIsFree ==
  ASSUME PInv, NEW l \in ListId, NEW i \in Index, NEW c \in lists[l][i]
  PROVE  c \in Chunk /\ live[c] = 0 /\ c \notin Reallocating /\ Owned[c] = 0 /\ ClassOf[c] = i
<1>1. c \in Elems(lists) /\ c \in Chunk
  <2>1. lists \in Lists(Chunk)
    BY IInvFacts DEF PInv
  <2> QED
    BY <2>1, ElemsIn DEF Lists
<1>2. c \notin Held /\ c \notin InCall /\ c \in Carved
  BY <1>1 DEF PInv, Apart, Whole
<1>3. live[c] = 0
  BY <1>1, <1>2, HeapBefore DEF Held
<1>4. c \notin Reallocating
  BY <1>2 DEF Reallocating, InCall, Refilling
<1>5. hdr[c].index = i
  <2>1. hdr[c] = [core |-> Home(l), index |-> i]
    BY DEF PInv, IInv, HomeAffinity
  <2> QED
    BY <2>1
<1> QED
  BY <1>1, <1>2, <1>3, <1>4, <1>5, HeapBefore DEF Carved

\* A block that the application holds may be given back.
LEMMA HeldIsUsable ==
  ASSUME PInv, NEW p \in Held
  PROVE  /\ p \in Chunk /\ live[p] = 1 /\ p \notin Reallocating /\ p \notin Fresh
         /\ H!Usable(p)
<1>1. p \in Chunk /\ p \notin InCall /\ live[p] = 1
  BY HeapBefore DEF PInv, Apart, Held
<1>2. p \notin Fresh
  BY <1>1 DEF PInv, Whole, Carved
<1>3. p \notin Reallocating
  BY <1>1 DEF Reallocating, InCall, Refilling
<1>4. \A t \in Thread : Request[t] = None \/ Request[t].old # p
  <2> SUFFICES ASSUME NEW t \in Thread PROVE Request[t] = None \/ Request[t].old # p
    OBVIOUS
  <2>1. CASE pc[t] \in Refill
    <3>1. Request[t] = [class |-> idx[t], old |-> ptr[t]]
      BY <2>1, HeapBefore
    <3>2. ptr[t] # p
      BY <1>1, HeapBefore DEF InCall
    <3> QED
      BY <3>1, <3>2
  <2>2. CASE pc[t] \notin Refill
    BY <2>2, HeapBefore
  <2> QED
    BY <2>1, <2>2
<1>5. Owned[p] > 0
  BY <1>1, <1>3, HeapBefore
<1> QED
  BY <1>1, <1>2, <1>3, <1>4, <1>5 DEF H!Usable

-----------------------------------------------------------------------------
(* Steps that Heap does not see.                                           *)

\* Thread t neither opens nor closes a request.
LEMMA SameRequests ==
  ASSUME NEW t \in Thread,
         \A u \in Thread \ {t} : pc'[u] = pc[u] /\ idx'[u] = idx[u] /\ ptr'[u] = ptr[u],
         pc'[t] \in Refill <=> pc[t] \in Refill,
         pc[t] \in Refill => idx'[t] = idx[t] /\ ptr'[t] = ptr[t]
  PROVE  Request' = Request /\ Reallocating' = Reallocating
<1>1. \A u \in Thread : (u \in Refilling)' <=> u \in Refilling
  BY DEF Refilling, Refill
<1>2. \A u \in Refilling : idx'[u] = idx[u] /\ ptr'[u] = ptr[u]
  BY DEF Refilling, Refill
<1>3. Refilling' = Refilling
  BY <1>1 DEF Refilling
<1> QED
  BY <1>2, <1>3 DEF Request, Reallocating

LEMMA Unseen ==
  ASSUME Request' = Request, Reallocating' = Reallocating, UNCHANGED <<live, hdr>>
  PROVE  UNCHANGED H!vars
BY DEF H!vars, Owned, ClassOf, Fresh

LEMMA UnseenStep ==
  ASSUME PInv, NEW t \in Thread,
         \/ ThreadInit(t) \/ InitUnlock(t) \/ ThreadTerm(t)
         \/ FreeLocalMemoryManager(t) \/ ReleaseUnlock(t)
         \/ CmpRefill(t) \/ Flush(t) \/ FlushUnlock(t) \/ GFreeUnlock(t)
         \/ MainTerm(t) \/ AllocateUnmapped(t)
         \/ NullMalloc(t) \/ \E p \in Chunk : NullFree(t, p)
  PROVE  UNCHANGED H!vars
<1>1. pc \in [Thread -> PC] /\ ptr \in [Thread -> Chunk \cup {None}]
  BY DEF PInv, IInv, TypeOK
<1>2. \A u \in Thread \ {t} : pc'[u] = pc[u] /\ idx'[u] = idx[u] /\ ptr'[u] = ptr[u]
  BY <1>1 DEF ThreadInit, InitUnlock, ThreadTerm, FreeLocalMemoryManager, ReleaseUnlock,
     CmpRefill, Flush, FlushUnlock, GFreeUnlock, MainTerm, AllocateUnmapped, NullMalloc,
     NullFree, Goto, tvars
<1>3. UNCHANGED <<live, hdr>>
  BY DEF ThreadInit, InitUnlock, ThreadTerm, FreeLocalMemoryManager, ReleaseUnlock,
     CmpRefill, Flush, FlushUnlock, GFreeUnlock, MainTerm, AllocateUnmapped, NullMalloc,
     NullFree
<1>4. CASE CmpRefill(t) \/ AllocateUnmapped(t)
  <2>1. pc[t] \in Refill /\ pc'[t] \in Refill /\ UNCHANGED <<idx, ptr>>
    BY <1>1, <1>4 DEF CmpRefill, AllocateUnmapped, Goto, Refill
  <2> QED
    BY <1>2, <1>3, <2>1, SameRequests, Unseen
<1>5. CASE ~CmpRefill(t) /\ ~AllocateUnmapped(t)
  <2>1. pc[t] \notin Refill /\ pc'[t] \notin Refill
    BY <1>1, <1>5 DEF ThreadInit, InitUnlock, ThreadTerm, FreeLocalMemoryManager,
       ReleaseUnlock, Flush, FlushUnlock, GFreeUnlock, MainTerm, NullMalloc, NullFree, Goto,
       Refill, tvars
  <2> QED
    BY <1>2, <1>3, <2>1, SameRequests, Unseen
<1> QED
  BY <1>4, <1>5

-----------------------------------------------------------------------------
(* Calls and answers.                                                      *)

LEMMA FreeIsFree ==
  ASSUME PInv, NEW t \in Thread, NEW p \in Chunk, Free(t, p) \/ GFree(t, p)
  PROVE  H!Free(p)
<1>1. /\ p \in Held /\ live' = TakeBack(live, p) /\ hdr' = hdr /\ pc[t] = "idle"
      /\ pc \in [Thread -> PC] /\ ptr \in [Thread -> Chunk \cup {None}]
  BY DEF Free, GFree, PInv, IInv, TypeOK
<1>2. \A u \in Thread \ {t} : pc'[u] = pc[u] /\ idx'[u] = idx[u] /\ ptr'[u] = ptr[u]
  BY <1>1 DEF Free, GFree, Goto
<1>3. pc'[t] \in {"idle", "flush_lock", "gfree_unlock"}
  BY <1>1 DEF Free, GFree, Goto
<1>4. Request' = Request /\ Reallocating' = Reallocating
  BY <1>1, <1>2, <1>3, SameRequests DEF Refill
<1>5. ClassOf' = ClassOf
  BY <1>1 DEF ClassOf, Fresh
<1>6. p \in Chunk /\ live[p] = 1 /\ p \notin Reallocating /\ H!Usable(p)
  BY <1>1, HeldIsUsable
<1>7. \A c \in Chunk : live'[c] = IF c = p THEN live[c] - 1 ELSE live[c]
  BY <1>1, HeapBefore DEF TakeBack
<1>8. Owned' = [Owned EXCEPT ![p] = @ - 1]
  <2>1. \A c \in Chunk : live'[c] + (IF c \in Reallocating THEN 1 ELSE 0)
                         = IF c = p THEN Owned[c] - 1 ELSE Owned[c]
    BY <1>6, <1>7, HeapBefore
  <2> QED
    BY <1>4, <2>1 DEF Owned
<1> QED
  BY <1>4, <1>5, <1>6, <1>8 DEF H!Free

\* Chunk c, which nobody owns, goes to the application and the old block p,
\* if any, comes back; the chunks S have just been carved.
LEMMA ExchangeStep ==
  ASSUME PInv, NEW c \in Chunk, NEW p \in Chunk \cup {None}, NEW i \in Index,
         Owned[c] = 0, c # p,
         NEW S \in SUBSET Fresh,
         ClassOf' = [q \in Chunk |-> IF q \in S THEN i ELSE ClassOf[q]],
         c \in S \/ ClassOf[c] = i,
         \A q \in Chunk : Owned'[q] = IF q = c THEN 1 ELSE IF q = p THEN Owned[q] - 1 ELSE Owned[q]
  PROVE  H!Exchange(p, c, i)
<1>1. S \in SUBSET {q \in Chunk : ClassOf[q] = None}
  BY DEF Fresh, ClassOf
<1>2. ClassOf'[c] = i
  OBVIOUS
<1>3. Owned' = [q \in Chunk |-> IF q = c THEN 1 ELSE IF q = p THEN Owned[q] - 1 ELSE Owned[q]]
  BY DEF Owned
<1> QED
  BY <1>1, <1>2, <1>3 DEF H!Exchange

\* A call that delivers at once.
LEMMA DeliverIsServe ==
  ASSUME PInv, NEW t \in Thread, NEW i \in Index, NEW p \in Chunk \cup {None},
         MallocStep(t, i, p), NEW l \in ListId, NEW c \in lists[l][i], NEW ls,
         Deliver(t, ls, TakeBack(live, p), c, p)
  PROVE  H!Serve(p, i)
<1>1. /\ c \in Chunk /\ live[c] = 0 /\ c \notin Reallocating /\ Owned[c] = 0 /\ ClassOf[c] = i
  BY ListedIsFree
<1>2. /\ pc[t] = "idle" /\ hdr' = hdr /\ live' = HandOut(TakeBack(live, p), c)
      /\ p # None => p \in Held /\ hdr[p].index < i
      /\ live \in [Chunk -> Nat] /\ None \notin Chunk /\ CtlType
  BY HeapBefore, TypeGivesCtlType DEF MallocStep, Deliver, PInv, IInv
<1>3. /\ pc'[t] = "idle"
      /\ \A u \in Thread \ {t} : pc'[u] = pc[u] /\ idx'[u] = idx[u] /\ ptr'[u] = ptr[u]
  BY <1>2, DeliverControl
<1>4. Request' = Request /\ Reallocating' = Reallocating
  BY <1>2, <1>3, SameRequests DEF Refill
<1>5. c # p
  BY <1>1, <1>2, HeldIsUsable
<1>6. \A q \in Chunk : live'[q] = IF q = c THEN 1 ELSE IF q = p THEN live[q] - 1 ELSE live[q]
  BY <1>1, <1>2, <1>5 DEF HandOut, TakeBack
<1>7. \A q \in Chunk : Owned'[q] = IF q = c THEN 1 ELSE IF q = p THEN Owned[q] - 1 ELSE Owned[q]
  <2>1. \A q \in Chunk : Owned'[q] = live'[q] + IF q \in Reallocating THEN 1 ELSE 0
    BY <1>4 DEF Owned
  <2> QED
    BY <1>1, <1>2, <1>6, <2>1, HeapBefore
<1>8. H!Exchange(p, c, i)
  <2>1. ClassOf' = ClassOf
    BY <1>2 DEF ClassOf, Fresh
  <2> DEFINE S == {}
  <2>2. S \in SUBSET Fresh /\ ClassOf' = [q \in Chunk |-> IF q \in S THEN i ELSE ClassOf[q]]
    BY <2>1 DEF ClassOf
  <2> HIDE DEF S
  <2> QED
    BY <1>1, <1>5, <1>7, <2>2, ExchangeStep
<1>9. p = None \/ (H!Usable(p) /\ ClassOf[p] < i)
  BY <1>2, HeldIsUsable, HeapBefore
<1> QED
  BY <1>1, <1>4, <1>8, <1>9 DEF H!Serve

\* A call that goes on to the common memory pool.
LEMMA MallocIsAsk ==
  ASSUME PInv, NEW t \in Thread, NEW i \in Index, NEW p \in Chunk \cup {None},
         MallocStep(t, i, p),
         idx' = [idx EXCEPT ![t] = i], ptr' = [ptr EXCEPT ![t] = p],
         live' = TakeBack(live, p), Goto(t, "cmp_lock")
  PROVE  H!Ask(t, p, i)
<1>1. /\ pc[t] = "idle" /\ hdr' = hdr
      /\ p # None => p \in Held /\ hdr[p].index < i
      /\ live \in [Chunk -> Nat] /\ None \notin Chunk /\ CtlType
  BY HeapBefore, TypeGivesCtlType DEF MallocStep, PInv, IInv
<1>2. /\ pc'[t] = "cmp_lock" /\ idx'[t] = i /\ ptr'[t] = p
      /\ \A u \in Thread \ {t} : pc'[u] = pc[u] /\ idx'[u] = idx[u] /\ ptr'[u] = ptr[u]
  BY <1>1 DEF CtlType, Goto
<1>3. t \notin Refilling /\ Refilling' = Refilling \cup {t}
  BY <1>1, <1>2 DEF Refilling
<1>4. Reallocating' = Reallocating \cup Opt(p)
  <2>1. \A u \in Refilling : ptr'[u] = ptr[u]
    BY <1>2, <1>3 DEF Refilling
  <2> QED
    BY <1>2, <1>3, <2>1 DEF Reallocating, Opt
<1>5. Request' = [Request EXCEPT ![t] = [class |-> i, old |-> p]]
  BY <1>2, <1>3 DEF Request, Refilling
<1>6. Owned' = Owned
  <2>1. \A q \in Chunk : live'[q] + (IF q \in Reallocating' THEN 1 ELSE 0)
                         = live[q] + IF q \in Reallocating THEN 1 ELSE 0
    <3>1. p # None => p \in Chunk /\ live[p] = 1 /\ p \notin Reallocating
      BY <1>1, HeldIsUsable
    <3>2. \A q \in Chunk : live'[q] = IF q = p THEN live[q] - 1 ELSE live[q]
      BY <1>1 DEF TakeBack
    <3>3. \A q \in Chunk : q \in Reallocating' <=> q \in Reallocating \/ q = p
      BY <1>1, <1>4 DEF Opt
    <3> QED
      BY <1>1, <3>1, <3>2, <3>3
  <2> QED
    BY <2>1 DEF Owned
<1>7. ClassOf' = ClassOf
  BY <1>1 DEF ClassOf, Fresh
<1>8. p = None \/ (H!Usable(p) /\ ClassOf[p] < i)
  BY <1>1, HeldIsUsable, HeapBefore
<1>9. Request[t] = None
  BY <1>1, HeapBefore DEF Refill
<1> QED
  BY <1>5, <1>6, <1>7, <1>8, <1>9 DEF H!Ask

\* The end of a request: thread t leaves the refill.
LEMMA RequestEnds ==
  ASSUME PInv, NEW t \in Thread, pc[t] \in Refill, pc'[t] = "idle",
         \A u \in Thread \ {t} : pc'[u] = pc[u] /\ idx'[u] = idx[u] /\ ptr'[u] = ptr[u]
  PROVE  /\ Request' = [Request EXCEPT ![t] = None]
         /\ \A q \in Chunk : q \in Reallocating' <=> q \in Reallocating /\ q # ptr[t]
<1>1. Refilling' = Refilling \ {t} /\ t \in Refilling
  BY DEF Refilling, Refill
<1>2. Request' = [Request EXCEPT ![t] = None]
  BY <1>1 DEF Request, Refilling
<1>3. Reallocating' = OldsBut(t)
  <2>1. \A u \in Refilling \ {t} : ptr'[u] = ptr[u]
    BY DEF Refilling
  <2> QED
    BY <1>1, <2>1 DEF Reallocating, OldsBut
<1>4. Reallocating = OldsBut(t) \cup Opt(ptr[t]) /\ OldsBut(t) \cap Opt(ptr[t]) = {}
  BY ReallocatingIs, Before DEF Old, Own
<1>5. None \notin OldsBut(t)
  BY DEF OldsBut
<1> QED
  BY <1>2, <1>3, <1>4, <1>5, HeapBefore DEF Opt

LEMMA DeliverIsAnswer ==
  ASSUME PInv, NEW t \in Thread, CmpUnlock(t) \/ Allocate(t), NEW ls, NEW c \in Chunk,
         Owned[c] = 0, live[c] = 0, c \notin Reallocating,
         Deliver(t, ls, live, c, ptr[t]),
         NEW S \in SUBSET Fresh,
         ClassOf' = [q \in Chunk |-> IF q \in S THEN idx[t] ELSE ClassOf[q]],
         c \in S \/ ClassOf[c] = idx[t]
  PROVE  H!Answer(t)
<1>1. /\ pc[t] \in Refill /\ CtlType /\ idx[t] \in Index /\ ptr[t] \in Chunk \cup {None}
      /\ live \in [Chunk -> Nat] /\ None \notin Chunk
  <2>1. pc[t] \in Refill
    BY DEF CmpUnlock, Allocate, Refill
  <2> QED
    BY <2>1, HeapBefore, TypeGivesCtlType DEF PInv, IInv, Control, InHand, CtlType
<1>2. Request[t] # None /\ Request[t].old = ptr[t] /\ Request[t].class = idx[t]
  <2>1. Request[t] = [class |-> idx[t], old |-> ptr[t]] /\ Request[t] # None
    BY <1>1, HeapBefore
  <2> QED
    BY <2>1
<1>3. /\ pc'[t] = "idle"
      /\ \A u \in Thread \ {t} : pc'[u] = pc[u] /\ idx'[u] = idx[u] /\ ptr'[u] = ptr[u]
  BY <1>1, DeliverControl
<1>4. /\ Request' = [Request EXCEPT ![t] = None]
      /\ \A q \in Chunk : q \in Reallocating' <=> q \in Reallocating /\ q # ptr[t]
  BY <1>1, <1>3, RequestEnds
<1>5. ptr[t] # None => ptr[t] \in Reallocating
  BY <1>1, ReallocatingIs DEF Old, Opt
<1>6. c # ptr[t]
  BY <1>1, <1>5
<1>7. \A q \in Chunk : live'[q] = IF q = c THEN 1 ELSE live[q]
  BY <1>1 DEF Deliver, HandOut
<1>8. \A q \in Chunk : Owned'[q] = IF q = c THEN 1
                                   ELSE IF q = ptr[t] THEN Owned[q] - 1 ELSE Owned[q]
  <2>1. \A q \in Chunk : Owned'[q] = live'[q] + IF q \in Reallocating' THEN 1 ELSE 0
    BY DEF Owned
  <2> QED
    BY <1>1, <1>4, <1>5, <1>6, <1>7, <2>1, HeapBefore
<1>9. H!Exchange(ptr[t], c, idx[t])
  BY <1>1, <1>6, <1>8, ExchangeStep
<1> QED
  BY <1>2, <1>4, <1>9 DEF H!Answer

LEMMA CmpUnlockStep ==
  ASSUME PInv, NEW t \in Thread, CmpUnlock(t)
  PROVE  H!Answer(t) \/ UNCHANGED H!vars
<1> DEFINE ml == MallocList(lp[t])
           i  == idx[t]
<1>1. ml \in ListId /\ i \in Index /\ hdr' = hdr /\ CtlType /\ pc[t] = "cmp_unlock"
  BY OwnLists, TypeGivesCtlType DEF CmpUnlock, PInv, IInv, Control, InHand, Refill
<1>2. ASSUME NEW c \in lists[ml][i], Deliver(t, Pop(lists, ml, i, c), live, c, ptr[t])
      PROVE  H!Answer(t)
  <2>1. /\ c \in Chunk /\ live[c] = 0 /\ c \notin Reallocating /\ Owned[c] = 0
        /\ ClassOf[c] = i
    BY <1>1, ListedIsFree
  <2> DEFINE S == {}
  <2>2. S \in SUBSET Fresh /\ ClassOf' = [q \in Chunk |-> IF q \in S THEN i ELSE ClassOf[q]]
    <3>1. ClassOf' = ClassOf
      BY <1>1 DEF ClassOf, Fresh
    <3> QED
      BY <3>1 DEF ClassOf
  <2> HIDE DEF S
  <2> QED
    BY <1>2, <2>1, <2>2, DeliverIsAnswer
<1>3. ASSUME Goto(t, "allocate"), UNCHANGED <<lists, live, idx, ptr>>
      PROVE  UNCHANGED H!vars
  <2>1. /\ pc'[t] \in Refill /\ pc[t] \in Refill
        /\ \A u \in Thread \ {t} : pc'[u] = pc[u]
    BY <1>1, <1>3 DEF Goto, Refill, CtlType
  <2> QED
    BY <1>1, <1>3, <2>1, SameRequests, Unseen
<1> QED
  BY <1>2, <1>3 DEF CmpUnlock

LEMMA AllocateStep ==
  ASSUME PInv, NEW t \in Thread, Allocate(t)
  PROVE  H!Answer(t)
<1> DEFINE ml == MallocList(lp[t])
           i  == idx[t]
<1>1. lp[t] \in Mgr /\ lp[t][1] \in Core /\ i \in Index
  BY OwnLists DEF Allocate, PInv, IInv, Control, InHand, Refill
<1>2. PICK S \in SUBSET Fresh :
        /\ hdr' = [c \in Chunk |-> IF c \in S THEN [core |-> lp[t][1], index |-> i] ELSE hdr[c]]
        /\ \E c \in S : Deliver(t, Pop(Push(lists, ml, i, S), ml, i, c), live, c, ptr[t])
  BY DEF Allocate
<1>3. PICK c \in S : Deliver(t, Pop(Push(lists, ml, i, S), ml, i, c), live, c, ptr[t])
  BY <1>2
<1>4. c \in Chunk /\ live[c] = 0 /\ c \notin Reallocating /\ Owned[c] = 0
  <2>1. c \in Chunk /\ c \notin Held /\ c \notin InCall
    BY DEF Fresh, PInv, Whole, Carved
  <2>2. c \notin Reallocating
    BY <2>1 DEF Reallocating, InCall, Refilling
  <2> QED
    BY <2>1, <2>2, HeapBefore DEF Held
<1>5. ClassOf' = [q \in Chunk |-> IF q \in S THEN i ELSE ClassOf[q]]
  <2>1. [core |-> lp[t][1], index |-> i] # None
    BY <1>1, FCMallocAssumption
  <2>2. \A q \in Chunk : /\ (q \in Fresh)' <=> q \in Fresh /\ q \notin S
                         /\ hdr'[q].index = IF q \in S THEN i ELSE hdr[q].index
    BY <1>2, <2>1 DEF Fresh
  <2> QED
    BY <2>2 DEF ClassOf
<1> QED
  BY <1>3, <1>4, <1>5, DeliverIsAnswer

LEMMA AllocateNoneStep ==
  ASSUME PInv, NEW t \in Thread, AllocateNone(t)
  PROVE  H!Refuse(t)
<1> DEFINE p == ptr[t]
<1>1. /\ pc[t] \in Refill /\ CtlType /\ p \in Chunk \cup {None}
      /\ live \in [Chunk -> Nat] /\ None \notin Chunk /\ hdr' = hdr
      /\ live' = IF p = None THEN live ELSE HandOut(live, p)
  <2>1. pc[t] \in Refill
    BY DEF AllocateNone, Refill
  <2> QED
    BY <2>1, HeapBefore, TypeGivesCtlType DEF PInv, IInv, CtlType, AllocateNone
<1>2. /\ pc'[t] = "idle"
      /\ \A u \in Thread \ {t} : pc'[u] = pc[u] /\ idx'[u] = idx[u] /\ ptr'[u] = ptr[u]
  BY <1>1 DEF AllocateNone, Goto, CtlType
<1>3. /\ Request' = [Request EXCEPT ![t] = None]
      /\ \A q \in Chunk : q \in Reallocating' <=> q \in Reallocating /\ q # p
  BY <1>1, <1>2, RequestEnds
<1>4. p # None => p \in Reallocating
  BY <1>1, ReallocatingIs DEF Old, Opt
<1>5. \A q \in Chunk : live'[q] = IF q = p THEN live[q] + 1 ELSE live[q]
  BY <1>1 DEF HandOut
<1>6. Owned' = Owned
  <2>1. \A q \in Chunk : live'[q] + (IF q \in Reallocating' THEN 1 ELSE 0)
                         = live[q] + IF q \in Reallocating THEN 1 ELSE 0
    BY <1>1, <1>3, <1>4, <1>5
  <2> QED
    BY <2>1 DEF Owned
<1>7. ClassOf' = ClassOf
  BY <1>1 DEF ClassOf, Fresh
<1>8. Request[t] # None
  BY <1>1, HeapBefore
<1> QED
  BY <1>3, <1>6, <1>7, <1>8 DEF H!Refuse

LEMMA MallocStepIsHeap ==
  ASSUME PInv, NEW t \in Thread, NEW i \in Index, NEW p \in Chunk \cup {None},
         MallocStep(t, i, p)
  PROVE  H!Serve(p, i) \/ H!Ask(t, p, i)
<1> DEFINE ml == MallocList(lp[t])
           fl == FreeList(lp[t], lp[t][1])
<1>1. ml \in ListId /\ fl \in ListId
  BY OwnLists, IInvFacts DEF MallocStep, PInv
<1>2. \/ \E c \in lists[ml][i] : \E ls : Deliver(t, ls, TakeBack(live, p), c, p)
      \/ \E c \in lists[fl][i] : \E ls : Deliver(t, ls, TakeBack(live, p), c, p)
      \/ /\ idx' = [idx EXCEPT ![t] = i] /\ ptr' = [ptr EXCEPT ![t] = p]
         /\ live' = TakeBack(live, p) /\ Goto(t, "cmp_lock")
  BY Zenon DEF MallocStep, MallocLocal
<1> HIDE DEF ml, fl
<1> QED
  BY <1>1, <1>2, DeliverIsServe, MallocIsAsk

-----------------------------------------------------------------------------
(* The theorem.                                                            *)

LEMMA HeapInit == Init => H!Init
<1> SUFFICES ASSUME Init PROVE H!Init
  OBVIOUS
<1>1. Refilling = {} /\ Fresh = Chunk
  BY DEF Init, Refilling, Fresh
<1>2. Reallocating = {}
  BY <1>1 DEF Reallocating
<1> QED
  BY <1>1, <1>2 DEF Init, H!Init, Owned, ClassOf, Request

LEMMA HeapStep == PInv /\ [Next]_vars => [H!Next]_H!vars
<1> SUFFICES ASSUME PInv, [Next]_vars PROVE H!Next \/ UNCHANGED H!vars
  OBVIOUS
<1>1. CASE UNCHANGED vars \/ Over
  <2>1. UNCHANGED <<pc, idx, ptr, live, hdr>>
    BY <1>1 DEF Over, vars, tvars
  <2>2. Request' = Request /\ Reallocating' = Reallocating
    BY <2>1 DEF Request, Reallocating, Refilling
  <2> QED
    BY <2>1, <2>2, Unseen
<1>2. ASSUME NEW t \in Thread, Call(t) PROVE H!Next \/ UNCHANGED H!vars
  <2>1. ASSUME NEW i \in Index, NEW p \in Chunk \cup {None}, MallocStep(t, i, p) PROVE H!Next
    BY <2>1, MallocStepIsHeap DEF H!Next
  <2>2. ASSUME NEW p \in Chunk, Free(t, p) \/ GFree(t, p) PROVE H!Next
    BY <2>2, FreeIsFree DEF H!Next
  <2>3. CASE \/ ThreadInit(t) \/ ThreadTerm(t) \/ MainTerm(t)
             \/ NullMalloc(t) \/ \E p \in Chunk : NullFree(t, p)
    BY <2>3, UnseenStep
  <2> QED
    BY <1>2, <2>1, <2>2, <2>3, MallocSteps DEF Call
<1>3. ASSUME NEW t \in Thread, Step(t) PROVE H!Next \/ UNCHANGED H!vars
  <2>1. H!Answer(t) \/ H!Refuse(t) => H!Next
    BY DEF H!Next
  <2>2. CASE CmpUnlock(t)
    BY <2>1, <2>2, CmpUnlockStep
  <2>3. CASE Allocate(t)
    BY <2>1, <2>3, AllocateStep
  <2>4. CASE AllocateNone(t)
    BY <2>1, <2>4, AllocateNoneStep
  <2> QED
    BY <1>3, <2>2, <2>3, <2>4, UnseenStep DEF Step
<1> QED
  BY <1>1, <1>2, <1>3 DEF Next

\* Seen from the application the threads, managers and pools are one heap: a
\* block that malloc or realloc answers with was nobody's, it has the class
\* asked for, and a realloc gives the old block up only for the new one.
THEOREM Implementation == Spec => ImplementsHeap
<1>1. Init => H!Init
  BY HeapInit
<1>2. PInv /\ [Next]_vars => [H!Next]_H!vars
  BY HeapStep
<1> QED
  BY <1>1, <1>2, PInvAlways, PTL DEF Spec, ImplementsHeap, H!Spec
=============================================================================
