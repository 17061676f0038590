----------------------- MODULE FCMallocThreads_proofs -----------------------
(***************************************************************************)
(* There is a manager for every thread that needs one, as long as there    *)
(* are no more threads than managers of a core; and memory to carve, as    *)
(* long as the threads end before the process does.  Then, where chunks    *)
(* can come from while a thread waits for a mutex.                         *)
(***************************************************************************)
EXTENDS FCMalloc_proofs, FiniteSetTheorems

\* Every manager marked as in use is held by a thread.
Flagged == \A m \in Mgr : poolFlags[m] => \E t \in Thread : m \in Holds(t)

\* A thread is without a manager only before its first call and after its
\* last, and only then does it borrow one.
HasManager ==
  \A t \in Thread :
    /\ lp[t] # None \/ pc[t] = "new" \/ t \in ended
    /\ pc[t] \in Releasing \cup {"gfree_unlock"} => t \in ended
    /\ pc[t] \notin {"fault", "unmapped"}

\* A thread that has ended has no manager but the one it is releasing, and the
\* MmapManager is there until all of them have ended.
Exited ==
  /\ \A t \in ended : /\ pc[t] \notin {"new", "init_unlock"}
                      /\ pc[t] \notin Releasing => lp[t] = None
  /\ ~mmUp => ended = Thread

MInv == IInv /\ Flagged /\ HasManager /\ Exited

LEMMA ModInjective ==
  ASSUME NEW n \in Nat \ {0}, NEW a \in 0 .. n - 1, NEW i \in 0 .. n - 1, NEW j \in 0 .. n - 1,
         (a + i) % n = (a + j) % n
  PROVE  i = j
<1>1. \A x \in 0 .. n - 1 : x % n = x /\ (x + n) % n = x
  OBVIOUS
<1>2. \A x \in 0 .. n - 1 : (a + x) % n = IF a + x < n THEN a + x ELSE a + x - n
  <2> SUFFICES ASSUME NEW x \in 0 .. n - 1
               PROVE (a + x) % n = IF a + x < n THEN a + x ELSE a + x - n
    OBVIOUS
  <2>1. CASE a + x < n
    <3>1. a + x \in 0 .. n - 1
      BY <2>1
    <3> QED
      BY <1>1, <2>1, <3>1
  <2>2. CASE ~(a + x < n)
    <3> DEFINE y == a + x - n
    <3>1. y \in 0 .. n - 1 /\ a + x = y + n
      BY <2>2
    <3> HIDE DEF y
    <3>2. (a + x) % n = y
      BY <1>1, <3>1
    <3> QED
      BY <2>2, <3>2 DEF y
  <2> QED
    BY <2>1, <2>2
<1> QED
  BY <1>2

\* A thread that holds no manager finds one: the others hold fewer than a
\* core has.
LEMMA ThereIsOne ==
  ASSUME IsFiniteSet(Thread), Cardinality(Thread) <= PoolN,
         MInv, NEW t \in Thread, Holds(t) = {}, NEW core \in Core
  PROVE  IdleManager(core) # None
<1> SUFFICES ASSUME IdleManager(core) = None PROVE FALSE
  OBVIOUS
<1> DEFINE At(i) == <<core, (NextOffset + i) % PoolN>>
           U     == Thread \ {t}
           f     == [i \in Slot |-> CHOOSE u \in U : At(i) \in Holds(u)]
<1>1. PoolN \in Nat \ {0} /\ NextOffset \in 0 .. PoolN - 1
  <2>1. PoolN \in Nat \ {0}
    BY SizesAssumption
  <2>2. offset + 1 \in Nat
    BY <2>1 DEF MInv, IInv, TypeOK, Slot
  <2> QED
    BY <2>1, <2>2, ModRange DEF NextOffset
<1>2. \A i \in Slot : At(i) \in Mgr /\ poolFlags[At(i)]
  <2>1. \A i \in Slot : At(i) \in Mgr
    <3> SUFFICES ASSUME NEW i \in Slot PROVE At(i) \in Mgr
      OBVIOUS
    <3>1. NextOffset + i \in Nat
      BY <1>1 DEF Slot
    <3>2. (NextOffset + i) % PoolN \in Slot
      BY <1>1, <3>1, ModRange DEF Slot
    <3> QED
      BY <3>2 DEF Mgr
  <2>2. \A i \in Slot : At(i) # None
    BY <2>1, FCMallocAssumption
  <2>3. {i \in Slot : ~poolFlags[At(i)]} = {}
    <3> DEFINE free == {i \in Slot : ~poolFlags[At(i)]}
               k    == CHOOSE i \in free : \A j \in free : i <= j
    <3>1. IdleManager(core) = IF free = {} THEN None ELSE At(k)
      BY DEF IdleManager
    <3>2. free \in SUBSET Nat /\ free \subseteq Slot
      BY <1>1 DEF Slot
    <3> HIDE DEF free
    <3>3. free # {} => k \in free
      BY <3>2, Least
    <3> HIDE DEF k
    <3>4. free = {}
      BY <2>2, <3>1, <3>2, <3>3
    <3> QED
      BY <3>4 DEF free
  <2> QED
    BY <2>1, <2>3
<1>3. \A i \in Slot : \E u \in U : At(i) \in Holds(u)
  BY <1>2 DEF MInv, Flagged
<1>4. f \in [Slot -> U] /\ \A i \in Slot : At(i) \in Holds(f[i])
  BY <1>3
<1>5. IsFiniteSet(Slot) /\ Cardinality(Slot) = PoolN
  BY <1>1, FS_Interval DEF Slot
<1>6. IsFiniteSet(U) /\ Cardinality(U) < Cardinality(Slot)
  <2>1. IsFiniteSet(U) /\ Cardinality(U) = Cardinality(Thread) - 1 /\ Cardinality(Thread) \in Nat
    BY FS_RemoveElement, FS_CardinalityType
  <2> QED
    BY <1>1, <1>5, <2>1
<1> HIDE DEF f
<1>7. PICK x, y \in Slot : x # y /\ f[x] = f[y]
  BY <1>4, <1>5, <1>6, FS_PigeonHole
<1>8. \A u \in Thread : \A m, n \in Holds(u) : m = n
  BY DEF MInv, IInv, Control, InHand, Holds
<1>9. At(x) = At(y)
  BY <1>4, <1>7, <1>8
<1>10. (NextOffset + x) % PoolN = (NextOffset + y) % PoolN
  BY <1>9
<1> HIDE DEF At
<1> QED
  BY <1>1, <1>7, <1>10, ModInjective DEF Slot

LEMMA MInvInit == Init => MInv
BY IInvInit, FCMallocAssumption DEF MInv, Flagged, HasManager, Exited, Init, Releasing

\* A step of a thread that leaves the managers alone.
LEMMA SameManagers ==
  ASSUME MInv, NEW t \in Thread, UNCHANGED <<poolFlags, lp, gm>>,
         ended \subseteq ended',
         \A u \in Thread \ {t} : pc'[u] = pc[u],
         pc[t] # "new",
         pc'[t] \in Releasing => t \in ended,
         pc'[t] \notin {"new", "gfree_unlock", "fault", "unmapped"}
  PROVE  Flagged' /\ HasManager'
<1>1. Flagged'
  BY DEF MInv, Flagged, Holds
<1>2. ASSUME NEW u \in Thread
      PROVE  /\ lp'[u] # None \/ pc'[u] = "new" \/ u \in ended'
             /\ pc'[u] \in Releasing \cup {"gfree_unlock"} => u \in ended'
             /\ pc'[u] \notin {"fault", "unmapped"}
  BY DEF MInv, HasManager
<1> QED
  BY <1>1, <1>2 DEF HasManager

LEMMA MallocManagers ==
  ASSUME MInv, NEW t \in Thread, NEW i \in Index, NEW p \in Chunk \cup {None},
         MallocStep(t, i, p)
  PROVE  Flagged' /\ HasManager'
<1>1. /\ UNCHANGED <<poolFlags, lp, gm, ended>> /\ pc[t] = "idle"
      /\ Goto(t, "idle") \/ Goto(t, "cmp_lock")
  BY DEF MallocStep, MallocLocal, Deliver, gvars
<1> QED
  BY <1>1, SameManagers DEF MInv, IInv, TypeOK, Goto, Releasing

LEMMA PlainManagers ==
  ASSUME MInv, NEW t \in Thread,
         \/ CmpRefill(t) \/ CmpUnlock(t) \/ Allocate(t) \/ AllocateNone(t)
         \/ Flush(t) \/ FlushUnlock(t) \/ \E p \in Chunk : Free(t, p)
  PROVE  Flagged' /\ HasManager'
<1> DEFINE Some == /\ UNCHANGED <<poolFlags, lp, gm, ended>> /\ pc[t] # "new"
                   /\ \/ Goto(t, "idle") \/ Goto(t, "cmp_unlock") \/ Goto(t, "allocate")
                      \/ Goto(t, "flush_lock") \/ Goto(t, "flush_unlock")
<1>1. CmpRefill(t) => Some
  BY DEF CmpRefill, gvars
<1>2. CmpUnlock(t) => Some
  BY DEF CmpUnlock, Deliver, gvars
<1>3. Allocate(t) => Some
  BY DEF Allocate, Deliver, gvars
<1>4. AllocateNone(t) => Some
  BY DEF AllocateNone, gvars
<1>5. Flush(t) => Some
  BY DEF Flush, gvars
<1>6. FlushUnlock(t) => Some
  BY DEF FlushUnlock, gvars
<1>7. ASSUME NEW p \in Chunk, Free(t, p) PROVE Some
  BY <1>7 DEF Free, gvars
<1>8. Some
  BY <1>1, <1>2, <1>3, <1>4, <1>5, <1>6, <1>7
<1> QED
  BY <1>8, SameManagers DEF MInv, IInv, TypeOK, Goto, Releasing

\* A manager that is found was nobody's.
LEMMA TakeManagers ==
  ASSUME IsFiniteSet(Thread), Cardinality(Thread) <= PoolN,
         MInv, NEW t \in Thread, ThreadInit(t) \/ \E p \in Chunk : GFree(t, p)
  PROVE  Flagged' /\ HasManager'
<1>1. /\ lp \in [Thread -> Mgr \cup {None}] /\ gm \in [Thread -> Mgr \cup {None}]
      /\ pc \in [Thread -> PC]
  BY DEF MInv, IInv, TypeOK
<1>2. CASE ThreadInit(t)
  <2>1. Holds(t) = {}
    BY <1>2 DEF ThreadInit, MInv, IInv, Control, InHand, Holds, Releasing
  <2>2. PICK core \in Core : lp' = [lp EXCEPT ![t] = IdleManager(core)]
    BY <1>2 DEF ThreadInit
  <2>3. lp'[t] # None
    BY <1>1, <2>1, <2>2, ThereIsOne
  <2>4. /\ UNCHANGED <<poolFlags, gm, ended>> /\ pc' = [pc EXCEPT ![t] = "init_unlock"]
    BY <1>2 DEF ThreadInit, Goto
  <2>5. Flagged'
    <3> SUFFICES ASSUME NEW m \in Mgr, poolFlags[m]
                 PROVE  \E u \in Thread : m \in Holds(u)'
      BY <2>4 DEF Flagged
    <3>1. PICK u \in Thread : m \in Holds(u)
      BY DEF MInv, Flagged
    <3> QED
      BY <1>1, <2>1, <2>2, <2>4, <3>1 DEF Holds
  <2>6. HasManager'
    BY <1>1, <2>2, <2>3, <2>4 DEF MInv, HasManager, Releasing
  <2> QED
    BY <2>5, <2>6
<1>3. ASSUME NEW p \in Chunk, GFree(t, p) PROVE Flagged' /\ HasManager'
  <2>1. Holds(t) = {} /\ t \in ended
    BY <1>3 DEF GFree, MInv, IInv, Control, InHand, HasManager, Holds, Releasing
  <2>2. /\ gm' = [gm EXCEPT ![t] = IdleManager(hdr[p].core)]
        /\ UNCHANGED <<poolFlags, lp, ended>> /\ pc' = [pc EXCEPT ![t] = "gfree_unlock"]
    BY <1>3 DEF GFree, Goto
  <2>3. Flagged'
    <3> SUFFICES ASSUME NEW m \in Mgr, poolFlags[m]
                 PROVE  \E u \in Thread : m \in Holds(u)'
      BY <2>2 DEF Flagged
    <3>1. PICK u \in Thread : m \in Holds(u)
      BY DEF MInv, Flagged
    <3> QED
      BY <1>1, <2>1, <2>2, <3>1 DEF Holds
  <2>4. HasManager'
    BY <1>1, <2>1, <2>2 DEF MInv, HasManager, Releasing
  <2> QED
    BY <2>3, <2>4
<1> QED
  BY <1>2, <1>3

LEMMA MarkManagers ==
  ASSUME MInv, NEW t \in Thread, InitUnlock(t) \/ GFreeUnlock(t) \/ ReleaseUnlock(t)
  PROVE  Flagged' /\ HasManager'
<1>1. /\ lp \in [Thread -> Mgr \cup {None}] /\ gm \in [Thread -> Mgr \cup {None}]
      /\ pc \in [Thread -> PC] /\ poolFlags \in [Mgr -> BOOLEAN]
  BY DEF MInv, IInv, TypeOK
<1>2. CASE InitUnlock(t)
  <2>1. /\ poolFlags' = [n \in Mgr |-> poolFlags[n] \/ n = lp[t]]
        /\ UNCHANGED <<lp, gm, ended>> /\ pc' = [pc EXCEPT ![t] = "idle"]
        /\ pc[t] = "init_unlock"
    BY <1>2 DEF InitUnlock, TakeManager, Goto
  <2>2. \A m \in Mgr : m # None
    BY FCMallocAssumption
  <2>3. Flagged'
    BY <2>1, <2>2 DEF MInv, Flagged, Holds
  <2>4. HasManager'
    BY <1>1, <2>1 DEF MInv, HasManager, Releasing
  <2> QED
    BY <2>3, <2>4
<1>3. CASE GFreeUnlock(t)
  <2>1. /\ poolFlags' = [n \in Mgr |-> poolFlags[n] \/ n = gm[t]]
        /\ UNCHANGED <<lp, gm, ended>> /\ pc' = [pc EXCEPT ![t] = "rel_lock"]
        /\ pc[t] = "gfree_unlock"
    BY <1>3 DEF GFreeUnlock, TakeManager, Goto
  <2>2. \A m \in Mgr : m # None
    BY FCMallocAssumption
  <2>3. Flagged'
    BY <2>1, <2>2 DEF MInv, Flagged, Holds
  <2>4. HasManager'
    BY <1>1, <2>1 DEF MInv, HasManager, Releasing
  <2> QED
    BY <2>3, <2>4
<1>4. CASE ReleaseUnlock(t)
  <2>1. /\ poolFlags' = [poolFlags EXCEPT ![gm[t]] = FALSE]
        /\ gm' = [gm EXCEPT ![t] = None] /\ lp' = [lp EXCEPT ![t] = None]
        /\ ended' = ended /\ pc' = [pc EXCEPT ![t] = "idle"] /\ pc[t] = "rel_unlock"
    BY <1>4 DEF ReleaseUnlock, Goto
  <2>2. gm[t] \in Mgr /\ lp[t] \in {gm[t], None} /\ t \in ended
    BY <2>1 DEF MInv, IInv, Control, InHand, HasManager, Releasing
  <2>3. Flagged'
    <3> SUFFICES ASSUME NEW m \in Mgr, poolFlags'[m]
                 PROVE  \E u \in Thread : m \in Holds(u)'
      BY DEF Flagged
    <3>1. m # gm[t] /\ poolFlags[m]
      BY <1>1, <2>1, <2>2
    <3>2. PICK u \in Thread : m \in Holds(u)
      BY <3>1 DEF MInv, Flagged
    <3>3. u # t
      BY <2>2, <3>1, <3>2 DEF Holds
    <3> QED
      BY <1>1, <2>1, <3>2, <3>3 DEF Holds
  <2>4. HasManager'
    BY <1>1, <2>1, <2>2 DEF MInv, HasManager, Releasing
  <2> QED
    BY <2>3, <2>4
<1> QED
  BY <1>2, <1>3, <1>4

LEMMA EndManagers ==
  ASSUME MInv, NEW t \in Thread,
         ThreadTerm(t) \/ FreeLocalMemoryManager(t) \/ MainTerm(t)
  PROVE  Flagged' /\ HasManager'
<1>1. /\ lp \in [Thread -> Mgr \cup {None}] /\ gm \in [Thread -> Mgr \cup {None}]
      /\ pc \in [Thread -> PC]
  BY DEF MInv, IInv, TypeOK
<1>2. CASE ThreadTerm(t)
  <2>1. /\ gm' = [gm EXCEPT ![t] = lp[t]] /\ ended' = ended \cup {t}
        /\ UNCHANGED <<poolFlags, lp>> /\ pc[t] = "idle" /\ gm[t] = None
        /\ pc' = [pc EXCEPT ![t] = IF lp[t] = None THEN "idle" ELSE "rel_lock"]
    BY <1>2 DEF ThreadTerm, Goto, gvars, MInv, IInv, Control, InHand, Releasing
  <2>2. \A u \in Thread : Holds(u)' = Holds(u)
    BY <1>1, <2>1 DEF Holds
  <2>3. Flagged'
    BY <2>1, <2>2 DEF MInv, Flagged
  <2>4. HasManager'
    BY <1>1, <2>1 DEF MInv, HasManager, Releasing
  <2> QED
    BY <2>3, <2>4
<1>3. CASE FreeLocalMemoryManager(t)
  <2>1. /\ UNCHANGED <<poolFlags, lp, gm, ended>> /\ pc[t] = "rel_lock"
        /\ pc' = [pc EXCEPT ![t] = "rel_unlock"]
    BY <1>3 DEF FreeLocalMemoryManager, Goto
  <2> QED
    BY <1>1, <2>1 DEF MInv, Flagged, HasManager, Holds, Releasing
<1>4. CASE MainTerm(t)
  <2>1. UNCHANGED <<poolFlags, lp, gm, ended, pc>>
    BY <1>4 DEF MainTerm, gvars, tvars
  <2> QED
    BY <2>1 DEF MInv, Flagged, HasManager, Holds
<1> QED
  BY <1>2, <1>3, <1>4

\* A step that leaves the managers, the ends of threads and mm alone.
LEMMA SameExited ==
  ASSUME MInv, NEW t \in Thread, UNCHANGED <<lp, ended, mmUp>>,
         \A u \in Thread \ {t} : pc'[u] = pc[u],
         pc'[t] \notin {"new", "init_unlock"},
         pc[t] \in Releasing => pc'[t] \in Releasing \/ lp[t] = None
  PROVE  Exited'
<1>1. ended \subseteq Thread
  BY DEF MInv, IInv, TypeOK
<1> QED
  BY <1>1 DEF MInv, Exited

LEMMA ExitedCall ==
  ASSUME Joined, MInv, NEW t \in Thread, Call(t)
  PROVE  Exited'
<1>1. pc \in [Thread -> PC] /\ ended \subseteq Thread /\ lp \in [Thread -> Mgr \cup {None}]
  BY DEF MInv, IInv, TypeOK
<1>2. CASE ThreadInit(t)
  <2>1. /\ pc[t] = "new" /\ pc' = [pc EXCEPT ![t] = "init_unlock"]
        /\ \A u \in Thread \ {t} : lp'[u] = lp[u]
        /\ UNCHANGED <<ended, mmUp>>
    BY <1>1, <1>2 DEF ThreadInit, Goto, cvars
  <2> QED
    BY <1>1, <2>1 DEF MInv, Exited
<1>3. CASE ThreadTerm(t)
  <2>1. /\ pc' = [pc EXCEPT ![t] = IF lp[t] = None THEN "idle" ELSE "rel_lock"]
        /\ ended' = ended \cup {t} /\ UNCHANGED <<lp, mmUp>>
    BY <1>3 DEF ThreadTerm, Goto, cvars
  <2> QED
    BY <1>1, <2>1 DEF MInv, Exited, Releasing
<1>4. CASE MainTerm(t)
  <2>1. UNCHANGED <<lp, ended, pc>> /\ ended = Thread
    BY <1>4 DEF MainTerm, tvars
  <2> QED
    BY <2>1 DEF MInv, Exited
<1>5. CASE ~ThreadInit(t) /\ ~ThreadTerm(t) /\ ~MainTerm(t)
  <2>1. ASSUME NEW i \in Index, NEW p \in Chunk \cup {None}, MallocStep(t, i, p) PROVE Exited'
    <3>1. /\ UNCHANGED <<lp, ended, mmUp>> /\ lp[t] # None /\ pc[t] = "idle"
          /\ Goto(t, "idle") \/ Goto(t, "cmp_lock")
      BY <2>1 DEF MallocStep, MallocLocal, Deliver, cvars
    <3> QED
      BY <1>1, <3>1, SameExited DEF Goto, Releasing
  <2>2. ASSUME NEW p \in Chunk, Free(t, p) PROVE Exited'
    <3>1. /\ UNCHANGED <<lp, ended, mmUp>> /\ lp[t] # None /\ pc[t] = "idle"
          /\ Goto(t, "idle") \/ Goto(t, "flush_lock")
      BY <2>2 DEF Free
    <3> QED
      BY <1>1, <3>1, SameExited DEF Goto, Releasing
  <2>3. ASSUME NEW p \in Chunk, GFree(t, p) PROVE Exited'
    <3>1. UNCHANGED <<lp, ended, mmUp>> /\ lp[t] = None /\ Goto(t, "gfree_unlock")
      BY <2>3 DEF GFree, cvars
    <3> QED
      BY <1>1, <3>1, SameExited DEF Goto
  <2>4. CASE NullMalloc(t) \/ \E p \in Chunk : NullFree(t, p)
    <3>1. UNCHANGED <<lp, ended, mmUp>> /\ lp[t] = None /\ Goto(t, "fault")
      BY <2>4 DEF NullMalloc, NullFree, cvars
    <3> QED
      BY <1>1, <3>1, SameExited DEF Goto
  <2> QED
    BY <1>5, <2>1, <2>2, <2>3, <2>4, MallocSteps DEF Call
<1> QED
  BY <1>2, <1>3, <1>4, <1>5

LEMMA ExitedStep ==
  ASSUME MInv, NEW t \in Thread, Step(t)
  PROVE  Exited'
<1>1. pc \in [Thread -> PC] /\ ended \subseteq Thread /\ lp \in [Thread -> Mgr \cup {None}]
  BY DEF MInv, IInv, TypeOK
<1>2. CASE InitUnlock(t)
  <2>1. /\ pc[t] = "init_unlock" /\ pc' = [pc EXCEPT ![t] = "idle"]
        /\ UNCHANGED <<lp, ended, mmUp>>
    BY <1>2 DEF InitUnlock, Goto, cvars
  <2> QED
    BY <1>1, <2>1 DEF MInv, Exited
<1>3. CASE \/ CmpRefill(t) \/ CmpUnlock(t) \/ Allocate(t) \/ AllocateNone(t)
           \/ AllocateUnmapped(t) \/ Flush(t) \/ FlushUnlock(t)
  <2>1. /\ UNCHANGED <<lp, ended, mmUp>> /\ pc[t] \in Refill \cup Flushing
        /\ \/ Goto(t, "idle") \/ Goto(t, "cmp_unlock") \/ Goto(t, "allocate")
           \/ Goto(t, "flush_lock") \/ Goto(t, "flush_unlock") \/ Goto(t, "unmapped")
    BY <1>3 DEF CmpRefill, CmpUnlock, Allocate, AllocateNone, AllocateUnmapped, Flush,
                FlushUnlock, Deliver, cvars, Refill, Flushing
  <2>2. lp[t] # None
    BY <2>1, FCMallocAssumption DEF MInv, IInv, Control, InHand
  <2> QED
    BY <1>1, <2>1, <2>2, SameExited DEF Goto, Releasing, Refill, Flushing
<1>4. CASE GFreeUnlock(t) \/ FreeLocalMemoryManager(t)
  <2>1. /\ UNCHANGED <<lp, ended, mmUp>>
        /\ Goto(t, "rel_lock") \/ Goto(t, "rel_unlock")
    BY <1>4 DEF GFreeUnlock, FreeLocalMemoryManager, cvars
  <2> QED
    BY <1>1, <2>1, SameExited DEF Goto, Releasing
<1>5. CASE ReleaseUnlock(t)
  <2>1. /\ pc' = [pc EXCEPT ![t] = "idle"] /\ lp' = [lp EXCEPT ![t] = None]
        /\ UNCHANGED <<ended, mmUp>>
    BY <1>5 DEF ReleaseUnlock, Goto, cvars
  <2> QED
    BY <1>1, <2>1 DEF MInv, Exited
<1> QED
  BY <1>2, <1>3, <1>4, <1>5 DEF Step

\* The calls that have no manager to work with are never reached, nor is the
\* allocation of a batch once mm is gone.
LEMMA NoNullCalls ==
  ASSUME IsFiniteSet(Thread), Cardinality(Thread) <= PoolN, ~LateMalloc,
         MInv, NEW t \in Thread
  PROVE  /\ ~NullMalloc(t) /\ \A p \in Chunk : ~NullFree(t, p)
         /\ ~AllocateUnmapped(t)
<1>1. ~NullMalloc(t)
  BY DEF NullMalloc, MInv, HasManager
<1>2. ASSUME NEW p \in Chunk, NullFree(t, p) PROVE FALSE
  <2>1. Holds(t) = {}
    BY <1>2 DEF NullFree, MInv, IInv, Control, InHand, Holds, Releasing
  <2>2. hdr[p].core \in Core
    BY <1>2, IInvFacts DEF NullFree, MInv, Header
  <2> QED
    BY <1>2, <2>1, <2>2, ThereIsOne DEF NullFree
<1>3. ASSUME AllocateUnmapped(t) PROVE FALSE
  <2>1. pc[t] \in Refill \ Releasing /\ ~mmUp
    BY <1>3 DEF AllocateUnmapped, Refill, Releasing
  <2>2. lp[t] # None
    BY <2>1, FCMallocAssumption DEF MInv, IInv, Control, InHand
  <2> QED
    BY <2>1, <2>2 DEF MInv, Exited
<1> QED
  BY <1>1, <1>2, <1>3

LEMMA MInvStep ==
  ASSUME IsFiniteSet(Thread), Cardinality(Thread) <= PoolN, ~LateMalloc, Joined
  PROVE  MInv /\ [Next]_vars => MInv'
<1> SUFFICES ASSUME MInv, [Next]_vars PROVE MInv'
  OBVIOUS
<1>1. IInv'
  BY TypeStep, ControlStep, HomeStep DEF MInv, IInv
<1>2. UNCHANGED vars \/ Over => Flagged' /\ HasManager' /\ Exited'
  BY DEF Over, vars, gvars, cvars, tvars, MInv, Flagged, HasManager, Exited, Holds
<1>3. ASSUME NEW t \in Thread, Call(t) PROVE Flagged' /\ HasManager'
  BY <1>3, MallocSteps, MallocManagers, PlainManagers, TakeManagers, EndManagers, NoNullCalls
  DEF Call
<1>4. ASSUME NEW t \in Thread, Step(t) PROVE Flagged' /\ HasManager'
  BY <1>4, PlainManagers, MarkManagers, EndManagers, NoNullCalls DEF Step
<1>5. Flagged' /\ HasManager' /\ Exited'
  BY <1>2, <1>3, <1>4, ExitedCall, ExitedStep DEF Next
<1> QED
  BY <1>1, <1>5 DEF MInv

\* No call ever runs into a null manager or into the arrays that mainTerm has
\* unmapped, and the ASSERT(lp != nullptr) of threadInit holds, if there are
\* never more threads than managers of a core, no code calls malloc after its
\* thread's destructor has run, and the threads end before the process does.
THEOREM AlwaysServed ==
  ASSUME IsFiniteSet(Thread), Cardinality(Thread) <= PoolN, ~LateMalloc, Joined
  PROVE  Spec => [](NoFault /\ EveryThreadHasManager)
<1>1. MInv => NoFault /\ EveryThreadHasManager
  BY DEF MInv, HasManager, NoFault, Crashed, EveryThreadHasManager
<1>2. MInv /\ [Next]_vars => MInv'
  BY MInvStep
<1> QED
  BY <1>1, <1>2, MInvInit, PTL DEF Spec

-----------------------------------------------------------------------------
(* Where chunks can come from while a thread waits for a mutex: fresh      *)
(* memory is carved only by a thread whose lists are still dry, and a      *)
(* flush leaves nothing behind.  Both rest on one fact, that a step of a   *)
(* thread puts chunks on its own lists, on those of the pools and on those *)
(* of idle managers only (Flow).                                           *)

\* The lists that a step of thread t may put chunks on.
Reach(t) ==
  {MallocList(m) : m \in Holds(t)} \cup {FreeList(m, k) : m \in Holds(t), k \in Core}
  \cup PoolLists \cup {MallocList(m) : m \in {n \in Mgr : ~poolFlags[n]}}

\* The lists ls have at most these chunks more than the lists of the state.
Grown(t, ls) ==
  \A l \in ListId, i \in Index : \A c : c \in ls[l][i] => c \in lists[l][i] \/ l \in Reach(t)

LEMMA ReachOwn ==
  ASSUME IInv, NEW t \in Thread, lp[t] # None
  PROVE  /\ lp[t] \in Mgr /\ lp[t][1] \in Core /\ MallocList(lp[t]) \in Reach(t)
         /\ \A k \in Core : FreeList(lp[t], k) \in Reach(t)
<1>1. lp[t] \in Holds(t) /\ lp[t] \in Mgr
  BY IInvFacts DEF Holds
<1> QED
  BY <1>1, ListIdType DEF Reach

LEMMA DeliverFlow ==
  ASSUME IInv, NEW t \in Thread, lp[t] # None, NEW ls \in Lists(Chunk), Grown(t, ls),
         NEW lv, NEW c, NEW p \in Chunk \cup {None}, p # None => hdr[p] \in Header,
         Deliver(t, ls, lv, c, p)
  PROVE  Grown(t, lists')
<1>1. CASE p = None
  BY <1>1 DEF Deliver
<1>2. CASE p # None
  <2>1. lists' = LocalFree(ls, lp[t], p) /\ hdr[p].core \in Core
    BY <1>2 DEF Deliver, Header
  <2>2. \A l \in ListId, i \in Index : \A d :
          d \in lists'[l][i] => d \in ls[l][i] \/ l = FreeList(lp[t], hdr[p].core)
    BY <1>2, <2>1, ReachOwn, LocalFreeLists
  <2> QED
    BY <2>1, <2>2, ReachOwn DEF Grown
<1> QED
  BY <1>1, <1>2

LEMMA MallocFlow ==
  ASSUME IInv, NEW t \in Thread, NEW i \in Index, NEW p \in Chunk \cup {None},
         MallocStep(t, i, p)
  PROVE  Grown(t, lists')
<1> DEFINE ml == MallocList(lp[t])
           fl == FreeList(lp[t], lp[t][1])
<1>1. /\ lp[t] # None /\ lp[t] \in Mgr /\ lists \in Lists(Chunk)
      /\ p # None => hdr[p] \in Header
  BY IInvFacts DEF MallocStep
<1>2. ml \in ListId /\ fl \in ListId /\ ml # fl /\ ml \in Reach(t) /\ fl \in Reach(t)
  BY <1>1, OwnLists, ReachOwn
<1> HIDE DEF ml, fl
<1>3. ASSUME NEW c, Deliver(t, Pop(lists, ml, i, c), TakeBack(live, p), c, p)
      PROVE  Grown(t, lists')
  <2>1. Pop(lists, ml, i, c) \in Lists(Chunk) /\ Grown(t, Pop(lists, ml, i, c))
    BY <1>1, <1>2, PopLists DEF Grown
  <2> QED
    BY <1>1, <1>3, <2>1, DeliverFlow
<1>4. ASSUME NEW c, Deliver(t, Pop(Swap(lists, ml, fl, i), ml, i, c), TakeBack(live, p), c, p)
      PROVE  Grown(t, lists')
  <2> DEFINE ks == Swap(lists, ml, fl, i)
  <2>1. ks \in Lists(Chunk) /\ Grown(t, ks)
    BY <1>1, <1>2, SwapLists DEF Grown
  <2>2. Deliver(t, Pop(ks, ml, i, c), TakeBack(live, p), c, p)
    BY <1>4
  <2> HIDE DEF ks
  <2>3. Pop(ks, ml, i, c) \in Lists(Chunk) /\ Grown(t, Pop(ks, ml, i, c))
    BY <1>2, <2>1, PopLists DEF Grown
  <2> QED
    BY <1>1, <2>2, <2>3, DeliverFlow
<1>5. UNCHANGED lists => Grown(t, lists')
  BY DEF Grown
<1> QED
  BY <1>3, <1>4, <1>5, Zenon DEF MallocStep, MallocLocal, ml, fl

LEMMA RefillFlow ==
  ASSUME IInv, NEW t \in Thread,
         CmpRefill(t) \/ CmpUnlock(t) \/ Allocate(t) \/ AllocateNone(t)
  PROVE  Grown(t, lists')
<1> DEFINE m  == lp[t]
           ml == MallocList(m)
           pl == PoolList(m[1])
           i  == idx[t]
           p  == ptr[t]
<1>1. /\ m # None /\ m \in Mgr /\ i \in Index /\ lists \in Lists(Chunk)
      /\ p \in Chunk \cup {None} /\ (p # None => hdr[p] \in Header)
  <2>1. pc[t] \in Refill
    BY DEF CmpRefill, CmpUnlock, Allocate, AllocateNone, Refill
  <2>2. m \in Mgr /\ i \in Index /\ p \in Chunk \cup {None}
    BY <2>1 DEF IInv, TypeOK, Control, InHand
  <2>3. p # None => p \in InCall
    BY DEF InCall
  <2> QED
    BY <2>2, <2>3, IInvFacts, FCMallocAssumption
<1>2. ml \in ListId /\ pl \in ListId /\ ml # pl /\ ml \in Reach(t)
  BY <1>1, OwnLists, ReachOwn
<1> HIDE DEF m, ml, pl, i, p
<1>3. CASE CmpRefill(t)
  <2>1. PICK S \in SUBSET lists[pl][i] : lists' = MoveChunks(lists, pl, ml, i, S)
    BY <1>3 DEF CmpRefill, m, ml, pl, i
  <2> QED
    BY <1>1, <1>2, <2>1, MoveLists DEF Grown
<1>4. CASE CmpUnlock(t)
  <2>1. ASSUME NEW c, Deliver(t, Pop(lists, ml, i, c), live, c, p)
        PROVE  Grown(t, lists')
    <3>1. Pop(lists, ml, i, c) \in Lists(Chunk) /\ Grown(t, Pop(lists, ml, i, c))
      BY <1>1, <1>2, PopLists DEF Grown
    <3> QED
      BY <1>1, <2>1, <3>1, DeliverFlow DEF m
  <2>2. UNCHANGED lists => Grown(t, lists')
    BY DEF Grown
  <2> QED
    BY <1>4, <2>1, <2>2 DEF CmpUnlock, m, ml, i, p
<1>5. CASE Allocate(t)
  <2>1. PICK S \in SUBSET Fresh :
          \E c \in S : Deliver(t, Pop(Push(lists, ml, i, S), ml, i, c), live, c, p)
    BY <1>5 DEF Allocate, m, ml, i, p
  <2>2. PICK c \in S : Deliver(t, Pop(Push(lists, ml, i, S), ml, i, c), live, c, p)
    BY <2>1
  <2> DEFINE ks == Push(lists, ml, i, S)
  <2>3. S \in SUBSET Chunk
    BY DEF Fresh
  <2>4. ks \in Lists(Chunk) /\ Grown(t, ks)
    BY <1>1, <1>2, <2>3, PushLists DEF Grown
  <2>5. Deliver(t, Pop(ks, ml, i, c), live, c, p)
    BY <2>2
  <2> HIDE DEF ks
  <2>6. Pop(ks, ml, i, c) \in Lists(Chunk) /\ Grown(t, Pop(ks, ml, i, c))
    BY <1>1, <1>2, <2>4, PopLists DEF Grown
  <2> QED
    BY <1>1, <2>5, <2>6, DeliverFlow DEF m
<1>6. CASE AllocateNone(t)
  BY <1>6 DEF AllocateNone, Grown
<1> QED
  BY <1>3, <1>4, <1>5, <1>6

LEMMA FreeFlow ==
  ASSUME IInv, NEW t \in Thread, (\E p \in Chunk : Free(t, p)) \/ GFreeUnlock(t)
  PROVE  Grown(t, lists')
<1>1. PICK m \in Holds(t), p \in Chunk : lists' = LocalFree(lists, m, p) /\ hdr[p] \in Header
  <2>1. ASSUME NEW p \in Chunk, Free(t, p)
        PROVE  \E m \in Holds(t), q \in Chunk :
                 lists' = LocalFree(lists, m, q) /\ hdr[q] \in Header
    <3>1. lp[t] \in Holds(t) /\ hdr[p] \in Header
      BY <2>1, IInvFacts DEF Free, Holds
    <3> QED
      BY <2>1, <3>1 DEF Free
  <2>2. ASSUME GFreeUnlock(t)
        PROVE  \E m \in Holds(t), q \in Chunk :
                 lists' = LocalFree(lists, m, q) /\ hdr[q] \in Header
    <3>1. gm[t] \in Mgr /\ ptr[t] \in Chunk
      BY <2>2 DEF GFreeUnlock, IInv, Control, InHand
    <3>2. gm[t] \in Holds(t) /\ ptr[t] \in InCall
      BY <3>1, FCMallocAssumption DEF Holds, InCall
    <3> QED
      BY <2>2, <3>1, <3>2, IInvFacts DEF GFreeUnlock
  <2> QED
    BY <2>1, <2>2
<1>2. m \in Mgr /\ hdr[p].core \in Core /\ lists \in Lists(Chunk)
  BY <1>1, IInvFacts DEF IInv, Control, Owners, Header
<1>3. \A l \in ListId, i \in Index : \A c :
        c \in lists'[l][i] => c \in lists[l][i] \/ l = FreeList(m, hdr[p].core)
  BY <1>1, <1>2, LocalFreeLists
<1> QED
  BY <1>2, <1>3 DEF Grown, Reach

LEMMA FlushFlow ==
  ASSUME IInv, NEW t \in Thread, Flush(t)
  PROVE  Grown(t, lists')
<1> DEFINE a == FreeList(lp[t], fcore)
           b == PoolList(fcore)
<1>1. lp[t] \in Mgr /\ fcore \in Core /\ lists \in Lists(Chunk)
  BY IInvFacts DEF Flush, IInv, TypeOK, Control, InHand, Flushing
<1>2. a \in ListId /\ b \in ListId /\ a # b /\ b \in Reach(t)
  BY <1>1, ListIdType, ListIdDistinct DEF Reach, PoolLists
<1>3. lists' = Join(lists, a, b)
  BY DEF Flush
<1> HIDE DEF a, b
<1> QED
  BY <1>1, <1>2, <1>3, JoinLists DEF Grown

LEMMA HandOverFlow ==
  ASSUME IInv, NEW t \in Thread, FreeLocalMemoryManager(t)
  PROVE  Grown(t, lists')
<1>1. gm[t] \in Mgr /\ lists \in Lists(Chunk) /\ lists' = HandOver(gm[t])
  BY IInvFacts DEF FreeLocalMemoryManager, IInv, Control, InHand, Releasing
<1>2. ASSUME NEW l \in ListId, NEW i \in Index, NEW c \in lists'[l][i], c \notin lists[l][i]
      PROVE  l \in Reach(t)
  <2>1. PICK k \in Core : Heirs(gm[t], k) # {} /\ l = MallocList(Heir(gm[t], k))
    BY <1>1, <1>2, HandOverLists
  <2>2. Heir(gm[t], k) \in Mgr /\ ~poolFlags[Heir(gm[t], k)]
    BY <1>1, <2>1, HeirType
  <2> QED
    BY <2>1, <2>2 DEF Reach
<1> QED
  BY <1>2 DEF Grown

\* What a step of a thread puts on lists.
LEMMA Flow ==
  ASSUME IInv, NEW t \in Thread, Call(t) \/ Step(t)
  PROVE  Grown(t, lists')
<1>1. UNCHANGED lists => Grown(t, lists')
  BY DEF Grown
<1>2. CASE Call(t)
  <2>1. CASE \/ ThreadInit(t) \/ ThreadTerm(t) \/ MainTerm(t) \/ \E p \in Chunk : GFree(t, p)
             \/ NullMalloc(t) \/ \E p \in Chunk : NullFree(t, p)
    BY <1>1, <2>1 DEF ThreadInit, ThreadTerm, MainTerm, GFree, NullMalloc, NullFree
  <2> QED
    BY <1>2, <2>1, MallocSteps, MallocFlow, FreeFlow DEF Call
<1>3. CASE Step(t)
  <2>1. CASE InitUnlock(t) \/ FlushUnlock(t) \/ ReleaseUnlock(t) \/ AllocateUnmapped(t)
    BY <1>1, <2>1 DEF InitUnlock, FlushUnlock, ReleaseUnlock, AllocateUnmapped
  <2> QED
    BY <1>3, <2>1, RefillFlow, FreeFlow, FlushFlow, HandOverFlow DEF Step
<1> QED
  BY <1>2, <1>3

\* So what a thread finds dry stays dry while others run.
LEMMA OthersLists ==
  ASSUME IInv, NEW t \in Thread, NEW u \in Thread \ {t}, Call(t) \/ Step(t),
         NEW m \in Holds(u), pc[u] \notin {"init_unlock", "gfree_unlock"},
         NEW i \in Index
  PROVE  /\ lists'[MallocList(m)][i] \subseteq lists[MallocList(m)][i]
         /\ \A k \in Core : lists'[FreeList(m, k)][i] \subseteq lists[FreeList(m, k)][i]
<1>1. m \in Mgr /\ poolFlags[m] /\ m \notin Holds(t) /\ \A n \in Holds(t) : n \in Mgr
  BY DEF IInv, Control, Owners
<1>2. /\ MallocList(m) \in ListId /\ MallocList(m) \notin Reach(t)
      /\ \A k \in Core : FreeList(m, k) \in ListId /\ FreeList(m, k) \notin Reach(t)
  BY <1>1, ListIdType, ListIdDistinct DEF Reach, PoolLists
<1> QED
  BY <1>2, Flow DEF Grown

\* A step of a thread leaves the others where they are.
LEMMA OthersState ==
  ASSUME IInv, NEW t \in Thread, NEW u \in Thread \ {t}, Call(t) \/ Step(t)
  PROVE  /\ pc'[u] = pc[u] /\ lp'[u] = lp[u] /\ idx'[u] = idx[u]
         /\ u = MainThread /\ pc[u] \in Flushing => fcore' = fcore
<1>1. /\ DOMAIN pc = Thread /\ DOMAIN lp = Thread /\ DOMAIN idx = Thread
  BY DEF IInv, TypeOK
<1> DEFINE Same == /\ pc'[u] = pc[u] /\ lp'[u] = lp[u] /\ idx'[u] = idx[u]
                   /\ u = MainThread /\ pc[u] \in Flushing => fcore' = fcore
<1>2. ASSUME NEW i \in Index, NEW p \in Chunk \cup {None}, MallocStep(t, i, p) PROVE Same
  BY <1>1, <1>2 DEF MallocStep, MallocLocal, Deliver, Goto, cvars
<1>3. CASE CmpRefill(t) \/ CmpUnlock(t)
  BY <1>1, <1>3 DEF CmpRefill, CmpUnlock, Deliver, Goto, cvars
<1>4. CASE Allocate(t) \/ AllocateNone(t) \/ AllocateUnmapped(t)
  BY <1>1, <1>4 DEF Allocate, AllocateNone, AllocateUnmapped, Deliver, Goto, cvars
<1>5. ASSUME NEW p \in Chunk, Free(t, p) PROVE Same
  <2>1. u = MainThread => t # MainThread
    OBVIOUS
  <2> QED
    BY <1>1, <1>5, <2>1 DEF Free, FlushDue, Goto
<1>6. CASE Flush(t) \/ FlushUnlock(t)
  <2>1. t = MainThread
    BY <1>6 DEF Flush, FlushUnlock, IInv, Control, InHand, Flushing
  <2> QED
    BY <1>1, <1>6, <2>1 DEF Flush, FlushUnlock, Goto
<1>7. CASE (\E p \in Chunk : GFree(t, p)) \/ GFreeUnlock(t)
  BY <1>1, <1>7 DEF GFree, GFreeUnlock, Goto, cvars
<1>8. CASE ThreadInit(t) \/ InitUnlock(t) \/ ThreadTerm(t) \/ MainTerm(t)
  BY <1>1, <1>8 DEF ThreadInit, InitUnlock, ThreadTerm, MainTerm, Goto, cvars, tvars
<1>9. CASE FreeLocalMemoryManager(t) \/ ReleaseUnlock(t)
  BY <1>1, <1>9 DEF FreeLocalMemoryManager, ReleaseUnlock, Goto, cvars
<1>10. CASE NullMalloc(t) \/ \E p \in Chunk : NullFree(t, p)
  BY <1>1, <1>10 DEF NullMalloc, NullFree, Goto, cvars
<1>11. ASSUME Call(t) PROVE Same
  <2>1. ASSUME NEW i \in Index, Malloc(t, i) \/ \E p \in Chunk : Realloc(t, p, i) PROVE Same
    BY <1>2, <2>1, MallocSteps
  <2> QED
    BY <1>5, <1>7, <1>8, <1>10, <1>11, <2>1 DEF Call
<1>12. ASSUME Step(t) PROVE Same
  BY <1>3, <1>4, <1>6, <1>7, <1>8, <1>9, <1>12 DEF Step
<1> QED
  BY <1>11, <1>12 DEF Same

-----------------------------------------------------------------------------
(* Carving.                                                                *)

\* The lists a thread has found dry before it turned to the pool are dry at
\* every later place of its call; malloc_ has what the refill gave it, at
\* first.
Dry ==
  \A t \in Thread :
    /\ pc[t] \in {"cmp_lock", "cmp_unlock", "allocate"} =>
         lists[FreeList(lp[t], lp[t][1])][idx[t]] = {}
    /\ pc[t] \in {"cmp_lock", "allocate"} => lists[MallocList(lp[t])][idx[t]] = {}

LEMMA DryStep == IInv /\ Dry /\ [Next]_vars => Dry'
<1> SUFFICES ASSUME IInv, Dry, [Next]_vars PROVE Dry'
  OBVIOUS
<1> DEFINE D(t) ==
      /\ pc[t] \in {"cmp_lock", "cmp_unlock", "allocate"} =>
           lists[FreeList(lp[t], lp[t][1])][idx[t]] = {}
      /\ pc[t] \in {"cmp_lock", "allocate"} => lists[MallocList(lp[t])][idx[t]] = {}
<1>1. CASE UNCHANGED vars \/ Over
  BY <1>1 DEF Over, vars, tvars, Dry
<1>2. ASSUME NEW t \in Thread, Call(t) \/ Step(t), NEW u \in Thread \ {t} PROVE D(u)'
  <2>1. pc'[u] = pc[u] /\ lp'[u] = lp[u] /\ idx'[u] = idx[u]
    BY <1>2, OthersState
  <2>2. CASE pc[u] \in Refill
    <3>1. lp[u] \in Mgr /\ idx[u] \in Index
      BY <2>2 DEF IInv, Control, InHand
    <3>2. lp[u] \in Holds(u) /\ lp[u][1] \in Core /\ pc[u] \notin {"init_unlock", "gfree_unlock"}
      BY <2>2, <3>1, ListIdType, FCMallocAssumption DEF Holds, Refill
    <3>3. /\ lists'[MallocList(lp[u])][idx[u]] \subseteq lists[MallocList(lp[u])][idx[u]]
          /\ lists'[FreeList(lp[u], lp[u][1])][idx[u]] \subseteq lists[FreeList(lp[u], lp[u][1])][idx[u]]
      BY <1>2, <3>1, <3>2, OthersLists
    <3> QED
      BY <2>1, <3>3 DEF Dry
  <2> QED
    BY <2>1, <2>2 DEF Refill
<1>3. ASSUME NEW t \in Thread, Call(t) \/ Step(t) PROVE D(t)'
  <2>1. /\ DOMAIN pc = Thread /\ DOMAIN idx = Thread /\ lists \in Lists(Chunk)
    BY IInvFacts DEF IInv, TypeOK
  <2>2. pc'[t] \notin {"cmp_lock", "cmp_unlock", "allocate"} => D(t)'
    OBVIOUS
  <2>3. ASSUME NEW i \in Index, NEW p \in Chunk \cup {None}, MallocStep(t, i, p) PROVE D(t)'
    <3>1. CASE \E ls, lv, c : Deliver(t, ls, lv, c, p)
      BY <2>1, <3>1 DEF Deliver, Goto
    <3>2. CASE /\ lists[MallocList(lp[t])][i] = {} /\ lists[FreeList(lp[t], lp[t][1])][i] = {}
               /\ UNCHANGED <<lists, lp>> /\ idx' = [idx EXCEPT ![t] = i]
      BY <2>1, <3>2
    <3> QED
      BY <2>3, <3>1, <3>2 DEF MallocStep, MallocLocal
  <2>4. CASE CmpRefill(t)
    <3> DEFINE ml == MallocList(lp[t])
               pl == PoolList(lp[t][1])
               fl == FreeList(lp[t], lp[t][1])
               i  == idx[t]
    <3>1. lp[t] \in Mgr /\ i \in Index /\ lists[fl][i] = {}
      BY <2>4 DEF CmpRefill, IInv, Control, InHand, Refill, Dry
    <3>2. /\ ml \in ListId /\ pl \in ListId /\ ml # pl /\ fl \in ListId /\ fl # ml /\ fl # pl
      BY <3>1, OwnLists, ListIdDistinct
    <3>3. PICK S \in SUBSET lists[pl][i] : lists' = MoveChunks(lists, pl, ml, i, S)
      BY <2>4 DEF CmpRefill
    <3>4. UNCHANGED <<lp, idx>> /\ pc'[t] = "cmp_unlock"
      BY <2>1, <2>4 DEF CmpRefill, Goto
    <3> HIDE DEF ml, pl, fl, i
    <3>5. lists'[fl][i] = {}
      BY <2>1, <3>1, <3>2, <3>3, MoveLists
    <3> QED
      BY <3>4, <3>5 DEF fl, i
  <2>5. CASE CmpUnlock(t)
    <3>1. CASE \E ls, lv, c : Deliver(t, ls, lv, c, ptr[t])
      BY <2>1, <3>1 DEF Deliver, Goto
    <3>2. CASE lists[MallocList(lp[t])][idx[t]] = {} /\ UNCHANGED <<lists, lp, idx>>
      <4>1. lists[FreeList(lp[t], lp[t][1])][idx[t]] = {}
        BY <2>5 DEF CmpUnlock, Dry
      <4> QED
        BY <3>2, <4>1
    <3> QED
      BY <2>5, <3>1, <3>2 DEF CmpUnlock
  <2>6. CASE Allocate(t) \/ AllocateNone(t) \/ AllocateUnmapped(t)
    BY <2>1, <2>2, <2>6 DEF Allocate, AllocateNone, AllocateUnmapped, Deliver, Goto
  <2>7. ASSUME NEW p \in Chunk, Free(t, p) PROVE D(t)'
    BY <2>1, <2>2, <2>7 DEF Free, Goto
  <2>8. CASE Flush(t) \/ FlushUnlock(t)
    BY <2>1, <2>2, <2>8 DEF Flush, FlushUnlock, Goto
  <2>9. CASE (\E p \in Chunk : GFree(t, p)) \/ GFreeUnlock(t)
    BY <2>1, <2>2, <2>9 DEF GFree, GFreeUnlock, Goto
  <2>10. CASE ThreadInit(t) \/ InitUnlock(t) \/ ThreadTerm(t) \/ MainTerm(t)
    BY <2>1, <2>2, <2>10 DEF ThreadInit, InitUnlock, ThreadTerm, MainTerm, Goto, tvars
  <2>11. CASE FreeLocalMemoryManager(t) \/ ReleaseUnlock(t)
    BY <2>1, <2>2, <2>11 DEF FreeLocalMemoryManager, ReleaseUnlock, Goto
  <2>12. CASE NullMalloc(t) \/ \E p \in Chunk : NullFree(t, p)
    BY <2>1, <2>2, <2>12 DEF NullMalloc, NullFree, Goto
  <2> HIDE DEF D
  <2> QED
    BY <1>3, <2>3, <2>4, <2>5, <2>6, <2>7, <2>8, <2>9, <2>10, <2>11, <2>12, MallocSteps
    DEF Call, Step
<1>4. ASSUME NEW t \in Thread, Call(t) \/ Step(t) PROVE Dry'
  <2>1. \A u \in Thread : D(u)'
    BY <1>2, <1>3, <1>4
  <2> QED
    BY <2>1 DEF Dry
<1> QED
  BY <1>1, <1>4 DEF Next

\* Fresh memory is carved only by a thread whose own lists have no chunk of
\* the class: neither a hand-over by a thread that exits meanwhile nor any
\* other step of another thread can make a thread's finding stale while it
\* waits for the mutex of the pool.
THEOREM CarvesOnlyWhenDry == Spec => CarveOnlyWhenDry
<1>1. Init => Dry
  BY DEF Init, Dry
<1>2. IInv /\ [Next]_vars => IInv'
  BY TypeStep, ControlStep, HomeStep DEF IInv
<1>3. Dry => \A t \in Thread :
        pc[t] = "allocate" /\ hdr' # hdr /\ pc'[t] = "idle" =>
          /\ lists[MallocList(lp[t])][idx[t]] = {}
          /\ lists[FreeList(lp[t], lp[t][1])][idx[t]] = {}
  BY DEF Dry
<1> QED
  BY <1>1, <1>2, <1>3, IInvInit, DryStep, PTL DEF Spec, CarveOnlyWhenDry

-----------------------------------------------------------------------------
(* Flushing.                                                               *)

\* Nothing is left on the main thread's lists for core k.
Empty(k) == \A i \in Index : lists[FreeList(lp[MainThread], k)][i] = {}

\* The cores of the turns already made, the present one included once its
\* list has been joined, are empty, but for the thread's own.
Swept ==
  /\ pc[MainThread] = "flush_lock" =>
       \A k \in Core \ {lp[MainThread][1]} : k < fcore => Empty(k)
  /\ pc[MainThread] = "flush_unlock" =>
       \A k \in Core \ {lp[MainThread][1]} : k <= fcore => Empty(k)

LEMMA SweptStep == IInv /\ Swept /\ [Next]_vars => Swept'
<1> SUFFICES ASSUME IInv, Swept, [Next]_vars PROVE Swept'
  OBVIOUS
<1> DEFINE M == MainThread
<1>a. M \in Thread /\ DOMAIN pc = Thread /\ lists \in Lists(Chunk)
  BY FCMallocAssumption, IInvFacts DEF IInv, TypeOK
<1>1. CASE UNCHANGED vars \/ Over
  BY <1>1 DEF Over, vars, cvars, tvars, Swept, Empty
<1>2. ASSUME NEW t \in Thread \ {M}, Call(t) \/ Step(t) PROVE Swept'
  <2>1. /\ pc'[M] = pc[M] /\ lp'[M] = lp[M]
        /\ pc[M] \in Flushing => fcore' = fcore
    BY <1>a, <1>2, OthersState
  <2>2. CASE pc[M] \in Flushing
    <3>1. lp[M] \in Mgr
      BY <1>a, <2>2 DEF IInv, Control, InHand
    <3>2. lp[M] \in Holds(M) /\ pc[M] \notin {"init_unlock", "gfree_unlock"}
      BY <2>2, <3>1, FCMallocAssumption DEF Holds, Flushing
    <3>3. \A k \in Core, i \in Index :
            lists'[FreeList(lp[M], k)][i] \subseteq lists[FreeList(lp[M], k)][i]
      BY <1>a, <1>2, <3>2, OthersLists
    <3>4. \A k \in Core : Empty(k) => Empty(k)'
      BY <2>1, <3>3 DEF Empty
    <3> QED
      BY <2>1, <2>2, <3>4 DEF Swept
  <2> QED
    BY <2>1, <2>2 DEF Swept, Flushing
<1>3. ASSUME Call(M) \/ Step(M) PROVE Swept'
  <2>2. pc'[M] \notin Flushing => Swept'
    BY DEF Swept, Flushing
  <2>3. ASSUME NEW i \in Index, NEW p \in Chunk \cup {None}, MallocStep(M, i, p) PROVE Swept'
    BY <1>a, <2>2, <2>3 DEF MallocStep, MallocLocal, Deliver, Goto, Flushing
  <2>4. CASE CmpRefill(M) \/ CmpUnlock(M)
    BY <1>a, <2>2, <2>4 DEF CmpRefill, CmpUnlock, Deliver, Goto, Flushing
  <2>5. CASE Allocate(M) \/ AllocateNone(M) \/ AllocateUnmapped(M)
    BY <1>a, <2>2, <2>5 DEF Allocate, AllocateNone, AllocateUnmapped, Deliver, Goto, Flushing
  <2>6. ASSUME NEW p \in Chunk, Free(M, p) PROVE Swept'
    <3>1. CASE pc'[M] \notin Flushing
      BY <2>2, <3>1
    <3>2. CASE pc'[M] \in Flushing
      <4>1. /\ pc'[M] = "flush_lock" /\ fcore' = NextCore(lp[M], 0) /\ lp' = lp
        BY <1>a, <2>6, <3>2 DEF Free, Goto, Flushing
      <4>2. \A k \in Core \ {lp[M][1]} : ~(k < NextCore(lp[M], 0))
        BY DEF NextCore, Core
      <4> QED
        BY <4>1, <4>2 DEF Swept
    <3> QED
      BY <3>1, <3>2
  <2>7. CASE Flush(M)
    <3> DEFINE a == FreeList(lp[M], fcore)
               b == PoolList(fcore)
    <3>1. lp[M] \in Mgr /\ fcore \in Core
      BY <1>a, <2>7 DEF Flush, IInv, TypeOK, Control, InHand, Flushing
    <3>2. a \in ListId /\ b \in ListId /\ a # b
      BY <3>1, ListIdType, ListIdDistinct
    <3>3. /\ lists' = Join(lists, a, b) /\ pc[M] = "flush_lock" /\ pc'[M] = "flush_unlock"
          /\ UNCHANGED <<lp, fcore>>
      BY <1>a, <2>7 DEF Flush, Goto, cvars
    <3>4. ASSUME NEW k \in Core \ {lp[M][1]}, k <= fcore PROVE Empty(k)'
      <4> DEFINE l == FreeList(lp[M], k)
      <4>1. l \in ListId /\ l # b /\ (k # fcore => l # a)
        BY <3>1, ListIdType, ListIdDistinct
      <4>2. k # fcore => Empty(k)
        BY <3>1, <3>3, <3>4 DEF Swept, Core
      <4> HIDE DEF a, b
      <4>3. \A i \in Index : \A c : c \in lists'[l][i] <=> l # a /\ c \in lists[l][i]
        BY <1>a, <3>2, <3>3, <4>1, JoinLists
      <4>4. CASE k = fcore
        <5>1. l = a
          BY <4>4 DEF a
        <5> QED
          BY <3>3, <4>3, <5>1 DEF Empty
      <4>5. CASE k # fcore
        BY <3>3, <4>2, <4>3, <4>5 DEF Empty
      <4> QED
        BY <4>4, <4>5
    <3> QED
      BY <3>3, <3>4 DEF Swept
  <2>8. CASE FlushUnlock(M)
    <3> DEFINE next == NextCore(lp[M], fcore + 1)
    <3>1. fcore \in Core /\ pc[M] = "flush_unlock" /\ UNCHANGED <<lists, lp>>
      BY <2>8 DEF FlushUnlock, IInv, TypeOK
    <3>2. CASE pc'[M] \notin Flushing
      BY <2>2, <3>2
    <3>3. CASE pc'[M] \in Flushing
      <4>1. pc'[M] = "flush_lock" /\ fcore' = next
        BY <1>a, <2>8, <3>3 DEF FlushUnlock, Goto, Flushing
      <4>2. \A k \in Core \ {lp[M][1]} : k < next => k <= fcore
        BY <3>1 DEF NextCore, Core
      <4> QED
        BY <3>1, <4>1, <4>2 DEF Swept, Empty
    <3> QED
      BY <3>2, <3>3
  <2>9. CASE (\E p \in Chunk : GFree(M, p)) \/ GFreeUnlock(M)
    BY <1>a, <2>2, <2>9 DEF GFree, GFreeUnlock, Goto, Flushing
  <2>10. CASE ThreadInit(M) \/ InitUnlock(M)
    BY <1>a, <2>2, <2>10 DEF ThreadInit, InitUnlock, Goto, Flushing
  <2>11. CASE ThreadTerm(M) \/ MainTerm(M)
    BY <1>a, <2>2, <2>11 DEF ThreadTerm, MainTerm, Goto, Flushing, tvars
  <2>12. CASE FreeLocalMemoryManager(M) \/ ReleaseUnlock(M)
    BY <1>a, <2>2, <2>12 DEF FreeLocalMemoryManager, ReleaseUnlock, Goto, Flushing
  <2>13. CASE NullMalloc(M) \/ \E p \in Chunk : NullFree(M, p)
    BY <1>a, <2>2, <2>13 DEF NullMalloc, NullFree, Goto, Flushing
  <2> QED
    BY <1>a, <1>3, <2>3, <2>4, <2>5, <2>6, <2>7, <2>8, <2>9, <2>10, <2>11, <2>12, <2>13, MallocSteps
    DEF Call, Step
<1> QED
  BY <1>1, <1>2, <1>3 DEF Next

\* When the main thread's flush is over it has nothing left on its lists for
\* other cores, although it gives up the mutex between any two of them and
\* other threads free, refill and exit meanwhile.
THEOREM FlushesCompletely == Spec => FlushIsComplete
<1>1. Init => Swept
  BY FCMallocAssumption DEF Init, Swept
<1>2. IInv /\ [Next]_vars => IInv'
  BY TypeStep, ControlStep, HomeStep DEF IInv
<1>3. ASSUME IInv, Swept, [Next]_vars, pc[MainThread] = "flush_unlock", pc'[MainThread] = "idle",
             NEW k \in Core \ {lp[MainThread][1]}, NEW i \in Index
      PROVE  lists'[FreeList(lp[MainThread], k)][i] = {}
  <2> DEFINE M == MainThread
  <2>1. M \in Thread /\ DOMAIN pc = Thread
    BY <1>3, FCMallocAssumption DEF IInv, TypeOK
  <2>2. PICK t \in Thread : Call(t) \/ Step(t)
    BY <1>3, <2>1 DEF Next, Over, vars, tvars
  <2>3. t = M
    BY <1>3, <2>1, <2>2, OthersState
  <2>4. FlushUnlock(M)
    <3>1. ~Call(M)
      BY <1>3, <2>1, MallocSteps DEF Call, ThreadInit, ThreadTerm, MainTerm, MallocStep, Free, GFree,
         NullMalloc, NullFree
    <3>2. Step(M)
      BY <2>2, <2>3, <3>1
    <3> QED
      BY <1>3, <3>2 DEF Step, InitUnlock, CmpRefill, CmpUnlock, Allocate, AllocateNone,
         AllocateUnmapped, Flush, GFreeUnlock, FreeLocalMemoryManager, ReleaseUnlock
  <2>5. ~(NextCore(lp[M], fcore + 1) < CoreN) /\ UNCHANGED lists
    BY <1>3, <2>1, <2>4 DEF FlushUnlock, Goto
  <2>6. fcore \in Core /\ CoreN \in Nat
    BY <1>3, SizesAssumption DEF IInv, TypeOK
  <2>7. k <= fcore
    BY <2>5, <2>6 DEF NextCore, Core
  <2> QED
    BY <1>3, <2>5, <2>7 DEF Swept, Empty
<1>4. IInv /\ Swept /\ [Next]_vars =>
        (pc[MainThread] = "flush_unlock" /\ pc'[MainThread] = "idle" =>
           \A k \in Core \ {lp[MainThread][1]}, i \in Index :
             lists'[FreeList(lp[MainThread], k)][i] = {})
  BY <1>3
<1> QED
  BY <1>1, <1>2, <1>4, IInvInit, SweptStep, PTL DEF Spec, FlushIsComplete
=============================================================================
