------------------------------ MODULE FCMalloc ------------------------------
(***************************************************************************)
(* The allocator as its threads run it: malloc, realloc and free of        *)
(* fcmalloc.cpp over the LocalMemoryManager of the calling thread, the     *)
(* CommonMemoryPool with its mutex per core and the GlobalMemoryManager    *)
(* with its mutex, from the first call of a thread (init_) to its          *)
(* thread_local destructor (threadTerm) and the calls that come after it.  *)
(*                                                                         *)
(* A step of a thread is either private work on the manager it owns, or    *)
(* one critical section: the action takes the mutex and does the work, a   *)
(* second action releases it.  Exclusive below is what makes that          *)
(* granularity sound, and it is an invariant, not an assumption.           *)
(***************************************************************************)
EXTENDS ChunkLists

CONSTANTS
  Thread,      \* the threads of the process
  MainThread,  \* the one whose first call ran mainInit (mainThreadFlag)
  Chunk,       \* the chunks that mmap'ed memory can still be carved into
  NPerSize,    \* MemorySizeManager: chunks per batch of each size class
  MaxBatch,    \* an upper bound of NPerSize
  LateMalloc,  \* whether code that runs after threadTerm calls malloc
  Joined       \* whether the process exits only after its threads have ended

ASSUME FCMallocAssumption ==
  /\ MainThread \in Thread
  /\ None \notin Thread \cup Chunk \cup Mgr \cup Index
  /\ None \notin [core : Core, index : Index]
  /\ None \notin [class : Index, old : Chunk \cup {None}]
  /\ NPerSize \in [Index -> Nat]
  /\ MaxBatch \in Nat /\ \A i \in Index : NPerSize[i] <= MaxBatch
  /\ LateMalloc \in BOOLEAN /\ Joined \in BOOLEAN

VARIABLES
  poolFlags,  \* poolFlags_: the managers in use
  offset,     \* the static round-robin start of AllocLocalMemoryManager
  mtx,        \* holder of GlobalMemoryManager::mtx_, or None
  mtxs,       \* holder of CommonMemoryPool::mtxsPerCore_[k], or None
  lists,      \* all free lists, see ChunkLists
  hdr,        \* chunk header: core and index, None before it is carved
  live,       \* how often each chunk is in the application's hands
  cnts,       \* the main thread's cntsPerSize, per size class
  fcore,      \* the main thread's loop variable in AllFreeToCommonMemoryPool
  mmUp,       \* whether the MmapManager still has its arrays
  pc,         \* where each thread is
  ended,      \* the threads whose threadTerm has begun
  lp,         \* each thread's thread_local lp
  gm,         \* the manager a thread is releasing or has borrowed in g.Free
  idx,        \* the size class asked for by a malloc or realloc in progress
  ptr         \* the pointer passed to a realloc or g.Free in progress

gvars == <<poolFlags, offset, mtx>>          \* GlobalMemoryManager
cvars == <<cnts, fcore, mmUp>>               \* the main thread's state, and mm's
tvars == <<pc, ended, lp, gm, idx, ptr>>     \* the threads
vars  == <<gvars, mtxs, lists, hdr, live, cvars, tvars>>

Header == [core : Core, index : Index]
PC == {"new", "init_unlock", "idle", "cmp_lock", "cmp_unlock", "allocate",
       "flush_lock", "flush_unlock", "gfree_unlock", "rel_lock",
       "rel_unlock", "fault", "unmapped"}

Fresh  == {c \in Chunk : hdr[c] = None}
Carved == Chunk \ Fresh
Held   == {c \in Chunk : live[c] > 0}

Goto(t, label) == pc' = [pc EXCEPT ![t] = label]

\* mainInit has run: all managers are idle and every list is empty.
Init ==
  /\ poolFlags = [m \in Mgr |-> FALSE]
  /\ offset = PoolN - 1       \* -1 in the source: the same modulo PoolN
  /\ mtx = None
  /\ mtxs = [k \in Core |-> None]
  /\ lists = [l \in ListId |-> [i \in Index |-> {}]]
  /\ hdr = [c \in Chunk |-> None]
  /\ live = [c \in Chunk |-> 0]
  /\ cnts = [i \in Index |-> 0]
  /\ fcore = 0
  /\ mmUp = TRUE
  /\ pc = [t \in Thread |-> "new"]
  /\ ended = {}
  /\ lp = [t \in Thread |-> None]
  /\ gm = [t \in Thread |-> None]
  /\ idx = [t \in Thread |-> None]
  /\ ptr = [t \in Thread |-> None]

-----------------------------------------------------------------------------
(* GlobalMemoryManager: handing managers to threads and taking them back.  *)

\* Seeded: the search does not wrap around.
SeededIdleManager(core) ==
  LET free == {i \in Slot : i >= (offset + 1) % PoolN /\ ~poolFlags[<<core, i>>]}
  IN  IF free = {} THEN None
      ELSE <<core, CHOOSE i \in free : \A j \in free : i <= j>>

\* The search of AllocLocalMemoryManager: the first idle manager of the core
\* from the rotated offset on, None when all of them are in use.
NextOffset == (offset + 1) % PoolN
IdleManager(core) ==
  LET free == {i \in Slot : ~poolFlags[<<core, (NextOffset + i) % PoolN>>]}
  IN  IF free = {} THEN None
      ELSE <<core, (NextOffset + (CHOOSE i \in free : \A j \in free : i <= j)) % PoolN>>

\* Seeded: the mutex is not taken.
SeededAllocLocalMemoryManager(t) == mtx' = t /\ offset' = NextOffset

\* AllocLocalMemoryManager(core): takes mtx_ and searches; the second step of
\* the caller sets the flag of the manager found, m, and releases mtx_.
AllocLocalMemoryManager(t) ==
  /\ mtx = None
  /\ mtx' = t
  /\ offset' = NextOffset

TakeManager(m) ==
  /\ mtx' = None
  /\ poolFlags' = [n \in Mgr |-> poolFlags[n] \/ n = m]

\* Seeded: managers in use are heirs too.
SeededHeirs(m, k) == Slot \ {m[2]}

\* The manager of core k that receives the chunks freed for k by the released
\* manager m: the first idle one whose slot differs from m's (the loop skips
\* i == ii on every core, not only on m's own).
Heirs(m, k) == {i \in Slot \ {m[2]} : ~poolFlags[<<k, i>>]}
Heir(m, k)  == <<k, CHOOSE i \in Heirs(m, k) : \A j \in Heirs(m, k) : i <= j>>

\* Seeded: the released manager keeps the lists it hands over.
SeededHandOver(m) ==
  [l \in ListId |-> [i \in Index |->
     lists[l][i] \cup UNION {lists[FreeList(m, k)][i] :
       k \in {j \in Core : Heirs(m, j) # {} /\ l = MallocList(Heir(m, j))}}]]

\* The joins of FreeLocalMemoryManager(m): free_[k] of m goes to the malloc_
\* list of the heir on core k, and stays with m when there is none.
HandOver(m) ==
  LET Left == {k \in Core : Heirs(m, k) # {}}
      Gain(l, i) == UNION {lists[FreeList(m, k)][i] :
                             k \in {j \in Left : l = MallocList(Heir(m, j))}}
  IN  [l \in ListId |-> [i \in Index |->
         IF \E k \in Left : l = FreeList(m, k)
         THEN {} ELSE lists[l][i] \cup Gain(l, i)]]

\* FreeLocalMemoryManager(gm[t]), up to the joins.
FreeLocalMemoryManager(t) ==
  /\ pc[t] = "rel_lock"
  /\ mtx = None
  /\ mtx' = t
  /\ lists' = HandOver(gm[t])
  /\ Goto(t, "rel_unlock")
  /\ UNCHANGED <<poolFlags, offset, mtxs, hdr, live, cvars, ended, lp, gm, idx, ptr>>

\* ... and from there back to threadTerm, which forgets lp, or to g.Free,
\* where lp was nullptr all along.
ReleaseUnlock(t) ==
  /\ pc[t] = "rel_unlock"
  /\ mtx' = None
  /\ poolFlags' = [poolFlags EXCEPT ![gm[t]] = FALSE]
  /\ gm' = [gm EXCEPT ![t] = None]
  /\ lp' = [lp EXCEPT ![t] = None]
  /\ Goto(t, "idle")
  /\ UNCHANGED <<offset, mtxs, lists, hdr, live, cvars, ended, idx, ptr>>

-----------------------------------------------------------------------------
(* init_ and threadTerm.                                                   *)

\* threadInit, run by the first call of a thread: sched_getcpu names any
\* core.  When all managers of that core are in use lp stays nullptr.
ThreadInit(t) ==
  /\ pc[t] = "new"
  /\ AllocLocalMemoryManager(t)
  /\ \E core \in Core : lp' = [lp EXCEPT ![t] = IdleManager(core)]
  /\ Goto(t, "init_unlock")
  /\ UNCHANGED <<poolFlags, mtxs, lists, hdr, live, cvars, ended, gm, idx, ptr>>

InitUnlock(t) ==
  /\ pc[t] = "init_unlock"
  /\ TakeManager(lp[t])
  /\ Goto(t, "idle")
  /\ UNCHANGED <<offset, mtxs, lists, hdr, live, cvars, ended, lp, gm, idx, ptr>>

\* The destructor of the thread_local: nothing to release without a manager.
ThreadTerm(t) ==
  /\ pc[t] = "idle" /\ t \notin ended
  /\ ended' = ended \cup {t}
  /\ gm' = [gm EXCEPT ![t] = lp[t]]
  /\ Goto(t, IF lp[t] = None THEN "idle" ELSE "rel_lock")
  /\ UNCHANGED <<gvars, mtxs, lists, hdr, live, cvars, lp, idx, ptr>>

\* MmapManager::Term unmaps the arrays of the manager, its mutexes and offsets
\* among them, and leaves the areas it has handed out.
Term == mmUp /\ mmUp' = FALSE

\* exit(): the thread that calls it destroys its thread_locals and then the
\* static of init_, which calls mainTerm.  The other threads run on until the
\* process is gone.
MainTerm(t) ==
  /\ pc[t] = "idle" /\ t \in ended
  /\ Joined => ended = Thread /\ \A u \in Thread : pc[u] = "idle"
  /\ Term
  /\ UNCHANGED <<gvars, mtxs, lists, hdr, live, cnts, fcore, tvars>>

-----------------------------------------------------------------------------
(* LocalMemoryManager and CommonMemoryPool: malloc and realloc.            *)

\* Seeded: the chunk is kept for the core that freed it.
SeededLocalFree(ls, m, p) == Push(ls, FreeList(m, m[1]), hdr[p].index, {p})

\* Seeded: every chunk is freed into the smallest class.
SeededFreeClass(ls, m, p) ==
  Push(ls, FreeList(m, hdr[p].core), CHOOSE i \in Index : \A j \in Index : i <= j, {p})

\* LocalMemoryManager::Free(p) on manager m: the header of p says which list.
LocalFree(ls, m, p) ==
  Push(ls, FreeList(m, hdr[p].core), hdr[p].index, {p})

\* The mutex of the pool of core k; Seeded: it is not waited for, and it is
\* not released.
SeededLockPool(t, k) == mtxs' = [mtxs EXCEPT ![k] = t]
LockPool(t, k)       == mtxs[k] = None /\ mtxs' = [mtxs EXCEPT ![k] = t]

SeededUnlockPool(k) == UNCHANGED mtxs
UnlockPool(k)       == mtxs' = [mtxs EXCEPT ![k] = None]

\* A pointer goes to the application, or comes back from it (None: no
\* pointer).  Nothing here keeps the application from being given the same
\* one twice.
HandOut(lv, c)  == [lv EXCEPT ![c] = @ + 1]
TakeBack(lv, p) == IF p = None THEN lv ELSE [lv EXCEPT ![p] = @ - 1]

\* The end of a successful malloc (p = None) or realloc(p): chunk c has been
\* popped, leaving the lists ls; realloc has copied p's body and frees it.
Deliver(t, ls, lv, c, p) ==
  /\ lists' = IF p = None THEN ls ELSE LocalFree(ls, lp[t], p)
  /\ live' = HandOut(lv, c)
  /\ idx' = [idx EXCEPT ![t] = None]
  /\ ptr' = [ptr EXCEPT ![t] = None]
  /\ Goto(t, "idle")

\* Bound on the environment: memory is finite here, so a call that may need
\* a fresh batch is made only while it is sure to be served: every call
\* under way can still get a batch, or the pool has a chunk for it that no
\* other call under way can take.
Refilling ==
  {t \in Thread : pc[t] \in {"cmp_lock", "cmp_unlock", "allocate", "unmapped"}}
HeadRoom(core, i) ==
  \/ Cardinality(Fresh) >= MaxBatch * (Cardinality(Refilling) + 1)
  \/ /\ lists[PoolList(core)][i] # {}
     /\ \A t \in Refilling : lp[t][1] # core

\* LocalMemoryManager::Malloc up to the call of the common memory pool: take
\* from malloc_; if that is empty swap it with free_[core_] and try again.
MallocLocal(t, i, p) ==
  LET ml == MallocList(lp[t])
      fl == FreeList(lp[t], lp[t][1])
  IN  \/ \E c \in lists[ml][i] : Deliver(t, Pop(lists, ml, i, c), TakeBack(live, p), c, p)
      \/ /\ lists[ml][i] = {}
         /\ \E c \in lists[fl][i] :
              Deliver(t, Pop(Swap(lists, ml, fl, i), ml, i, c), TakeBack(live, p), c, p)
      \/ /\ lists[ml][i] = {} /\ lists[fl][i] = {}
         /\ HeadRoom(lp[t][1], i)
         /\ idx' = [idx EXCEPT ![t] = i]
         /\ ptr' = [ptr EXCEPT ![t] = p]
         /\ live' = TakeBack(live, p)
         /\ Goto(t, "cmp_lock")
         /\ UNCHANGED lists

\* malloc(size) with size > 0 of class i (calloc adds only a memset).
Malloc(t, i) ==
  /\ pc[t] = "idle" /\ lp[t] # None
  /\ MallocLocal(t, i, None)
  /\ UNCHANGED <<gvars, mtxs, hdr, cvars, ended, lp, gm>>

\* realloc(p, size) with a size beyond p's body, so of a greater class (a
\* smaller size returns p and changes nothing).  From here to the end of the
\* call the pointer is the allocator's: the application may not use it.
Realloc(t, p, i) ==
  /\ pc[t] = "idle" /\ lp[t] # None
  /\ p \in Held /\ hdr[p].index < i
  /\ MallocLocal(t, i, p)
  /\ UNCHANGED <<gvars, mtxs, hdr, cvars, ended, lp, gm>>

\* CommonMemoryPool::Malloc under the mutex of the thread's core: up to
\* NPerSize[i] chunks move from the pool to malloc_.
CmpRefill(t) ==
  LET core == lp[t][1]
      pool == lists[PoolList(core)][idx[t]]
  IN  /\ pc[t] = "cmp_lock"
      /\ LockPool(t, core)
      /\ \E S \in SUBSET pool :
           /\ \/ Cardinality(S) = NPerSize[idx[t]]
              \/ S = pool /\ Cardinality(S) < NPerSize[idx[t]]
           /\ lists' = MoveChunks(lists, PoolList(core), MallocList(lp[t]), idx[t], S)
      /\ Goto(t, "cmp_unlock")
      /\ UNCHANGED <<gvars, hdr, live, cvars, ended, lp, gm, idx, ptr>>

\* ... and past it: the malloc_ list is tried once more.
CmpUnlock(t) ==
  LET ml == MallocList(lp[t])
  IN  /\ pc[t] = "cmp_unlock"
      /\ UnlockPool(lp[t][1])
      /\ \/ \E c \in lists[ml][idx[t]] : Deliver(t, Pop(lists, ml, idx[t], c), live, c, ptr[t])
         \/ /\ lists[ml][idx[t]] = {}
            /\ Goto(t, "allocate")
            /\ UNCHANGED <<lists, live, idx, ptr>>
      /\ UNCHANGED <<gvars, hdr, cvars, ended, lp, gm>>

\* MemoryLinkedListManager::Allocate: a fresh batch of NPerSize[i] chunks,
\* whose headers name the thread's core, is appended to malloc_ and its head
\* is popped.
Allocate(t) ==
  LET core == lp[t][1]
      ml   == MallocList(lp[t])
  IN  /\ pc[t] = "allocate" /\ mmUp
      /\ \E S \in SUBSET Fresh :
           /\ Cardinality(S) = NPerSize[idx[t]]
           /\ hdr' = [c \in Chunk |-> IF c \in S THEN [core |-> core, index |-> idx[t]]
                                      ELSE hdr[c]]
           /\ \E c \in S :
                Deliver(t, Pop(Push(lists, ml, idx[t], S), ml, idx[t], c), live, c, ptr[t])
      /\ UNCHANGED <<gvars, mtxs, cvars, ended, lp, gm>>

\* A size class without a batch size gets no chunk: the call answers nullptr
\* with ENOMEM and a realloc leaves its block with the application.
AllocateNone(t) ==
  /\ pc[t] = "allocate" /\ mmUp
  /\ NPerSize[idx[t]] = 0
  /\ live' = IF ptr[t] = None THEN live ELSE HandOut(live, ptr[t])
  /\ idx' = [idx EXCEPT ![t] = None]
  /\ ptr' = [ptr EXCEPT ![t] = None]
  /\ Goto(t, "idle")
  /\ UNCHANGED <<gvars, mtxs, lists, hdr, cvars, ended, lp, gm>>

\* After mainTerm the mutex and the offset of the region are unmapped memory,
\* and the process dies of the access.
AllocateUnmapped(t) ==
  /\ pc[t] = "allocate" /\ ~mmUp
  /\ Goto(t, "unmapped")
  /\ UNCHANGED <<gvars, mtxs, lists, hdr, live, cvars, ended, lp, gm, idx, ptr>>

-----------------------------------------------------------------------------
(* free.                                                                   *)

\* Seeded: break where the loop has to go on.
SeededNextCore(m, k) == IF k = m[1] THEN CoreN ELSE k

\* The next core AllFreeToCommonMemoryPool visits from k on, CoreN if none.
NextCore(m, k) == IF k = m[1] THEN k + 1 ELSE k

\* Seeded: the count before this free is compared.
SeededFlushDue(t, i) == t = MainThread /\ cnts[i] > NPerSize[i]

\* Whether this free of class i takes the main thread past its interval.
FlushDue(t, i) == t = MainThread /\ cnts[i] + 1 > NPerSize[i]

\* free(p) by a thread with a manager.  The main thread counts its frees per
\* class; past the batch size it resets the counts and starts a flush.
Free(t, p) ==
  LET i     == hdr[p].index
      flush == FlushDue(t, i)
      first == NextCore(lp[t], 0)
  IN  /\ pc[t] = "idle" /\ lp[t] # None
      /\ p \in Held
      /\ live' = TakeBack(live, p)
      /\ lists' = LocalFree(lists, lp[t], p)
      /\ cnts' = IF flush THEN [j \in Index |-> 0]
                 ELSE IF t = MainThread THEN [cnts EXCEPT ![i] = @ + 1] ELSE cnts
      /\ fcore' = IF flush /\ first < CoreN THEN first ELSE fcore
      /\ Goto(t, IF flush /\ first < CoreN THEN "flush_lock" ELSE "idle")
      /\ UNCHANGED <<gvars, mtxs, hdr, mmUp, ended, lp, gm, idx, ptr>>

\* One turn of AllFreeToCommonMemoryPool: free_[fcore] joins the pool of its
\* core, under the mutex of that core.
Flush(t) ==
  /\ pc[t] = "flush_lock"
  /\ LockPool(t, fcore)
  /\ lists' = Join(lists, FreeList(lp[t], fcore), PoolList(fcore))
  /\ Goto(t, "flush_unlock")
  /\ UNCHANGED <<gvars, hdr, live, cvars, ended, lp, gm, idx, ptr>>

FlushUnlock(t) ==
  LET next == NextCore(lp[t], fcore + 1)
  IN  /\ pc[t] = "flush_unlock"
      /\ UnlockPool(fcore)
      /\ fcore' = IF next < CoreN THEN next ELSE fcore
      /\ Goto(t, IF next < CoreN THEN "flush_lock" ELSE "idle")
      /\ UNCHANGED <<gvars, lists, hdr, live, cnts, mmUp, ended, lp, gm, idx, ptr>>

\* free(p) by a thread without a manager is GlobalMemoryManager::Free: borrow
\* an idle manager of p's core, free p there and release the manager.
GFree(t, p) ==
  LET m == IdleManager(hdr[p].core)
  IN  /\ pc[t] = "idle" /\ lp[t] = None
      /\ p \in Held
      /\ AllocLocalMemoryManager(t)
      /\ m # None
      /\ gm' = [gm EXCEPT ![t] = m]
      /\ ptr' = [ptr EXCEPT ![t] = p]
      /\ live' = TakeBack(live, p)
      /\ Goto(t, "gfree_unlock")
      /\ UNCHANGED <<poolFlags, mtxs, lists, hdr, cvars, ended, lp, idx>>

GFreeUnlock(t) ==
  /\ pc[t] = "gfree_unlock"
  /\ TakeManager(gm[t])
  /\ lists' = LocalFree(lists, gm[t], ptr[t])
  /\ ptr' = [ptr EXCEPT ![t] = None]
  /\ Goto(t, "rel_lock")
  /\ UNCHANGED <<offset, mtxs, hdr, live, cvars, ended, lp, gm, idx>>

-----------------------------------------------------------------------------
(* Calls on a null manager: the ASSERTs are compiled out of a release      *)
(* build, the process dies on the null pointer.                            *)

NullMalloc(t) ==
  /\ pc[t] = "idle" /\ lp[t] = None
  /\ t \in ended => LateMalloc
  /\ Goto(t, "fault")
  /\ UNCHANGED <<gvars, mtxs, lists, hdr, live, cvars, ended, lp, gm, idx, ptr>>

NullFree(t, p) ==
  /\ pc[t] = "idle" /\ lp[t] = None
  /\ p \in Held
  /\ mtx = None
  /\ IdleManager(hdr[p].core) = None
  /\ Goto(t, "fault")
  /\ UNCHANGED <<gvars, mtxs, lists, hdr, live, cvars, ended, lp, gm, idx, ptr>>

-----------------------------------------------------------------------------

\* The calls an application makes, and the steps that carry them through.
Call(t) ==
  \/ ThreadInit(t)
  \/ ThreadTerm(t)
  \/ MainTerm(t)
  \/ \E i \in Index : Malloc(t, i)
  \/ \E p \in Chunk, i \in Index : Realloc(t, p, i)
  \/ \E p \in Chunk : Free(t, p)
  \/ \E p \in Chunk : GFree(t, p)
  \/ NullMalloc(t)
  \/ \E p \in Chunk : NullFree(t, p)

Step(t) ==
  \/ InitUnlock(t)
  \/ CmpRefill(t)
  \/ CmpUnlock(t)
  \/ Allocate(t)
  \/ AllocateNone(t)
  \/ AllocateUnmapped(t)
  \/ Flush(t)
  \/ FlushUnlock(t)
  \/ GFreeUnlock(t)
  \/ FreeLocalMemoryManager(t)
  \/ ReleaseUnlock(t)

Crashed == \E t \in Thread : pc[t] \in {"fault", "unmapped"}

\* The process is over: it crashed, it is exiting, or its threads have ended.
Over ==
  /\ Crashed \/ ~mmUp \/ (ended = Thread /\ \A t \in Thread : pc[t] = "idle")
  /\ UNCHANGED vars

Next ==
  \/ ~Crashed /\ \E t \in Thread : Call(t) \/ Step(t)
  \/ Over

Spec == Init /\ [][Next]_vars

\* The scheduler runs every thread that can run; a thread outside a call
\* need not make another one.
FairSpec == Spec /\ \A t \in Thread : WF_vars(~Crashed /\ Step(t))

-----------------------------------------------------------------------------
(* Correctness.                                                            *)

\* The pointers that realloc and g.Free hold while their call is in progress.
InCall == {ptr[t] : t \in Thread} \ {None}

\* Every variable has its type.  The counts stay within the batch sizes:
\* a count that passes its batch size has been reset.
TypeOK ==
  /\ poolFlags \in [Mgr -> BOOLEAN]
  /\ offset \in Slot
  /\ mtx \in Thread \cup {None}
  /\ mtxs \in [Core -> Thread \cup {None}]
  /\ lists \in [ListId -> [Index -> SUBSET Chunk]]
  /\ hdr \in [Chunk -> Header \cup {None}]
  /\ live \in [Chunk -> Nat]
  /\ cnts \in [Index -> Nat] /\ \A i \in Index : cnts[i] <= NPerSize[i]
  /\ fcore \in Core
  /\ mmUp \in BOOLEAN
  /\ pc \in [Thread -> PC]
  /\ ended \in SUBSET Thread
  /\ lp \in [Thread -> Mgr \cup {None}]
  /\ gm \in [Thread -> Mgr \cup {None}]
  /\ idx \in [Thread -> Index \cup {None}]
  /\ ptr \in [Thread -> Chunk \cup {None}]

\* A chunk is in one place only: on one list of one manager or pool, once
\* with the application, or in the hands of one call.  So no chunk is ever
\* handed out twice, whoever frees it and through whichever lists it travels.
OnePlace ==
  /\ \A l1, l2 \in ListId, i1, i2 \in Index :
       l1 # l2 \/ i1 # i2 => lists[l1][i1] \cap lists[l2][i2] = {}
  /\ \A l \in ListId, i \in Index : lists[l][i] \cap (Held \cup InCall) = {}
  /\ \A c \in Chunk : live[c] <= 1
  /\ Held \cap InCall = {}
  /\ \A t, u \in Thread : t # u /\ ptr[t] = ptr[u] => ptr[t] = None

\* No chunk is lost: whatever has been carved is in one of these places, so
\* memory freed anywhere can still be found by some later malloc.
NoLeak ==
  Carved = Held \cup InCall \cup UNION {lists[l][i] : l \in ListId, i \in Index}

\* Every list holds the chunks of its own core and size class, whatever
\* swap, flush or hand-over they came by: malloc_ never serves a block that
\* was allocated for another core or is too small for the class.
HomeAffinity ==
  \A l \in ListId, i \in Index : \A c \in lists[l][i] :
    hdr[c] = [core |-> Home(l), index |-> i]

\* The lists thread t may read or write now: those of the managers it holds,
\* the pool inside its critical section, and inside FreeLocalMemoryManager
\* the malloc_ lists of all idle managers.
Touches(t) ==
  {l \in MallocLists \cup FreeLists : l[2] \in {lp[t], gm[t]} \ {None}}
  \cup (IF pc[t] = "cmp_unlock" THEN {PoolList(lp[t][1])} ELSE {})
  \cup (IF pc[t] = "flush_unlock" THEN {PoolList(fcore)} ELSE {})
  \cup (IF pc[t] = "rel_unlock" THEN {MallocList(m) : m \in {n \in Mgr : ~poolFlags[n]}}
        ELSE {})

\* No data race: two threads never have access to the same list.  This is
\* what lets LocalMemoryManager work without a lock.
Exclusive ==
  \A t, u \in Thread : t # u => Touches(t) \cap Touches(u) = {}

\* No call runs into a null manager, or into the arrays that mainTerm unmaps.
NoFault == ~Crashed

\* Every thread that has made its first call and not yet ended has a manager:
\* the ASSERT(lp != nullptr) of threadInit, fcmalloc.cpp:93.
EveryThreadHasManager ==
  \A t \in Thread \ ended : pc[t] \notin {"new", "init_unlock"} => lp[t] # None

\* Fresh memory is carved only by a thread whose own lists are dry: neither
\* its malloc_ list nor the list of chunks freed to its own core has a chunk
\* of the class, not even after the time spent waiting for the pool.
CarveOnlyWhenDry ==
  [][\A t \in Thread : pc[t] = "allocate" /\ hdr' # hdr /\ pc'[t] = "idle" =>
       /\ lists[MallocList(lp[t])][idx[t]] = {}
       /\ lists[FreeList(lp[t], lp[t][1])][idx[t]] = {}]_vars

\* When a flush is over the main thread keeps no chunk of another core.
FlushIsComplete ==
  [][pc[MainThread] = "flush_unlock" /\ pc'[MainThread] = "idle" =>
       \A k \in Core \ {lp[MainThread][1]}, i \in Index :
         lists'[FreeList(lp[MainThread], k)][i] = {}]_vars

\* The allocator implements the abstract Heap: a malloc that finds a chunk
\* on the thread's lists is one step, one that goes on to the pool is a
\* request until it delivers or refuses, and a realloc keeps the old block
\* until then.
Reallocating == {ptr[t] : t \in Refilling} \ {None}

Owned   == [c \in Chunk |-> live[c] + IF c \in Reallocating THEN 1 ELSE 0]
ClassOf == [c \in Chunk |-> IF c \in Fresh THEN None ELSE hdr[c].index]
Request == [t \in Thread |-> IF t \in Refilling THEN [class |-> idx[t], old |-> ptr[t]]
                             ELSE None]

H == INSTANCE Heap WITH
       Client <- Thread, Block <- Chunk, Class <- Index, Nothing <- None,
       owned <- Owned, class <- ClassOf, request <- Request

ImplementsHeap == H!Spec

\* Every call returns unless the application makes calls for ever or the
\* process dies: no mutex is left locked and no thread waits for one that is
\* never released.
CallsReturn ==
  \/ []<><<\E t \in Thread : Call(t)>>_vars
  \/ <>Crashed
  \/ <>[](\A t \in Thread : pc[t] \in {"new", "idle"})

=============================================================================
