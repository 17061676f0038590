---------------------------- MODULE MmapManager -----------------------------
(***************************************************************************)
(* MmapManager: one region of mmap'ed memory per core and one for the main *)
(* thread, each with its mutex, handed out from front to back and replaced *)
(* by a fresh mapping when it is exhausted.                                *)
(*                                                                         *)
(* Memory is counted in pages.  A mapping is an area, numbered in the      *)
(* order of the mmap calls; mmap never returns memory that is in use, so   *)
(* an address is an area and an offset in it.  Areas are never unmapped    *)
(* while the process runs (Term's munmap loop is compiled out).            *)
(***************************************************************************)
EXTENDS Integers, FiniteSets

CONSTANTS
  CoreN,          \* coreN_
  Thread, MainThread, None,
  MainSize,       \* pages of the main thread's first area
  SubSize,        \* pages of every other first area
  MinExtend,      \* oneGB >> 4, the least extension
  Request,        \* the sizes asked for, in pages (the caller aligns them)
  ExtendMax,      \* extendMax_
  ForceMmap,      \* forceMmapFlag_
  PrintfMallocs,  \* whether printf still has to allocate stdout's buffer
  Wrap,           \* pages until FirstTouch's 32-bit loop variable wraps around
  MaxHanded       \* bound: the number of ranges handed out

ASSUME MmapAssumption ==
  /\ CoreN \in Nat \ {0}
  /\ IsFiniteSet(Thread)
  /\ MainThread \in Thread /\ None \notin Thread \cup Request
  /\ MainSize \in Nat /\ SubSize \in Nat
  /\ MinExtend \in Nat
  /\ Request \subseteq Nat
  /\ ExtendMax \in Nat \ {0}
  /\ ForceMmap \in BOOLEAN /\ PrintfMallocs \in BOOLEAN
  /\ Wrap \in Nat \ {0}
  /\ MaxHanded \in Nat

Core   == 0 .. CoreN - 1
Region == 0 .. CoreN           \* threadN_ = coreN_ + 1 of them
mainThreadIndex == CoreN
Area   == 0 .. CoreN + MaxHanded
Entry  == 0 .. (CoreN + 1) * ExtendMax - 1   \* indices of sizess_, poolss_

VARIABLES
  mtxs,            \* holder of the mutex of each region, or None
  debugMtx,        \* holder of debugMtx_, or None
  firstTouchFlag,
  pools,           \* the area each region hands out from
  offsets,         \* the next free page of that area
  mapped,          \* the number of areas mapped so far
  length,          \* the length of each area
  extendOffset,    \* extendOffset_, shared by all regions
  sizess, poolss,  \* the area whose size and address each entry records
  handed,          \* the ranges handed out
  overwritten,     \* those of them that FirstTouch has cleared afterwards
  pc, region, req, \* of each thread: its place and the arguments of Malloc
  of,              \* the page a thread is about to touch in FirstTouch
  seen             \* the value of extendOffset_ a thread is incrementing

rvars == <<firstTouchFlag, pools, offsets, overwritten>>
regvars == <<sizess, poolss>>
avars == <<mapped, length, extendOffset, regvars>>
vars  == <<mtxs, debugMtx, rvars, avars, handed, pc, region, req, of, seen>>

sizes(r)   == length[pools[r]]
Goto(t, l) == pc' = [pc EXCEPT ![t] = l]

Init ==
  /\ mtxs = [r \in Region |-> None]
  /\ debugMtx = None
  /\ firstTouchFlag = [r \in Region |-> FALSE]
  /\ pools = [r \in Region |-> r]
  /\ offsets = [r \in Region |-> 0]
  /\ mapped = CoreN + 1
  /\ length = [a \in Area |-> IF a = mainThreadIndex THEN MainSize
                              ELSE IF a \in Region THEN SubSize ELSE 0]
  /\ extendOffset = 1
  /\ sizess = [e \in Entry |-> IF e % ExtendMax = 0 THEN e \div ExtendMax ELSE None]
  /\ poolss = sizess
  /\ handed = {}
  /\ overwritten = {}
  /\ pc = [t \in Thread |-> "idle"]
  /\ region = [t \in Thread |-> 0]
  /\ req = [t \in Thread |-> 0]
  /\ of = [t \in Thread |-> 0]
  /\ seen = [t \in Thread |-> 0]

-----------------------------------------------------------------------------

\* The definitions named Seeded... are deliberate mistakes, each before the
\* definition it can replace.

\* Seeded: the region is used without its mutex.
SeededLockRegion(t, r) == mtxs' = [mtxs EXCEPT ![r] = t]
LockRegion(t, r) == mtxs[r] = None /\ mtxs' = [mtxs EXCEPT ![r] = t]

\* Seeded: an error path that forgets the mutex.
SeededUnlockRegion(r) == UNCHANGED mtxs
UnlockRegion(r) == mtxs' = [mtxs EXCEPT ![r] = None]

InMalloc == {t \in Thread : pc[t] # "idle"}

\* Malloc(core, size): the main thread has a region of its own ...
Malloc(t, core, size) ==
  /\ pc[t] = "idle"
  /\ Cardinality(handed) + Cardinality(InMalloc) < MaxHanded
  /\ region' = [region EXCEPT ![t] = IF t = MainThread THEN mainThreadIndex ELSE core]
  /\ req' = [req EXCEPT ![t] = size]
  /\ Goto(t, "lock")
  /\ UNCHANGED <<mtxs, debugMtx, rvars, avars, handed, of, seen>>

\* Seeded: FirstTouch runs on every call.
SeededUntouched(r) == TRUE
Untouched(r) == ~firstTouchFlag[r]

\* The place behind FirstTouch: a thread that still has to extend the area is
\* sent there.
Rest(t) ==
  IF ForceMmap /\ sizes(region[t]) - offsets[region[t]] < req[t] THEN "extend" ELSE "carve"

\* ... and waits for its mutex.
Enter(t) ==
  /\ pc[t] = "lock"
  /\ LockRegion(t, region[t])
  /\ Goto(t, IF Untouched(region[t]) THEN "touch" ELSE Rest(t))
  /\ UNCHANGED <<debugMtx, rvars, avars, handed, region, req, of, seen>>

\* One turn of the loop of FirstTouch, which clears a byte of the page.  The
\* loop variable is an unsigned int.
Touch(t) ==
  LET r == region[t]
  IN  /\ pc[t] = "touch" /\ of[t] < sizes(r)
      /\ overwritten' = overwritten \cup
           {h \in handed : h.area = pools[r] /\ h.from <= of[t] /\ of[t] < h.from + h.size}
      /\ of' = [of EXCEPT ![t] = (@ + 1) % Wrap]
      /\ UNCHANGED <<mtxs, debugMtx, firstTouchFlag, pools, offsets, avars, handed,
                     pc, region, req, seen>>

\* ... its end, and firstTouchFlag_.
Touched(t) ==
  LET r == region[t]
  IN  /\ pc[t] = "touch" /\ of[t] >= sizes(r)
      /\ firstTouchFlag' = [firstTouchFlag EXCEPT ![r] = TRUE]
      /\ of' = [of EXCEPT ![t] = 0]
      /\ Goto(t, Rest(t))
      /\ UNCHANGED <<mtxs, debugMtx, pools, offsets, overwritten, avars, handed,
                     region, req, seen>>

\* Seeded: the least extension whatever is asked for.
SeededAllocSize(size) == MinExtend
AllocSize(size) == IF MinExtend > size THEN MinExtend ELSE size

\* ExtendBuffer: the rest of the old area is given up.
ExtendBuffer(t) ==
  LET r == region[t]
  IN  /\ pc[t] = "extend"
      /\ mapped \in Area
      /\ pools' = [pools EXCEPT ![r] = mapped]
      /\ length' = [length EXCEPT ![mapped] = AllocSize(req[t])]
      /\ mapped' = mapped + 1
      /\ offsets' = [offsets EXCEPT ![r] = 0]
      /\ Goto(t, "record_size")
      /\ UNCHANGED <<mtxs, debugMtx, firstTouchFlag, overwritten, extendOffset,
                     regvars, handed, region, req, of, seen>>

\* The new area is recorded in the region's row of the array a, or past its
\* end: in the next row, or outside (which corrupts memory not modelled here).
Recorded(a, r) ==
  [e \in Entry |-> IF e = ExtendMax * r + extendOffset THEN pools[r] ELSE a[e]]

\* The size and the address are recorded one after the other, and each finds
\* its place with a read of extendOffset_ of its own.
RecordSize(t) ==
  /\ pc[t] = "record_size"
  /\ sizess' = Recorded(sizess, region[t])
  /\ Goto(t, "record_pool")
  /\ UNCHANGED <<mtxs, debugMtx, rvars, mapped, length, extendOffset, poolss,
                 handed, region, req, of, seen>>

RecordPool(t) ==
  /\ pc[t] = "record_pool"
  /\ poolss' = Recorded(poolss, region[t])
  /\ Goto(t, "load")
  /\ UNCHANGED <<mtxs, debugMtx, rvars, mapped, length, extendOffset, sizess,
                 handed, region, req, of, seen>>

\* Seeded: the counter runs down; it is incremented twice.
SeededNextOffset(n) == n - 1
SeededNextOffset2(n) == n + 2
NextOffset(n) == n + 1

\* extendOffset_++ is a load and a store under the mutex of one region only.
Load(t) ==
  /\ pc[t] = "load"
  /\ seen' = [seen EXCEPT ![t] = extendOffset]
  /\ Goto(t, "increment")
  /\ UNCHANGED <<mtxs, debugMtx, rvars, avars, handed, region, req, of>>

Increment(t) ==
  /\ pc[t] = "increment"
  /\ extendOffset' = NextOffset(seen[t])
  /\ Goto(t, "announce")
  /\ UNCHANGED <<mtxs, debugMtx, rvars, mapped, length, regvars, handed,
                 region, req, of, seen>>

\* The printf calls of Malloc, when stdout has its buffer or the thread's own
\* lists can serve it, up to the mutex of DebugPrintWithNoMalloc ...
Announce(t) ==
  /\ pc[t] = "announce"
  /\ debugMtx = None
  /\ debugMtx' = t
  /\ Goto(t, "report")
  /\ UNCHANGED <<mtxs, rvars, avars, handed, region, req, of, seen>>

\* ... when they cannot: printf calls malloc, and that calls Malloc for the
\* same region, whose mutex this thread holds.
AnnounceNested(t) ==
  /\ pc[t] = "announce"
  /\ PrintfMallocs
  /\ Goto(t, "nested")
  /\ UNCHANGED <<mtxs, debugMtx, rvars, avars, handed, region, req, of, seen>>

\* The rest of the report.  The new area is as long as the request, unless
\* Malloc finds it is not and returns nullptr.
Report(t) ==
  LET r == region[t]
      fits == sizes(r) - offsets[r] >= req[t]
  IN  /\ pc[t] = "report"
      /\ debugMtx' = None
      /\ \/ fits /\ Goto(t, "carve") /\ UNCHANGED mtxs
         \/ ~fits /\ Goto(t, "idle") /\ UnlockRegion(r)
      /\ UNCHANGED <<rvars, avars, handed, region, req, of, seen>>

\* The address is computed ...
Carve(t) ==
  LET r == region[t]
  IN  /\ pc[t] = "carve"
      /\ handed' = handed \cup {[area |-> pools[r], from |-> offsets[r],
                                 size |-> req[t], nth |-> Cardinality(handed)]}
      /\ Goto(t, "advance")
      /\ UNCHANGED <<mtxs, debugMtx, rvars, avars, region, req, of, seen>>

\* ... the offset advanced and the mutex released.
Advance(t) ==
  LET r == region[t]
  IN  /\ pc[t] = "advance"
      /\ offsets' = [offsets EXCEPT ![r] = @ + req[t]]
      /\ UnlockRegion(r)
      /\ Goto(t, "idle")
      /\ UNCHANGED <<debugMtx, firstTouchFlag, pools, overwritten, avars,
                     handed, region, req, of, seen>>

Call(t) == \E core \in Core, size \in Request : Malloc(t, core, size)

Step(t) ==
  \/ Enter(t)
  \/ Touch(t)
  \/ Touched(t)
  \/ ExtendBuffer(t)
  \/ RecordSize(t)
  \/ RecordPool(t)
  \/ Load(t)
  \/ Increment(t)
  \/ Announce(t)
  \/ AnnounceNested(t)
  \/ Report(t)
  \/ Carve(t)
  \/ Advance(t)

\* The bound is reached and every call has returned.
Done == InMalloc = {} /\ Cardinality(handed) >= MaxHanded /\ UNCHANGED vars

Next == (\E t \in Thread : Call(t) \/ Step(t)) \/ Done

Spec == Init /\ [][Next]_vars

\* A thread inside Malloc keeps running.
FairSpec == Spec /\ \A t \in Thread : WF_vars(Step(t))

-----------------------------------------------------------------------------

Extent == [area : Area, from : Nat, size : Nat, nth : Nat]

\* Every variable has its type.
TypeOK ==
  /\ mtxs \in [Region -> Thread \cup {None}]
  /\ debugMtx \in Thread \cup {None}
  /\ firstTouchFlag \in [Region -> BOOLEAN]
  /\ pools \in [Region -> Area]
  /\ offsets \in [Region -> Nat]
  /\ mapped \in Nat
  /\ length \in [Area -> Nat]
  /\ extendOffset \in Nat
  /\ sizess \in [Entry -> Area \cup {None}] /\ poolss \in [Entry -> Area \cup {None}]
  /\ handed \subseteq Extent /\ IsFiniteSet(handed)
  /\ overwritten \subseteq handed
  /\ pc \in [Thread -> {"idle", "lock", "touch", "extend", "record_size", "record_pool",
                        "load", "increment", "announce", "nested", "report",
                        "carve", "advance"}]
  /\ region \in [Thread -> Region]
  /\ req \in [Thread -> Nat]
  /\ of \in [Thread -> Nat]
  /\ seen \in [Thread -> Nat]

\* No page is handed out twice, whichever threads ask for memory at the same
\* time and however often the areas are replaced under them.
Disjoint ==
  \A g, h \in handed :
    g # h /\ g.area = h.area => g.from + g.size <= h.from \/ h.from + h.size <= g.from

\* Only mapped memory is handed out.
InBounds == \A h \in handed : h.from + h.size <= length[h.area]

\* FirstTouch never writes to memory that a caller already has.
TouchedFirst == overwritten = {}

\* A record made now lands in its region's row, which has ExtendMax entries.
InRow     == extendOffset < ExtendMax
Recording == {t \in Thread : pc[t] \in {"record_size", "record_pool"}}

\* extendMax_ - 1 extensions of all regions together have their places in the
\* rows of their regions, also those whose ASSERT (mmap_manager.cpp:88) came
\* before another thread's increment and whose records come after it.
\* Increments that are lost only leave more room.
RegistrySuffices ==
  /\ mapped < CoreN + ExtendMax /\ (\E t \in Thread : pc[t] = "extend") => InRow
  /\ mapped <= CoreN + ExtendMax /\ Recording # {} => InRow

\* No thread waits for a mutex it holds itself: what the name
\* DebugPrintWithNoMalloc claims of the report, mmap_manager.cpp:145 and 185.
NoSelfDeadlock == \A t \in Thread : pc[t] = "nested" => mtxs[region[t]] # t

\* Every call returns unless the application makes calls for ever, or printf
\* has come back to the allocator and stopped its thread.
CallsReturn ==
  \/ []<><<\E t \in Thread : Call(t)>>_vars
  \/ <>(\E t \in Thread : pc[t] = "nested")
  \/ <>[](InMalloc = {})

\* FirstTouch comes to an end for every area that Init accepts: its ASSERT,
\* mmap_manager.cpp:62, lets the areas have a terabyte.
FirstTouchEnds == \A t \in Thread : pc[t] = "touch" ~> pc[t] # "touch"

\* The manager implements PageSource: a request is answered once, when its
\* address is computed, by a range of its size that nobody else has.
Asked == [t \in Thread |-> IF pc[t] \in {"idle", "advance"} THEN None ELSE req[t]]

P == INSTANCE PageSource WITH
       Client <- Thread, Size <- Request, Nothing <- None,
       asked <- Asked, given <- handed

ImplementsPageSource == P!Spec
=============================================================================
