# A verification development for FCMalloc

FCMalloc is a `malloc` replacement that is preloaded into a process. Each thread
borrows a *local memory manager*, whose free lists it uses without a lock; chunks
freed by a thread for another core travel back by pools and by joining lists. What
has to be right is the bookkeeping behind that: no chunk in two places, none lost,
none on a list of another core or class, and no list under two threads at once.
This directory models that bookkeeping in TLA+, checks it with TLC on small
instances and proves the central facts for all sizes with TLAPS.

## Inventory

| component (source) | state | operations | how it interacts |
|---|---|---|---|
| API `malloc calloc realloc free` (`fcmalloc.cpp`) | `thread_local lp`, per-thread `cntsPerSize` | the four calls, `mainInit`, `threadInit`, `threadTerm` | calls the thread's manager, or the global manager when there is none |
| life cycle (`init_term.cpp`) | one static, one `thread_local` object | `init_` at the head of each call; the destructors at thread and process end | calls `threadInit`/`threadTerm`/`mainInit`/`mainTerm` |
| `GlobalMemoryManager` | `poolFlags_`, round-robin `offset`, `mtx_` | `AllocLocalMemoryManager`, `FreeLocalMemoryManager`, `Free` | shared by all threads; joins the lists of released managers into idle ones |
| `LocalMemoryManager` | `core_`, `malloc_`, `free_[k]` per core | `Malloc`, `Realloc`, `Free`, `swap`, `Join`, `AllFreeToCommonMemoryPool` | used by its owner without a lock; falls back on the common pool and on fresh memory |
| `CommonMemoryPool` | a list manager and a mutex per core | `Malloc` (refill), `Free` (flush) | shared by the threads of a core and the main thread |
| `MemoryLinkedListManager` | `heads_`, `lasts_` per size class | `append push pop Malloc Free Swap Join Allocate` | the representation of every list above |
| `MemoryLinkedList` | header of a chunk: `core_ size_ next_` | `allocateMemoryLinkedList` carves a batch | gets its memory from `MmapManager` |
| `MmapManager` | per region: mutex, area, offset, first-touch flag; `extendOffset_` and the registry | `Malloc`, `ExtendBuffer`, `FirstTouch`, report, `Term` | one region per core and one for the main thread |
| `MemorySizeManager` | `nPerSize_`, constant after start-up | the constructor (default table or file), `GetMemorySize` | batch sizes for refill, carving and flush interval |
| `misc.hpp` | none | `roundup_powerof2`, `logarithm2`, `ALIGN`, `mtxlock` | size classes; critical sections |
| `mem_allocate`, `myprintf`, `debug.hpp` | none | `mmap` wrappers, formatting, `ASSERT` | `ASSERT` is empty in a release build |

What is hard here:

* **Ownership without locks.** `LocalMemoryManager` has no lock. Its safety rests
  on `poolFlags_` and `mtx_`, and on `FreeLocalMemoryManager` writing to the lists
  of *other* managers only while these are idle and `mtx_` is held.
* **Long journeys.** A chunk goes from a fresh batch to a `malloc_` list, the
  application, some thread's `free_[k]`, and from there by a swap, a flush, a
  refill, a hand-over at thread exit or a borrowed manager back to a `malloc_` list.
  A mistake in one leg shows far away.
* **Ends of threads and of the process.** Calls after the `thread_local` destructor,
  frees without a manager, more threads than managers, `mainTerm` under running threads.
* **Locks held across callbacks.** `MmapManager::Malloc` prints, and `printf` may
  call `malloc`.
* **Counters and limits.** Flush counts, `extendOffset_`, exhausted areas, classes
  without a batch size, a 32-bit loop over 64-bit lengths.
* **Arithmetic that must agree with itself.** The class of a request is computed from
  its size, the class of a freed block from the length in its header; a block, its
  header and its batch are rounded separately. Any of it can be off at one size only.
* **A parser over a reused buffer.** The size list is cut into lines in blocks.

## Modules

| module | models |
|---|---|
| `ChunkLists` | the identities of all free lists and the list operations on sets of chunks |
| `Heap` | abstract: what `malloc`, `realloc` and `free` promise to the application |
| `FCMalloc` | API, life cycle of threads, global and local managers, common pool; implements `Heap` |
| `FCMalloc_proofs` | lemmas about the list operations; who holds which manager and mutex; types, home lists, exclusive access |
| `FCMallocChunks_proofs` | no chunk in two places, none lost; `FCMalloc` implements `Heap` |
| `FCMallocThreads_proofs` | a manager for every thread, and the arrays of `mm` for every batch; where chunks come from while a thread waits: carving and flushes |
| `SizeClass` | `roundup_powerof2`, `logarithm2`, `ALIGN` on words of scaled width |
| `SizeClass_proofs` | what the shifts, sums and powers of `SizeClass` compute |
| `Batch` | one list manager in bytes: layout of a batch, which block serves which request |
| `Batch_proofs` | blocks are long enough, come back to their class and lie apart |
| `MemorySizeManager` | the table of batch sizes and the reading of the size list file |
| `MemorySizeManager_proofs` | what `strtok` makes of the first block of a file |
| `ChunkQueues` | abstract: FIFO queues per manager and class |
| `MemoryLinkedListManager` | `heads_`, `lasts_`, `next_`; implements `ChunkQueues` |
| `MemoryLinkedListManager_proofs` | the pointers are well formed and implement `ChunkQueues` |
| `PageSource` | abstract: ranges of pages, each given once |
| `MmapManager` | the regions, their extension, first touch, the registry and the report; implements `PageSource` |
| `MmapManager_proofs` | theorems about `MmapManager` |
| `MC*` | constants and symmetry for TLC |

The operations exist at three levels. `MemoryLinkedListManager` has the pointers
and shows that every method acts as a FIFO queue. `ChunkLists` forgets the order:
its `Push`, `Pop`, `Swap`, `Join` and `MoveChunks` are the queue operations on the
sets of elements. Where the order decides which chunk is next, `FCMalloc` takes any.
That a whole method may be one step there is what `Exclusive` establishes.

The components meet at three places. `FCMalloc` knows a block by its class; `Batch` shows that
the class of the request and the class of the block's header are the same and that a block of
the class is long enough. `FCMalloc` and `Batch` take fresh memory as given; `MmapManager` shows
that it is given once. Both take the table `NPerSize` as a constant; `MemorySizeManager`
says where it comes from.

### FCMalloc

| in the model | in the code |
|---|---|
| `poolFlags`, `offset`, `mtx` | `poolFlags_`, `static int offset`, `mtx_` |
| `mtxs[k]` | `mtxsPerCore_[k]` |
| `lists[l][i]` | the chunks linked from `heads_[i]` of list manager `l` |
| `hdr[c]` | `core_` and `size_` (as a class) of a chunk's header |
| `live` | how often each chunk is in the application's hands (at most once is `OnePlace`) |
| `cnts`, `fcore` | the main thread's `cntsPerSize` and its loop variable in `AllFreeToCommonMemoryPool` |
| `mmUp` | whether `mm.Term()` has yet to unmap the arrays of `MmapManager` |
| `lp[t]` | `thread_local lp` |
| `gm[t]` | the argument `m` of `FreeLocalMemoryManager`, the local `lp` of `GlobalMemoryManager::Free` |
| `idx[t]`, `ptr[t]` | the class and the old pointer of a call in progress |

A manager's identity is `<<core, slot>>` for `managerPools_[poolN_ * core + slot]`.
The steps of a thread are: `ThreadInit` and `InitUnlock` (first call), `ThreadTerm`,
`FreeLocalMemoryManager` and `ReleaseUnlock` (destructor); `Malloc` or `Realloc`, which
deliver a chunk at once when `malloc_` or, after the swap, `free_[core_]` has one, or
else go on by `CmpRefill`, `CmpUnlock` and `Allocate` (`AllocateNone` for a class
without a batch size); `Free` with `Flush`/`FlushUnlock` for each core of a flush;
`GFree`, `GFreeUnlock` and the release for a free without a manager; `NullMalloc` and
`NullFree`, which end the process. `MainTerm` is the exit of the process in a thread that has
destroyed its own `thread_local`s; the other threads run on, and one that then carves meets
unmapped memory (`AllocateUnmapped`). `Joined` says that the program joins its threads first.
A critical section is two steps, one that takes the
mutex and does the work and one that releases it and goes on, so that other threads can
run into it. Work on the thread's own lists is one step.

Left out: `malloc(0)`, `free(nullptr)`, a `realloc` that fits (they change nothing),
`calloc`'s `memset`, `errno`, the counters of debug builds, and the contents of blocks.
Where an `ASSERT` stands, the model does what a release build does, which has none.

### MemoryLinkedListManager

The state is the record `mem` of `heads`, `lasts` and `next`. The methods are operators
on it because the code composes them: `Malloc` pops, `Free` and the refill push, `push`
and `Join` append. `Allocate` appends a batch; `AllocateNone` is the batch of no chunks, which
`LocalMemoryManager::Malloc` asks for when the class has no batch size, and only of an empty list. `Join` and the refill keep their loops as recursive functions.
`Chain(l, i)` follows the pointers; the refinement maps every list to its chain.

### MmapManager

Memory is counted in pages, an address is an area and an offset. `Malloc` picks the
region and `Enter` waits for its mutex. The first thread in a region goes through `Touch` once per page,
with a loop variable that wraps around at `Wrap`, and `Touched`; then it goes on to `ExtendBuffer` or `Carve`.
`ExtendBuffer` ends with three reads of `extendOffset_`, one for each of `RecordSize`, `RecordPool` and the `Load` of
`extendOffset_++`, and its store in `Increment`: a thread of another region may come between any two of
them, so the size and the address of an area can be recorded at different entries (`sizess`, `poolss`). `Announce` and `Report` are the printing:
`AnnounceNested` is a `printf` that allocates. `Carve` computes the address, `Advance`
moves the offset and releases the mutex. The refinement to `PageSource` lets the
request be answered when the address is computed, not when the call returns: from then on
the range is the caller's, and nobody else's even before the offset has moved.

### SizeClass and Batch

`SizeClass` has the functions of `misc.hpp` on words of `2^LogW` bits. A word is a number, or
the set of its one bits where the code shifts and ors. `ClzOfZero` is the value of
`__builtin_clz(0)`, which is undefined; the comment in the code names one value per compiler.

`Batch` is one list manager under the four calls, in bytes: `lists` by class, the blocks
the application has (`held`, each with the size asked for), and the loop of
`allocateMemoryLinkedList` turn by turn (`Link`: `chain` and `buffer`), up to `Serve` or, for a
class without a batch size, `Refuse`. The class is computed twice, as in the code: from the size of the
request on the way out, from the header on the way back. `calloc` multiplies in a word; `realloc` keeps a
block that is long enough. The order of a list is that of `MemoryLinkedListManager` and left out here.

### MemorySizeManager

`Init` chooses any file of up to `MaxLen` characters. `Read` is one `read` into the buffer, which
keeps what an earlier block left behind its own bytes, with the first `strtok`; `Store` is one turn of the inner
loop. `strtok` writes its NULs into the buffer; behind a block that fills it lies whatever the
stack holds (`beyond`).

## Runs

| run | instance | checks |
|---|---|---|
| `core` | 2 threads, 2 cores, 2 managers per core, 3 chunks, batches of 1 | all invariants, `CarveOnlyWhenDry`, `ImplementsHeap` |
| `classes` | 2 threads, 2 cores with 1 manager each, classes 3, 4, 5 where 5 has no batch size, 2 chunks; the process may exit while threads run; fair | `OnePlace NoLeak HomeAffinity ImplementsHeap CallsReturn` |
| `crowded` | 2 threads, 3 cores with 1 manager each, 4 chunks, batches of 2, late calls allowed | `OnePlace NoLeak HomeAffinity Exclusive FlushIsComplete ImplementsHeap` |
| `full` | 3 threads, 2 managers per core | `EveryThreadHasManager` is **violated** |
| `queues` | 3 list managers, 2 classes, 4 chunks | `WellFormed FreeNextIsNull ImplementsQueues` |
| `mmap` | 3 threads, 2 cores, 3 ranges, `printf` may allocate, fair | `TypeOK Disjoint InBounds TouchedFirst RegistrySuffices CallsReturn ImplementsPageSource` |
| `batch` | words of 16 bits, sizes around every edge, 3 batches, 2 blocks with the application | `BlockFits SameClass Layout RoundedUp` |
| `size_list` | 3 classes of 2 digits, files of up to 8 characters, fair | `TableIsFile Loads` |
| `batch_clang` | as `batch`, `__builtin_clz(0)` as the comment says of clang | `BlockFits` is **violated** |
| `mmap_hang` | an area as long as the range of the loop variable, fair | `FirstTouchEnds` is **violated** |
| `mmap_noforce` | extension switched off | `InBounds` is **violated** |
| `mmap_printf` | `printf` may allocate | `NoSelfDeadlock` is **violated** |

What the properties say:

* `OnePlace`, `NoLeak`: a chunk is on one list, with the application or in the hands of
  one call, and never nowhere. Together: no double hand-out, no lost memory.
* `HomeAffinity`: the lists hold chunks of their own core and class, so a block is always
  large enough and local to the core the manager stands for.
* `Exclusive`: the lists that two threads may touch at the same time are disjoint.
* `NoFault`: no call meets a null manager or the arrays `mainTerm` has unmapped, when there are no
  more threads than managers on a core, nobody allocates after its destructor, and the
  threads end before the process does.
* `EveryThreadHasManager`: the `ASSERT` of `threadInit`. `full` drops the first of these conditions.
* `CarveOnlyWhenDry`: fresh memory is taken only when the thread's own lists are dry at
  the time of carving, although the finding dates from before the wait for the pool.
* `FlushIsComplete`: after a flush the main thread holds nothing for other cores.
* `ImplementsHeap`: seen from the application the whole is a heap: a block that is handed
  out had no owner, a request is answered with a block of its class or refused, and the
  old block of a realloc is given up only for the new one.
* `WellFormed`, `FreeNextIsNull`, `ImplementsQueues`: the pointer structure is a FIFO queue.
* `Disjoint`, `InBounds`, `TouchedFirst`: no page twice, none unmapped, no page cleared
  after it was handed out.
* `RegistrySuffices`: `extendMax_ - 1` extensions have a place in the registry, whichever regions they
  are of and however their unprotected reads and increments interleave: the `ASSERT` holds for them, and so does
  its condition when they make their records, after increments of others. (One region's increment can be
  lost to another's; the counter never runs ahead of the mappings.)
* `ImplementsPageSource`: every request is answered once, by a range of its size that meets no other.
* `FirstTouchEnds`: the loop over the pages of an area comes to its end.
* `CallsReturn` (both modules): every call returns, unless calls are made for ever or the process dies
  (in `MmapManager`: or an allocating `printf` stops its thread).
* `BlockFits`: a block is as long as the application asked for, also when it was made for another
  request, or kept by `realloc`. A `calloc` whose product is no word is excepted.
* `SameClass`: a block comes back to the class it was made for, and that class has a batch size.
* `Layout`: headers and blocks of a batch meet nowhere, end inside the memory given, and are aligned.
* `RoundedUp`: length and class of a block agree with the reference definition under `#if 0`.
* `TableIsFile`: the lines that end in the first block are the table; a file shorter than the
  buffer is the whole table.
* `Loads`: the constructor ends for every file.

Bounds. `Chunk` stands for the memory the operating system still gives; `HeadRoom`, which has no
counterpart in the code, keeps calls from starting when it would run out: a call starts only when it is sure to find a
chunk or a batch, because what the code does when `mmap` fails is not modelled.
(In `MmapManager` every mapping succeeds for the same reason.) Three chunks suffice for one on a list, one with the application and one in flight, and for
two threads to be in a refill together. Two cores distinguish a thread's own core from a
remote one; three give a flush more than one turn. Two managers per core give an heir on the
own core; one per core is the case in which there is none: in `classes` and `crowded` a released manager
hands nothing over. TLC sees hand-overs in `core` only, and so with one class. Hand-overs of several classes are
what the theorems add: they have no bound on classes, managers or chunks. Batches of one chunk make flush
and refill come at once, batches of two exercise partial refills. `MaxHanded` bounds the
ranges of `MmapManager`, which otherwise grow for ever. Chunks (and in `queues` the
managers, in `MmapManager` the threads other than the main one) are symmetric: no
definition tells them apart, and no liveness run uses symmetry.

`mmap` does not check deadlock: a nested `printf` really stops its thread.
The `extendMax_` of the code is 10000; the run scales it to 3, so that the registry is full
after two extensions. Areas of 1 and 2 pages and requests of 1 and 3 give every region a first touch
of several turns, a range that fits, one that does not, and extensions of both lengths. `Wrap`
is 4 GB in pages; every area of `mmap` is shorter, those of `mmap_hang` are not.

Words of 16 bits (`LogW = 4`) are the shortest on which the arithmetic takes all of its branches: the least block, the
lower half word, the half word itself, the upper half, the top bit. The sizes asked for are both sides of
each of them (`Around`), the table has classes with batches of 3, of 2 and of none, and
two batches and a refused one, or three of different classes, can meet (`MaxAreas`). Two blocks with the
application are what a `realloc` and another block need. `RoundedUp` looks at every word.

In `size_list` the buffer has 7 bytes, so that files of up to 8 characters reach every case: shorter
than the buffer, as long, and in two blocks. The code's buffer has 326 bytes for 65 lines of up to 5 digits.

Fairness. `FairSpec` assumes weak fairness of the steps inside a call, per thread: the
scheduler keeps running every thread that can run. Calls themselves are not fair, an
application need not call. A thread waits only for mutexes; weak fairness suffices in
`CallsReturn` because it excepts executions in which calls are made for ever, so a waiting
thread is not overtaken without end. `FairSpec` of `MmapManager` is the same for the steps inside `Malloc`. The
constructor of `MemorySizeManager` runs in one thread: weak fairness of its next step.

The definitions named `Seeded...` are deliberate mistakes. Each stands before the
definition it can replace; with it in place the property it is meant for fails.

## Divergences met

1. A thread gets no manager while other cores have idle ones (`full`).
2. Without forced extension memory past the end of the area is handed out (`mmap_noforce`).
3. The report "with no malloc" can call `malloc` under the region's mutex (`mmap_printf`).
4. `FirstTouch` does not end for an area of 4 GB or more, which `Init` accepts (`mmap_hang`).
5. `logarithm2(2^32)` evaluates `__builtin_clz(0)`; with the value the comment gives for clang a
   block too short is handed out (`batch_clang`).

Met while modelling, without a run of their own:

* `malloc`, `calloc` and `realloc` after `threadTerm` use a null `lp`, `free` alone is prepared for it; `crowded`
  makes such calls and lets the process die of them.
* A `free` after `threadTerm` uses a null manager when threads that came later have taken all managers of the chunk's core.
* A class without a batch size reaches `allocateMemoryLinkedList`, whose `ASSERT(n > 0)` (`memory_linked_list.cpp:54`) says that it never
  does. A release build answers with `ENOMEM` (`Refuse`, `AllocateNone`).
* `extendOffset_` counts the extensions of all regions, and each region has a row of `extendMax_` entries; only the `ASSERT` of
  `ExtendBuffer` keeps a record in its row. `RegistrySuffices` says how long the rows last: for `extendMax_ - 1`
  extensions of all regions together.
* A thread that outlives `mainTerm` and needs a fresh batch uses unmapped memory; `classes` allows it.
* The size and the address of an extension can be recorded at different entries, or over those of another
  (`mmap_manager.cpp:102-104`). Nothing reads the records while the loop of `Term` is compiled out.
* Chunks freed for a core go to an idle manager with another slot number only (`global_memory_manager.cpp:106`); where there is none they stay
  with the manager released. Nothing is lost (`NoLeak`), but nobody can use them until that manager is taken.
* `calloc` does not notice a product that is no word.
* A size list of 65 numbers of 5 digits does not fit the buffer of `65 * 5 + 1` bytes, because of its line ends. The number at
  the end of a full block is read on past the buffer, or cut in two, and what an earlier block left
  in the buffer is read again behind a shorter last one. `TableIsFile` is about the lines that end in the first block.
* The top-level README gives `FCM_MAIN_MEM_MAX` and `FCM_SUB_MEM_MAX` in GB,
  `mainInit` multiplies them by 1 MB (`fcmalloc.cpp:78`); it calls the size list "csv", the
  code splits it at line ends (`memory_size_manager.cpp:96`).

## Theorems

All are proved by `tlapm` for every value of the constants that the named assumptions
(`SizesAssumption`, `FCMallocAssumption`, and those of the other modules) allow: any number
of threads, cores, managers per core, chunks and size classes, any batch sizes, words of any
width, any size list file.

| theorem | module | statement |
|---|---|---|
| `TypeCorrect` | `FCMalloc_proofs` | `Spec => []TypeOK` |
| `AlwaysHome` | `FCMalloc_proofs` | `Spec => []HomeAffinity` |
| `NoRace` | `FCMalloc_proofs` | `Spec => []Exclusive` |
| `NeverInTwoPlaces` | `FCMallocChunks_proofs` | `Spec => []OnePlace` |
| `NoChunkIsLost` | `FCMallocChunks_proofs` | `Spec => []NoLeak` |
| `Implementation` | `FCMallocChunks_proofs` | `Spec => ImplementsHeap` |
| `CarvesOnlyWhenDry` | `FCMallocThreads_proofs` | `Spec => CarveOnlyWhenDry` |
| `FlushesCompletely` | `FCMallocThreads_proofs` | `Spec => FlushIsComplete` |
| `AlwaysServed` | `FCMallocThreads_proofs` | `Spec => [](NoFault /\ EveryThreadHasManager)`, if `Thread` is finite, no larger than `PoolN`, `~LateMalloc` and `Joined` |
| `TypeCorrect` | `MmapManager_proofs` | `Spec => []TypeOK` |
| `NeverHandedOutTwice` | `MmapManager_proofs` | `Spec => []Disjoint` |
| `OnlyMappedMemory` | `MmapManager_proofs` | `Spec => []InBounds`, if `ForceMmap` |
| `FirstTouchIsFirst` | `MmapManager_proofs` | `Spec => []TouchedFirst` |
| `RegistryHasRoom` | `MmapManager_proofs` | `Spec => []RegistrySuffices` |
| `SourceOfPages` | `MmapManager_proofs` | `Spec => ImplementsPageSource` |
| `WellFormedAlways` | `MemoryLinkedListManager_proofs` | `Spec => []WellFormed` |
| `FreeNextIsNullAlways` | `MemoryLinkedListManager_proofs` | `Spec => []FreeNextIsNull` |
| `PointersImplementQueues` | `MemoryLinkedListManager_proofs` | `Spec => ImplementsQueues` |
| `Rounding` | `SizeClass_proofs` | for `x` below half the range `BodySize(x)` is the least power of two that holds `x`, at least 8, and `logarithm2(x)` its exponent, if `ClzOfZero = HalfW` or `x # 2^HalfW` |
| `BlockFitsAlways` | `Batch_proofs` | `Spec => []BlockFits`, if `ClzOfZero = HalfW` |
| `SameClassAlways` | `Batch_proofs` | `Spec => []SameClass`, if `ClzOfZero = HalfW` |
| `LayoutAlways` | `Batch_proofs` | `Spec => []Layout`, if `ClzOfZero = HalfW` |
| `RoundedUpAlways` | `Batch_proofs` | `Spec => []RoundedUp`, if `ClzOfZero = HalfW` |
| `TableIsFileAlways` | `MemorySizeManager_proofs` | `Spec => []TableIsFile` |

**Ownership.** The inductive invariant of `FCMalloc_proofs` is
`IInv == TypeOK /\ Control /\ Known /\ HomeAffinity`. `Exclusive` alone is not inductive: it
says nothing of the thread that has found a manager and not yet set its flag.
`Control` does. It has three parts: `InHand`, what a thread has at each place; `Mutexes`, that the
thread between the two halves of a critical section is the holder of its mutex; and
`Owners`, that no manager is held by two threads and that every manager held is flagged,
except by the thread that still holds `mtx_`. The thread that joins lists into idle
managers also holds `mtx_`, so no manager becomes someone's in the meantime.
`Known` (chunks outside the lists have a header) is what lets `Free` find its list.

**Chunks.** `FCMallocChunks_proofs` works with `PInv == IInv /\ Apart /\ Whole`, the parts of
`OnePlace` and `NoLeak` in terms of membership in a list. What each list operation does
to places is stated once in `FCMalloc_proofs` (`PushPlace`, `PopPlace`, `MovePlace`,
`SwapPlace`, `JoinPlace`), and every action is a composition of these.
`HandOver` needs that two cores have different heirs and that an heir is not the
released manager.

**Refinement.** `Implementation` uses the refinement mapping of `FCMalloc`: a block is owned when it is live
or its realloc is waiting for the pool, its class is the one in its header, and a request
is a call between `cmp_lock` and its answer. `Deliver` at once is the abstract malloc or
realloc; leaving for the pool is a request; refills, flushes, hand-overs and the life of
threads are stuttering. That a delivered chunk had no owner is `OnePlace`; that its class is
the one asked for is `HomeAffinity`.

**Flows.** The last part of `FCMallocThreads_proofs` bounds what a step of a thread does to lists (`Flow`): it puts
chunks only on the lists of the managers the thread holds, on pools, and on the `malloc_` lists of idle
managers. So nobody refills the lists of a manager another thread holds (`OthersLists`), and two invariants
beside `IInv` follow: what a thread found empty is empty until its call ends (`Dry`; `malloc_` gets chunks from
the thread's own refill only), and the cores a flush has visited are empty (`Swept`), though the mutex is
released between two of them.

**Managers for all.** `FCMallocThreads_proofs` adds to `IInv` that every flagged manager is held
(`Flagged`) and that a thread is without one only before its first call or after its end
(`HasManager`). If the search of `AllocLocalMemoryManager` failed for a thread that holds
nothing, every slot of the core would belong to a different one of the other threads, of which there are
fewer than slots (`ThereIsOne`, by the pigeonhole principle; the rotation by `offset` is
injective, `ModInjective`). `Exited` adds that a thread that has ended holds only the manager it is
releasing, and that the arrays of `mm` are there until all have ended. No condition can be dropped:
`full` shows it of the first, and the crashes that `crowded` and `classes` run through of the others.

**Memory.** In `MmapManager_proofs` two threads inside `Malloc` are in different regions
(`Mutex`, `Alone`), every region hands out from a mapped area of its own (`OwnArea`), and whatever
has been handed out of that area ends at the region's offset or at the offset its holder is about to
store (`BelowOffset`): a new range begins there, so it meets no older one. `OnlyMappedMemory` adds
that a thread about to compute its address has room (`Room`), which only `ExtendBuffer` secures;
`FirstTouchIsFirst` adds that a region in use is marked as touched (`TouchedInUse`).
`RegistryHasRoom` counts (`Counted`): `extendOffset_`, a value about to be stored in it, and the threads
between their extension and their increment (`Filing`) are together no more than one ahead of the number of areas added. It needs
that the threads are finitely many (`MmapAssumption`). `SourceOfPages` needs for every step which request it asks
or answers: that no call is refused is `Serving`, by which an area just mapped is empty and long enough; that
the range given meets no other is `Disjoint` after the step, and that it is new is its serial number.

**Pointers.** `LInv` of `MemoryLinkedListManager_proofs` relates the pointers to the queues they
stand for (`Good`): each list runs through the elements of its queue in order and ends at `lasts_`
(`Holds`), no chunk is in two queues or twice in one (`Apart`), and one that is in none links to nothing (`Loose`).
`WellFormed` alone is not inductive: it does not exclude that two lists share a tail, or a
cycle made by pushing a chunk that is listed. Each method is composed of appending a sequence, popping the head, emptying a list
and swapping two, and what each of these does to pointers and queues is a lemma. `Join` and the refill are
loops; their recursive functions are followed by induction over the classes and over the
chunks that move. A queue has no more elements than there are chunks (`ShortQueue`), so
`Chain`, which stops after that many, reads all of it. The assumptions are that chunks and classes are
finitely many and that the classes are numbers, as the indices of the arrays are.

**Size classes.** A power of two is the number of subsets of a set; from that `SizeClass_proofs` has the laws
of exponents. After shift number `j` the word of `roundup_powerof2` has ones in the `2^j` places below its
highest bit and no other than below it (`Smearing`), so after the last it is all ones below it
(`SmearFills`) and its value is a power less one (`ValueOfOnes`: `2^i` counts the numbers whose highest bit
is `i`). `Clz` finds the same highest bit in either half of the word (`LogarithmIs`). The one size at which the two
part is `2^HalfW`, where the code evaluates `__builtin_clz(0)`. For that size alone `Rounding` has the hypothesis
`ClzOfZero = HalfW`, the value that the comment in `misc.hpp` gives for g++; the theorems about `Batch` have it
throughout, since any call may ask for that size. It cannot be dropped: with the other value
TLC finds the block that is too short (`batch_clang`).

**Batches.** `BInv` of `Batch_proofs` says that each list holds blocks of its class only
(`Sorted`), that each block has its place in its area and no two overlap (`Laid`), and of a call inside
`allocateMemoryLinkedList` that the chain so far fills the front of the newest area, which no other block is in (`Job`).
`BatchAssumption` keeps every sum and product below the range of the word (`Lengths`). It also
excludes batches of blocks of half the address space or more (classes `W - 1` and `W`): the length of such a block
is of the next class (`logarithm2(2^(W-1))` is `W`), so `SameClass` would fail. The default table has none, and no
such mapping exists, but a size list file could ask for one.

**Size list.** `TInv` of `MemorySizeManager_proofs` says of the first block that from `save` on the buffer is as it was read
(`Buffer`), that the token is the line whose rank among the lines is `index` (`Cut`), and that
the entries below `index` are the lines before it (`Stored`). `strtokCuts` is the step: the first character that is
not a line end is the next start, and none is passed over. When the block is through, the table is
`Complete`, and later blocks write behind `index` only.

Only model-checked: liveness (`CallsReturn` of both modules, `Loads`, and `FirstTouchEnds` where it fails),
which is out of the prover's reach. What `atoi` makes of the digits of a line is left unevaluated in the
proof of `TableIsFile`: the theorem says that it is applied to the right line.

## Plan

1. Done: all modules of the table above, and a theorem for every safety property and
   every refinement that a passing run checks.
2. `stdout`'s lock among the locks of `MmapManager`.
3. Proof: `SameClass` and `Layout` for the other value of `__builtin_clz(0)` too (TLC finds no violation
   of either under the constants of `batch_clang`). The class of a block of `2^HalfW` bytes is then `HalfW - 1`, so
   `BatchAssumption` would have to bound a batch of that class by the longer block.

## Not modelled

* `mem_allocate`: plain `mmap`/`munmap` of the allocator's own arrays. That they exist until
  `mainTerm` is `mmUp`.
* `myprintf` and debug output: formatting.
* The failure of `mmap`. A release build goes on with `(void*)-1` as the area and hands out addresses
  from there; about what follows the code promises nothing.
* What `sched_getcpu` may return beyond the cores counted at start-up.
* `popN` and `FreeLocalMemoryManagerOtherNodeMallocLinkedList`, which are never called.
* `malloc(0)`, `free(nullptr)`, the contents of blocks, `errno`, the counters of debug builds.
