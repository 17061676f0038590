------------------------------- MODULE Batch --------------------------------
(***************************************************************************)
(* One list manager in bytes: how a batch of blocks is laid out in fresh   *)
(* memory (allocateMemoryLinkedList), which blocks serve which requests,   *)
(* and where a freed block goes.  FCMalloc knows a block by its size class *)
(* only; here the class is computed from the size of the request, and on   *)
(* the way back from the size in the header, with the arithmetic of        *)
(* SizeClass, and nothing forces the two to agree.                         *)
(***************************************************************************)
EXTENDS SizeClass, Sequences

CONSTANTS
  NPerSize,    \* MemorySizeManager: blocks per batch of each class
  HeaderSize,  \* sizeof(MemoryLinkedList)
  PageSize,
  Sizes,       \* the sizes asked for
  Products,    \* the <<nmemb, size>> asked of calloc
  MaxAreas,    \* bound: the number of mm.Malloc calls
  MaxHeld      \* bound: the number of blocks with the application

\* A batch fits in a word: see TotalSize for its parts.  No class has batches of
\* blocks of half the address space or more: no mapping is as long as that.
ASSUME BatchAssumption ==
  /\ NPerSize \in [Index -> Nat]
  /\ HeaderSize \in Nat /\ PageSize \in Nat \ {0}
  /\ \A i \in Index : NPerSize[i] > 0 =>
       i < W - 1 /\ NPerSize[i] * (2^i + HeaderSize + 30) + PageSize <= 2^W
  /\ Sizes \subseteq 1 .. 2^W - 1 /\ Products \subseteq Nat \X Nat
  /\ MaxAreas \in Nat /\ MaxHeld \in Nat

VARIABLES
  lists,   \* the free blocks of each class
  held,    \* the application's blocks, each with the size it asked for
  areas,   \* the lengths of the ranges mm.Malloc has given, the empty ones left out
  pc,      \* "idle", or "link" inside the loop of allocateMemoryLinkedList
  want,    \* the size the application asked for
  size,    \* ... and the size malloc was called with
  body,    \* ... and the length of the blocks of the batch made for it
  old,     \* realloc: the block to be replaced, as a set of at most one
  chain,   \* the headers linked so far
  buffer   \* where the next header goes

jvars == <<want, size, body, old, chain, buffer>>
vars  == <<lists, held, areas, pc, jvars>>

GetHeaderSize == ALIGN(HeaderSize, 16)

\* Seeded: no room for the header.
SeededTotalSize(b) == ALIGN(b, 16)

\* A header and a block of b bytes, in units of 16 bytes.
TotalSize(b)   == ALIGN(Truncate(b + GetHeaderSize), 16)
MmapSize(b, n) == ALIGN(Truncate(TotalSize(b) * n), PageSize)

\* The variables of a call that is over.
Forget == want' = 0 /\ size' = 0 /\ body' = 0 /\ old' = {} /\ chain' = << >> /\ buffer' = 0

Init ==
  /\ lists = [i \in Index |-> {}]
  /\ held = {}
  /\ areas = << >>
  /\ pc = "idle"
  /\ want = 0 /\ size = 0 /\ body = 0 /\ old = {} /\ chain = << >> /\ buffer = 0

\* LocalMemoryManager::Free: the class is found in the block's header.
Freed(ls, h) ==
  [i \in Index |-> ls[i] \cup {g.block : g \in {f \in h : logarithm2(f.block.body) = i}}]

\* Block b, popped from the lists ls, answers a request for w bytes; realloc
\* frees the old block.
Deliver(ls, b, w, o) ==
  /\ lists' = Freed(ls, o)
  /\ held' = (held \ o) \cup {[block |-> b, want |-> w]}

\* malloc(x) for an application that wants w bytes.  When the class is dry,
\* mm.Malloc gives memory for a batch.
Malloc(x, w, o) ==
  LET i == logarithm2(x)
  IN  /\ pc = "idle"
      /\ \/ /\ \E b \in lists[i] : Deliver([lists EXCEPT ![i] = @ \ {b}], b, w, o)
            /\ UNCHANGED <<areas, pc, jvars>>
         \/ /\ lists[i] = {}
            /\ body' = BodySize(x)
            /\ \/ NPerSize[i] = 0 /\ UNCHANGED areas
               \/ /\ NPerSize[i] > 0 /\ Len(areas) < MaxAreas
                  /\ areas' = Append(areas, MmapSize(body', NPerSize[i]))
            /\ pc' = "link"
            /\ want' = w /\ size' = x /\ old' = o
            /\ chain' = << >> /\ buffer' = 0
            /\ UNCHANGED <<lists, held>>

\* One turn of the loop: the header at buffer is filled in and linked.
Link ==
  /\ pc = "link" /\ Len(chain) < NPerSize[logarithm2(size)]
  /\ chain' = Append(chain, [area |-> Len(areas), at |-> buffer, body |-> body])
  /\ buffer' = Truncate(buffer + TotalSize(body))
  /\ UNCHANGED <<lists, held, areas, pc, want, size, body, old>>

\* The batch is appended to the empty list and its head is popped.
Serve ==
  LET i == logarithm2(size)
  IN  /\ pc = "link" /\ Len(chain) = NPerSize[i] /\ chain # << >>
      /\ Deliver([lists EXCEPT ![i] = @ \cup ToSet(Tail(chain))], Head(chain), want, old)
      /\ pc' = "idle" /\ Forget
      /\ UNCHANGED areas

\* No batch for this class: ENOMEM, a realloc leaves its block alone.
Refuse ==
  /\ pc = "link" /\ NPerSize[logarithm2(size)] = 0
  /\ pc' = "idle" /\ Forget
  /\ UNCHANGED <<lists, held, areas>>

malloc(x) == Cardinality(held) < MaxHeld /\ Malloc(x, x, {})

\* calloc multiplies in a word.
calloc(nmemb, x) ==
  /\ Cardinality(held) < MaxHeld
  /\ Truncate(nmemb * x) # 0
  /\ Malloc(Truncate(nmemb * x), nmemb * x, {})

\* realloc keeps a block that is long enough.
realloc(h, x) ==
  \/ /\ pc = "idle" /\ x <= h.block.body
     /\ held' = (held \ {h}) \cup {[h EXCEPT !.want = x]}
     /\ UNCHANGED <<lists, areas, pc, jvars>>
  \/ x > h.block.body /\ Malloc(x, x, {h})

free(h) ==
  /\ pc = "idle"
  /\ lists' = Freed(lists, {h})
  /\ held' = held \ {h}
  /\ UNCHANGED <<areas, pc, jvars>>

Next ==
  \/ \E x \in Sizes : malloc(x)
  \/ \E p \in Products : calloc(p[1], p[2])
  \/ \E h \in held, x \in Sizes : realloc(h, x)
  \/ \E h \in held : free(h)
  \/ Link
  \/ Serve
  \/ Refuse

Spec == Init /\ [][Next]_vars

-----------------------------------------------------------------------------
(* Correctness.                                                            *)

Block   == UNION {ToSet(chain), {h.block : h \in held}, UNION {lists[i] : i \in Index}}
BodyAt(b) == b.at + GetHeaderSize

\* Every block is as long as the application asked for, whichever request it
\* was made for: the ASSERT of memory_linked_list_manager.cpp:133.  (A calloc
\* whose product is no word has been given what is left of the product.)
BlockFits == \A h \in held : h.want < 2^W => h.want <= h.block.body

\* A block comes back to the class it was made for and that class has a batch
\* size: the ASSERT of free on its flush interval, fcmalloc.cpp:136.
SameClass ==
  /\ \A i \in Index : \A b \in lists[i] : logarithm2(b.body) = i
  /\ \A b \in Block : NPerSize[logarithm2(b.body)] > 0

\* No header and no block overlaps another, none reaches past the memory that
\* mm.Malloc gave, and all are aligned to 16 bytes.
Layout ==
  /\ \A b \in Block :
       /\ BodyAt(b) + b.body <= areas[b.area]
       /\ BodyAt(b) % 16 = 0
  /\ \A b, c \in Block : b # c /\ b.area = c.area =>
       BodyAt(b) + b.body <= c.at \/ BodyAt(c) + c.body <= b.at

\* Every size below half the range is rounded to the least power of two that
\* holds it, at least 8, and its class is the exponent: what the loop under
\* #if 0 in misc.hpp computes.  (A fact about all words, so it is looked at
\* only where no request has been made.)
RoundedUp ==
  pc = "idle" /\ areas = << >> =>
    \A x \in 1 .. 2^(W-1) - 1 :
      LET i == logarithm2(x)
      IN  /\ BodySize(x) = 2^i
          /\ x <= 2^i
          /\ i > 3 => x > 2^(i-1)
=============================================================================
