---------------------- MODULE MemoryLinkedListManager -----------------------
(***************************************************************************)
(* MemoryLinkedListManager down to its pointers: heads_ and lasts_ of each *)
(* manager and size class, and the next_ field in the header of each       *)
(* chunk.  A manager is used by one thread at a time (FCMalloc!Exclusive), *)
(* so every method is one step.                                            *)
(*                                                                         *)
(* The methods are written as operators on a record [heads, lasts, next]   *)
(* because the code calls them one on top of another.                      *)
(***************************************************************************)
EXTENDS Integers, Sequences, FiniteSets

CONSTANTS
  Manager,   \* the MemoryLinkedListManagers
  Index,     \* the size classes in use
  Chunk,     \* the chunk headers, MemoryLinkedList
  Null,      \* nullptr
  MaxBatch   \* bound: the longest batch and the longest refill

ASSUME MemoryLinkedListAssumption ==
  /\ Null \notin Chunk \cup Index
  /\ IsFiniteSet(Chunk)
  /\ Index \subseteq Nat /\ IsFiniteSet(Index)
  /\ MaxBatch \in Nat \ {0}

VARIABLES
  mem,   \* [heads, lasts, next]
  size   \* size_ of each header as its class, Null before it is carved

vars == <<mem, size>>

heads == mem.heads
lasts == mem.lasts
next  == mem.next

Init ==
  /\ mem = [heads |-> [l \in Manager |-> [i \in Index |-> Null]],
            lasts |-> [l \in Manager |-> [i \in Index |-> Null]],
            next  |-> [c \in Chunk |-> Null]]
  /\ size = [c \in Chunk |-> Null]

-----------------------------------------------------------------------------

\* Seeded: the last pointer stays where it was.
SeededAppend(m, l, i, thead, tlast) ==
  IF m.heads[l][i] = Null
  THEN [m EXCEPT !.heads[l][i] = thead, !.lasts[l][i] = tlast]
  ELSE [m EXCEPT !.next[m.lasts[l][i]] = thead]

\* append(index, thead, tlast)
append(m, l, i, thead, tlast) ==
  IF m.heads[l][i] = Null
  THEN [m EXCEPT !.heads[l][i] = thead, !.lasts[l][i] = tlast]
  ELSE [m EXCEPT !.next[m.lasts[l][i]] = thead, !.lasts[l][i] = tlast]

push(m, l, i, c) == append(m, l, i, c, c)

Empty(m, l, i) == m.heads[l][i] = Null \/ m.lasts[l][i] = Null

\* Seeded: the chunk leaves with its next pointer.
SeededPop(m, l, i) ==
  LET head == m.heads[l][i]
  IN  [m EXCEPT !.lasts[l][i] = IF m.next[head] = Null THEN Null ELSE @,
                !.heads[l][i] = m.next[head]]

\* pop(index) of a list that is not empty; the result is the old head.
pop(m, l, i) ==
  LET head == m.heads[l][i]
  IN  [m EXCEPT !.next[head] = Null,
                !.lasts[l][i] = IF m.next[head] = Null THEN Null ELSE @,
                !.heads[l][i] = m.next[head]]

\* Seeded: only the heads are exchanged.
SeededSwapLists(m, a, b, i) ==
  [m EXCEPT !.heads[a][i] = m.heads[b][i], !.heads[b][i] = m.heads[a][i]]

SwapLists(m, a, b, i) ==
  [m EXCEPT !.heads[a][i] = m.heads[b][i], !.heads[b][i] = m.heads[a][i],
            !.lasts[a][i] = m.lasts[b][i], !.lasts[b][i] = m.lasts[a][i]]

\* The turn of Join's loop for class i, when lm->heads_[i] is not null.
JoinClass(m, to, from, i) ==
  [append(m, to, i, m.heads[from][i], m.lasts[from][i])
     EXCEPT !.heads[from][i] = Null, !.lasts[from][i] = Null]

\* Join(lm): the loop over the classes.
JoinLists(m, to, from) ==
  LET after[S \in SUBSET Index] ==
        IF S = {} THEN m
        ELSE LET i == CHOOSE i \in S : \A j \in S : j <= i
                 p == after[S \ {i}]
             IN  IF p.heads[from][i] = Null THEN p ELSE JoinClass(p, to, from, i)
  IN  after[Index]

\* CommonMemoryPool::Malloc's loop: pop from the pool, push on the list of
\* the thread, n times or until the pool is empty.
RefillLists(m, from, to, i, n) ==
  LET after[k \in 0 .. n] ==
        IF k = 0 THEN m
        ELSE LET p == after[k - 1]
             IN  IF Empty(p, from, i) THEN p
                 ELSE push(pop(p, from, i), to, i, p.heads[from][i])
  IN  after[n]

\* The headers allocateMemoryLinkedList writes: each points to the next one.
Linked(m, batch) ==
  [m EXCEPT !.next = [c \in Chunk |->
     IF \E k \in 1 .. Len(batch) : batch[k] = c
     THEN LET k == CHOOSE k \in 1 .. Len(batch) : batch[k] = c
          IN  IF k = Len(batch) THEN Null ELSE batch[k + 1]
     ELSE m.next[c]]]

-----------------------------------------------------------------------------

Fresh == {c \in Chunk : size[c] = Null}

Allocate(l, i) ==
  \E n \in 1 .. MaxBatch : \E batch \in [1 .. n -> Fresh] :
    /\ \A j, k \in 1 .. n : batch[j] = batch[k] => j = k
    /\ mem' = append(Linked(mem, batch), l, i, batch[1], batch[n])
    /\ size' = [c \in Chunk |-> IF \E k \in 1 .. n : batch[k] = c THEN i ELSE size[c]]

\* Allocate with n = 0, of a size the batch arithmetic gives no chunks:
\* allocateMemoryLinkedList links nothing and append gets nullptr twice.
\* LocalMemoryManager::Malloc calls Allocate for an empty list only.
AllocateNone(l, i) ==
  /\ Empty(mem, l, i)
  /\ mem' = append(mem, l, i, Null, Null)
  /\ UNCHANGED size

\* Malloc(size), which hands the body of the head to the application.
Malloc(l, i) ==
  /\ ~Empty(mem, l, i)
  /\ mem' = pop(mem, l, i)
  /\ UNCHANGED size

\* The chunks that list (l, i) of m links, from its head on.
ChainOf(m, l, i) ==
  LET walk[k \in 0 .. Cardinality(Chunk)] ==
        IF k = 0 THEN (IF m.heads[l][i] = Null THEN <<>> ELSE <<m.heads[l][i]>>)
        ELSE LET s == walk[k - 1]
             IN  IF s = <<>> \/ m.next[s[Len(s)]] = Null THEN s
                 ELSE Append(s, m.next[s[Len(s)]])
  IN  walk[Cardinality(Chunk)]

Chain(l, i) == ChainOf(mem, l, i)

Listed == UNION {{Chain(l, i)[k] : k \in 1 .. Len(Chain(l, i))} :
                   l \in Manager, i \in Index}

\* Free(ptr) of a chunk in the application's hands.
Free(l, c) ==
  /\ size[c] # Null /\ c \notin Listed
  /\ mem' = push(mem, l, size[c], c)
  /\ UNCHANGED size

Swap(a, b, i) ==
  /\ mem' = SwapLists(mem, a, b, i)
  /\ UNCHANGED size

Join(to, from) ==
  /\ mem' = JoinLists(mem, to, from)
  /\ UNCHANGED size

Refill(from, to, i) ==
  /\ \E n \in 1 .. MaxBatch : mem' = RefillLists(mem, from, to, i, n)
  /\ UNCHANGED size

Next ==
  \E l \in Manager :
    \/ \E i \in Index : Allocate(l, i) \/ AllocateNone(l, i) \/ Malloc(l, i)
    \/ \E c \in Chunk : Free(l, c)
    \/ \E m \in Manager \ {l} :
         Join(l, m) \/ \E i \in Index : Swap(l, m, i) \/ Refill(l, m, i)

Spec == Init /\ [][Next]_vars

-----------------------------------------------------------------------------

PointerTable == [Manager -> [Index -> Chunk \cup {Null}]]

\* Types, and what a chain must be to be read as a queue at all: it ends at
\* the last pointer within the number of chunks there are.
WellFormed ==
  /\ mem \in [heads : PointerTable, lasts : PointerTable,
              next : [Chunk -> Chunk \cup {Null}]]
  /\ size \in [Chunk -> Index \cup {Null}]
  /\ \A l \in Manager, i \in Index :
       LET s == Chain(l, i)
       IN  /\ heads[l][i] = Null <=> lasts[l][i] = Null
           /\ s # <<>> => s[Len(s)] = lasts[l][i] /\ next[lasts[l][i]] = Null

\* A chunk outside the lists links to nothing: what Free asserts of the
\* block it gets, and what keeps push from appending a foreign tail.
FreeNextIsNull == \A c \in Chunk \ Listed : next[c] = Null

queue == [l \in Manager |-> [i \in Index |-> Chain(l, i)]]

\* The pointers implement FIFO queues: no operation loses, repeats or
\* reorders a chunk or lets it slip to another class.
Q == INSTANCE ChunkQueues WITH NoSize <- Null

ImplementsQueues == Q!Spec
=============================================================================
