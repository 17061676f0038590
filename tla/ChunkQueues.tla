---------------------------- MODULE ChunkQueues -----------------------------
(***************************************************************************)
(* What MemoryLinkedListManager promises: per manager and size class one   *)
(* FIFO queue of chunks.  ChunkLists, which FCMalloc uses, abstracts these *)
(* queues further, to sets.                                                *)
(***************************************************************************)
EXTENDS Integers, Sequences

CONSTANTS
  Manager, Index, Chunk, NoSize,
  MaxBatch   \* bound: the longest batch and the longest refill

VARIABLES
  queue,  \* queue[l][i]: the chunks of class i that manager l holds, in order
  size    \* the class of each chunk, NoSize before it is carved

Init ==
  /\ queue = [l \in Manager |-> [i \in Index |-> <<>>]]
  /\ size = [c \in Chunk |-> NoSize]

\* A batch of fresh chunks, in any order, goes to the end of one queue.
Allocate(l, i, batch) ==
  /\ \A k \in DOMAIN batch : size[batch[k]] = NoSize
  /\ \A j, k \in DOMAIN batch : batch[j] = batch[k] => j = k
  /\ size' = [c \in Chunk |-> IF \E k \in DOMAIN batch : batch[k] = c THEN i ELSE size[c]]
  /\ queue' = [queue EXCEPT ![l][i] = @ \o batch]

Malloc(l, i) ==
  /\ queue[l][i] # <<>>
  /\ queue' = [queue EXCEPT ![l][i] = Tail(@)]
  /\ UNCHANGED size

InQueue(c) == \E l \in Manager, i \in Index :
                \E k \in 1 .. Len(queue[l][i]) : queue[l][i][k] = c

\* A chunk comes back to the queue of its own class.
Free(l, c) ==
  /\ size[c] # NoSize /\ ~InQueue(c)
  /\ queue' = [queue EXCEPT ![l][size[c]] = Append(@, c)]
  /\ UNCHANGED size

Swap(a, b, i) ==
  /\ queue' = [queue EXCEPT ![a][i] = queue[b][i], ![b][i] = queue[a][i]]
  /\ UNCHANGED size

Join(to, from) ==
  /\ queue' = [queue EXCEPT ![to] = [i \in Index |-> queue[to][i] \o queue[from][i]],
                            ![from] = [i \in Index |-> <<>>]]
  /\ UNCHANGED size

\* The first n chunks of one queue, or all when there are fewer, move to the
\* end of another.
Refill(from, to, i, n) ==
  LET q == queue[from][i]
      k == IF n <= Len(q) THEN n ELSE Len(q)
  IN  /\ queue' = [queue EXCEPT ![from][i] = SubSeq(q, k + 1, Len(q)),
                                ![to][i] = @ \o SubSeq(q, 1, k)]
      /\ UNCHANGED size

Batches == UNION {[1 .. n -> Chunk] : n \in 1 .. MaxBatch}

Next ==
  \E l \in Manager, i \in Index :
    \/ Malloc(l, i)
    \/ \E batch \in Batches : Allocate(l, i, batch)
    \/ \E c \in Chunk : Free(l, c)
    \/ \E m \in Manager \ {l} : Swap(l, m, i) \/ Join(l, m) \/ \E n \in 1 .. MaxBatch : Refill(l, m, i, n)

Spec == Init /\ [][Next]_<<queue, size>>
=============================================================================
