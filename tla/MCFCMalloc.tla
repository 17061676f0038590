----------------------------- MODULE MCFCMalloc -----------------------------
(* Constants for model checking FCMalloc.                                  *)
EXTENDS FCMalloc, TLC

\* Batches of one chunk of each class: frees and refills come soonest.
Batch1 == [i \in Index |-> 1]
Batch2 == [i \in Index |-> 2]

\* The greatest class has no batch size, as the sizes beyond 16 GB have none.
Batch0 == [i \in Index |-> IF \E j \in Index : j > i THEN 1 ELSE 0]

Symmetry == Permutations(Chunk)
=============================================================================
