------------------------------ MODULE MCBatch -------------------------------
(* Constants for model checking Batch.                                     *)
EXTENDS Batch

\* As in the default table: nothing below 8 bytes, batches up to a class,
\* none for the classes beyond it.
Table == [i \in Index |-> IF i \in 3 .. 4 THEN 3 ELSE IF i \in 5 .. 11 THEN 2 ELSE 0]

\* Both sides of the powers of two where the arithmetic changes its course:
\* the least block, the half word, the last batch, the top bit.
Around == {1} \cup {x \in UNION {{2^i, 2^i + 1} : i \in {3, HalfW, HalfW + 1, 11, W - 1}} : x < 2^W}

\* Products that fit, the last of them exactly, and two that do not.
Pairs == {<<3, 5>>, <<2^HalfW, 2>>, <<2^HalfW - 1, 2^HalfW + 1>>,
          <<2^HalfW, 2^HalfW + 1>>, <<3, 2^(W-1)>>}
=============================================================================
