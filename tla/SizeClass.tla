----------------------------- MODULE SizeClass ------------------------------
(***************************************************************************)
(* The size arithmetic of misc.hpp on unsigned words of W = 2^LogW bits    *)
(* (64 in the source): which size class a request belongs to and how long  *)
(* its block is.  A word is read as the set of its one bits where the code *)
(* shifts and ors, as a number elsewhere.                                  *)
(***************************************************************************)
EXTENDS Integers, FiniteSetsExt, SequencesExt

CONSTANTS
  LogW,       \* 6 in the source
  ClzOfZero   \* what __builtin_clz(0) gives on a half word: by the comment in
              \* logarithm2 its width with g++, one less with clang

ASSUME SizeClassAssumption ==
  /\ LogW \in Nat /\ LogW >= 3
  /\ ClzOfZero \in {2^(LogW - 1) - 1, 2^(LogW - 1)}

W     == 2^LogW
HalfW == W \div 2
Bit   == 0 .. W - 1
Index == 0 .. W      \* MemorySizeManager::Size of them

Truncate(x) == x % 2^W
Bits(x)     == {i \in Bit : (x \div 2^i) % 2 = 1}
Value(B)    == MapThenSumSet(LAMBDA i : 2^i, B)

ALIGN(v, n) == (Truncate(v + n - 1) \div n) * n

\* B or'ed with itself shifted right by k.
OrShifted(B, k) == B \cup {i \in Bit : i + k \in B}

\* Seeded: the last of the shifts is missing.
SeededSmear(B) == FoldLeft(OrShifted, B, [j \in 1 .. LogW - 1 |-> 2^(j-1)])

\* x |= x >> 1, x |= x >> 2, ... up to half the width.
Smear(B) == FoldLeft(OrShifted, B, [j \in 1 .. LogW |-> 2^(j-1)])

roundup_powerof2(x) == Truncate(Value(Smear(Bits(Truncate(x - 1)))) + 1)

\* __builtin_clz(v): the leading zeros of a half word.
Clz(v) ==
  IF v = 0 THEN ClzOfZero
  ELSE CHOOSE n \in 0 .. HalfW - 1 : 2^(HalfW - n - 1) <= v /\ v < 2^(HalfW - n)

\* Seeded: the exponent of x itself, not of x - 1.
Seededlogarithm2(x) ==
  IF x <= 8 THEN 3
  ELSE IF x >= 2^(W-1) THEN W
  ELSE IF x < 2^HalfW THEN HalfW - Clz(x)
  ELSE HalfW + (HalfW - Clz(x \div 2^HalfW))

logarithm2(x) ==
  IF x <= 8 THEN 3
  ELSE IF x >= 2^(W-1) THEN W
  ELSE IF x < 2^HalfW THEN HalfW - Clz(x - 1)
  ELSE HalfW + (HalfW - Clz((x - 1) \div 2^HalfW))

\* The length of the block allocateMemoryLinkedList makes for a request of x
\* bytes: at least 8.
BodySize(x) == IF roundup_powerof2(x) < 8 THEN 8 ELSE roundup_powerof2(x)
=============================================================================
