-------------------------- MODULE SizeClass_proofs --------------------------
(***************************************************************************)
(* The shifts and ors of misc.hpp round up to the next power of two, and   *)
(* logarithm2 is its exponent, for words of any width.                     *)
(***************************************************************************)
EXTENDS SizeClass, FiniteSetTheorems, WellFoundedInduction, TLAPS

-----------------------------------------------------------------------------
(* Induction over the naturals, as a fact about sets.                      *)

LEMMA NatLess == IsWellFoundedOn({p \in Nat \X Nat : p[1] < p[2]}, Nat)
BY NatLessThanWellFounded, Zenon DEF OpToRel

LEMMA Induction ==
  ASSUME NEW S, 0 \in S, \A n \in Nat : n \in S => n + 1 \in S
  PROVE  Nat \subseteq S
<1> DEFINE T == Nat \ S
           R == {p \in Nat \X Nat : p[1] < p[2]}
<1>1. SUFFICES ASSUME T # {} PROVE FALSE
  OBVIOUS
<1>2. PICK x \in T : \A y \in T : ~(<<y, x>> \in R)
  <2>1. T \subseteq Nat /\ IsWellFoundedOn(R, Nat)
    BY NatLess
  <2> HIDE DEF R, T
  <2> QED
    BY <1>1, <2>1, WFMin
<1>3. x - 1 \in Nat /\ <<x - 1, x>> \in R
  BY <1>2
<1>4. x - 1 \in S
  BY <1>2, <1>3
<1> QED
  BY <1>2, <1>3, <1>4

-----------------------------------------------------------------------------
(* Powers of two, as numbers of subsets.                                   *)

LEMMA PowerIsCardinality ==
  ASSUME NEW n \in Nat
  PROVE  Cardinality(SUBSET (1 .. n)) = 2^n /\ 2^n \in Nat /\ IsFiniteSet(SUBSET (1 .. n))
<1>1. IsFiniteSet(1 .. n) /\ Cardinality(1 .. n) = n
  BY FS_Interval
<1>2. Cardinality(SUBSET (1 .. n)) = 2^Cardinality(1 .. n) /\ IsFiniteSet(SUBSET (1 .. n))
  BY <1>1, FS_SUBSET
<1>3. 2^n = Cardinality(SUBSET (1 .. n))
  BY <1>1, <1>2
<1>4. Cardinality(SUBSET (1 .. n)) \in Nat
  BY <1>2, FS_CardinalityType
<1> QED
  BY <1>1, <1>2, <1>3, <1>4

LEMMA PowerZero == 2^0 = 1
OBVIOUS

LEMMA PowerNext ==
  ASSUME NEW n \in Nat
  PROVE  2^(n + 1) = 2 * 2^n
<1> DEFINE A == SUBSET (1 .. n)
           add(T) == T \cup {n + 1}
           B == {add(T) : T \in A}
           f == [T \in A |-> add(T)]
<1>1. SUBSET (1 .. n + 1) = A \cup B
  <2>1. ASSUME NEW T \in SUBSET (1 .. n + 1), n + 1 \in T PROVE T \in B
    <3>1. T \ {n + 1} \in A /\ T = add(T \ {n + 1})
      BY <2>1
    <3> QED
      BY <3>1
  <2>2. ASSUME NEW T \in SUBSET (1 .. n + 1), n + 1 \notin T PROVE T \in A
    BY <2>2
  <2>3. ASSUME NEW T \in A PROVE T \in SUBSET (1 .. n + 1) /\ add(T) \in SUBSET (1 .. n + 1)
    OBVIOUS
  <2> DEFINE C == SUBSET (1 .. n + 1)
  <2>4. C \subseteq A \cup B
    <3> HIDE DEF A, B, add
    <3> QED
      BY <2>1, <2>2
  <2>5. A \subseteq C /\ B \subseteq C
    BY <2>3
  <2> HIDE DEF A, B, C
  <2>6. C = A \cup B
    BY <2>4, <2>5
  <2> QED
    BY <2>6 DEF C
<1>2. A \cap B = {}
  OBVIOUS
<1>3. f \in Bijection(A, B)
  <2>1. f \in [A -> B] /\ \A T \in A : f[T] = add(T)
    OBVIOUS
  <2>2. \A T, U \in A : add(T) = add(U) => T = U
    OBVIOUS
  <2>3. \A U \in B : \E T \in A : f[T] = U
    BY <2>1
  <2> HIDE DEF f, add, A, B
  <2> QED
    BY <2>1, <2>2, <2>3 DEF Bijection, Injection, IsInjective, Surjection
<1>4. IsFiniteSet(A) /\ Cardinality(A) = 2^n /\ 2^n \in Nat
  BY PowerIsCardinality
<1>5. IsFiniteSet(B) /\ Cardinality(B) = 2^n
  <2> HIDE DEF A, B, f
  <2> QED
    BY <1>3, <1>4, FS_Bijection DEF ExistsBijection
<1>6. Cardinality(A \cup B) = Cardinality(A) + Cardinality(B)
  <2>1. Cardinality(A \cup B) = Cardinality(A) + Cardinality(B) - Cardinality(A \cap B)
    <3> HIDE DEF A, B
    <3> QED
      BY <1>4, <1>5, FS_Union
  <2>2. Cardinality(A \cap B) = 0
    BY <1>2, FS_EmptySet
  <2> HIDE DEF A, B
  <2> QED
    BY <1>4, <1>5, <2>1, <2>2
<1>7. Cardinality(A \cup B) = 2^(n + 1)
  <2>1. Cardinality(SUBSET (1 .. n + 1)) = 2^(n + 1)
    BY PowerIsCardinality
  <2> HIDE DEF A, B
  <2> QED
    BY <1>1, <2>1
<1> HIDE DEF A, B
<1> QED
  BY <1>4, <1>5, <1>6, <1>7

LEMMA PowerType ==
  ASSUME NEW n \in Nat
  PROVE  2^n \in Nat \ {0}
<1> DEFINE E == {k \in Nat : 2^k # 0}
<1>1. 0 \in E
  BY PowerZero
<1>2. ASSUME NEW k \in Nat, k \in E PROVE k + 1 \in E
  <2>1. 2^k \in Nat /\ 2^(k + 1) = 2 * 2^k
    BY PowerIsCardinality, PowerNext
  <2> QED
    BY <1>2, <2>1
<1> HIDE DEF E
<1>3. n \in E
  BY <1>1, <1>2, Induction
<1> QED
  BY <1>3, PowerIsCardinality DEF E

LEMMA PowerSum ==
  ASSUME NEW a \in Nat, NEW b \in Nat
  PROVE  2^(a + b) = 2^a * 2^b
<1> DEFINE E == {k \in Nat : 2^(a + k) = 2^a * 2^k}
<1>1. 0 \in E
  <2>1. a + 0 = a /\ 2^a \in Nat
    BY PowerType
  <2> QED
    BY <2>1, PowerZero
<1>2. ASSUME NEW k \in Nat, k \in E PROVE k + 1 \in E
  <2> DEFINE x == 2^a
             y == 2^k
  <2>1. x \in Nat /\ y \in Nat /\ 2^(a + k) = x * y
    BY <1>2, PowerType
  <2>2. 2^(k + 1) = 2 * y
    BY PowerNext
  <2>3. 2^(a + (k + 1)) = 2 * (x * y)
    <3>1. a + (k + 1) = (a + k) + 1 /\ a + k \in Nat
      OBVIOUS
    <3> QED
      BY <2>1, <3>1, PowerNext
  <2> HIDE DEF x, y
  <2>4. 2 * (x * y) = x * (2 * y)
    BY <2>1
  <2>5. 2^(a + (k + 1)) = 2^a * 2^(k + 1)
    BY <2>2, <2>3, <2>4 DEF x
  <2> QED
    BY <2>5
<1> HIDE DEF E
<1>3. b \in E
  BY <1>1, <1>2, Induction
<1> QED
  BY <1>3 DEF E

LEMMA PowerLess ==
  ASSUME NEW a \in Nat, NEW b \in Nat
  PROVE  /\ a <= b => 2^a <= 2^b
         /\ a < b => 2 * 2^a <= 2^b /\ 2^a < 2^b
         /\ 2^a <= 2^b => a <= b
         /\ 2^a < 2^b => a < b
<1>1. ASSUME NEW c \in Nat, NEW d \in Nat, c <= d PROVE 2^c <= 2^d
  <2> DEFINE x == 2^c
             y == 2^(d - c)
  <2>1. d - c \in Nat /\ d = c + (d - c)
    BY <1>1
  <2>2. 2^d = x * y /\ x \in Nat \ {0} /\ y \in Nat \ {0}
    BY <2>1, PowerSum, PowerType
  <2> HIDE DEF x, y
  <2>3. x <= x * y
    BY <2>2
  <2> QED
    BY <2>2, <2>3 DEF x
<1>2. ASSUME NEW c \in Nat, NEW d \in Nat, c < d PROVE 2 * 2^c <= 2^d /\ 2^c < 2^d
  <2>1. c + 1 \in Nat /\ c + 1 <= d
    BY <1>2
  <2>2. 2^(c + 1) <= 2^d
    BY <1>1, <2>1
  <2> QED
    BY <2>2, PowerNext, PowerType
<1>3. 2^a \in Nat /\ 2^b \in Nat
  BY PowerType
<1>4. a <= b \/ b < a
  OBVIOUS
<1>5. a < b \/ b <= a
  OBVIOUS
<1> QED
  BY <1>1, <1>2, <1>3, <1>4, <1>5

-----------------------------------------------------------------------------
(* The smear: a word with highest bit n becomes 2^(n+1) - 1.               *)

LEMMA MaxIs ==
  ASSUME NEW S \in SUBSET Nat, IsFiniteSet(S), S # {}
  PROVE  Max(S) \in S /\ \A y \in S : Max(S) >= y
<1> DEFINE E == {n \in Nat : \A T \in SUBSET Nat :
                   IsFiniteSet(T) /\ Cardinality(T) = n + 1 => \E i \in T : \A j \in T : i >= j}
<1>1. 0 \in E
  <2> SUFFICES ASSUME NEW T \in SUBSET Nat, IsFiniteSet(T), Cardinality(T) = 1
               PROVE  \E i \in T : \A j \in T : i >= j
    OBVIOUS
  <2>1. PICK x : T = {x}
    BY FS_Singleton
  <2> QED
    BY <2>1
<1>2. ASSUME NEW n \in Nat, n \in E PROVE n + 1 \in E
  <2> SUFFICES ASSUME NEW T \in SUBSET Nat, IsFiniteSet(T), Cardinality(T) = (n + 1) + 1
               PROVE  \E i \in T : \A j \in T : i >= j
    OBVIOUS
  <2>0. T # {}
    <3> SUFFICES ASSUME T = {} PROVE FALSE
      OBVIOUS
    <3>1. Cardinality(T) = 0
      BY FS_EmptySet
    <3> QED
      BY <3>1
  <2>1. PICK x \in T : TRUE
    BY <2>0
  <2>2. T \ {x} \in SUBSET Nat /\ IsFiniteSet(T \ {x}) /\ Cardinality(T \ {x}) = n + 1
    <3>1. Cardinality(T \ {x}) = Cardinality(T) - 1 /\ IsFiniteSet(T \ {x})
      BY <2>1, FS_RemoveElement
    <3> QED
      BY <3>1
  <2>3. PICK y \in T \ {x} : \A j \in T \ {x} : y >= j
    BY <1>2, <2>2
  <2>4. CASE x <= y
    BY <2>3, <2>4
  <2>5. CASE ~(x <= y)
    <3>1. \A j \in T : x >= j
      BY <2>3, <2>5
    <3> QED
      BY <3>1
  <2> QED
    BY <2>4, <2>5
<1> HIDE DEF E
<1>3. Nat \subseteq E
  BY <1>1, <1>2, Induction
<1>4. Cardinality(S) \in Nat /\ Cardinality(S) # 0
  BY FS_CardinalityType, FS_EmptySet
<1>5. Cardinality(S) - 1 \in E /\ Cardinality(S) = (Cardinality(S) - 1) + 1
  BY <1>3, <1>4
<1>6. \E i \in S : \A j \in S : i >= j
  BY <1>5 DEF E
<1> QED
  BY <1>6 DEF Max

LEMMA Widths ==
  /\ LogW \in Nat /\ LogW >= 3 /\ LogW - 1 \in Nat
  /\ W = 2 * HalfW /\ HalfW = 2^(LogW - 1) /\ HalfW \in Nat /\ HalfW >= 4 /\ W \in Nat /\ W >= 8
<1>1. LogW \in Nat /\ LogW >= 3 /\ LogW - 1 \in Nat /\ LogW = (LogW - 1) + 1
  BY SizeClassAssumption
<1>2. 2^LogW = 2 * 2^(LogW - 1) /\ 2^(LogW - 1) \in Nat
  BY <1>1, PowerNext, PowerType
<1>3. 2^2 <= 2^(LogW - 1)
  <2>1. 2 \in Nat /\ 2 <= LogW - 1
    BY <1>1
  <2> QED
    BY <1>1, <2>1, PowerLess
<1>4. 2^2 = 4
  OBVIOUS
<1> HIDE DEF W
<1>5. W = 2 * 2^(LogW - 1) /\ 2^(LogW - 1) >= 4
  BY <1>2, <1>3, <1>4 DEF W
<1> QED
  BY <1>1, <1>2, <1>5 DEF HalfW

\* The distances of the shifts, in order.
Shifts == [j \in 1 .. LogW |-> 2^(j-1)]

SmearBody(B, w, s) == IF s = {} THEN B ELSE OrShifted(w[s \ {Max(s)}], Shifts[Max(s)])

IsSmear(B, w) == w = [s \in SUBSET DOMAIN Shifts |-> SmearBody(B, w, s)]

LEMMA SmearWalk ==
  ASSUME NEW B
  PROVE  \E w : IsSmear(B, w) /\ Smear(B) = w[1 .. LogW]
<1> DEFINE Body(w, s) == SmearBody(B, w, s)
           Dom == 1 .. LogW
           D(n) == {s \in SUBSET Dom : Cardinality(s) <= n}
           E == {n \in Nat : \E w : w = [s \in D(n) |-> Body(w, s)]}
<1>0. Dom = DOMAIN Shifts /\ IsFiniteSet(Dom) /\ Dom \subseteq Nat
  BY FS_Interval, SizeClassAssumption DEF Shifts
<1> HIDE DEF Dom
<1>a. \A s \in SUBSET Dom : IsFiniteSet(s) /\ Cardinality(s) \in Nat /\ (Cardinality(s) = 0 => s = {})
  BY <1>0, FS_Subset, FS_CardinalityType, FS_EmptySet
<1>b. \A s \in SUBSET Dom : s # {} =>
        s \ {Max(s)} \in SUBSET Dom /\ Cardinality(s \ {Max(s)}) = Cardinality(s) - 1
  BY <1>0, <1>a, MaxIs, FS_RemoveElement
<1>1. 0 \in E
  <2> DEFINE w == [s \in D(0) |-> B]
  <2>1. \A s \in D(0) : s = {}
    BY <1>a
  <2>2. \A s \in D(0) : Body(w, s) = B
    BY <2>1 DEF SmearBody
  <2>3. w = [s \in D(0) |-> Body(w, s)]
    BY <2>2
  <2> HIDE DEF w
  <2> QED
    BY <2>3
<1>2. ASSUME NEW n \in Nat, n \in E PROVE n + 1 \in E
  <2>1. PICK f : f = [s \in D(n) |-> Body(f, s)]
    BY <1>2
  <2> DEFINE g == [s \in D(n + 1) |-> IF s \in D(n) THEN f[s] ELSE Body(f, s)]
  <2>2. \A s \in D(n + 1) : s # {} => s \ {Max(s)} \in D(n) /\ s \ {Max(s)} \in D(n + 1)
    BY <1>a, <1>b
  <2>3. \A s \in D(n + 1) : s # {} => g[s \ {Max(s)}] = f[s \ {Max(s)}]
    BY <2>2
  <2>4. \A s \in D(n + 1) : Body(g, s) = Body(f, s)
    <3> HIDE DEF g
    <3> QED
      BY <2>3 DEF SmearBody
  <2>5. \A s \in D(n + 1) : g[s] = Body(f, s)
    <3> HIDE DEF D, Body
    <3>1. \A s \in D(n) : f[s] = Body(f, s)
      BY <2>1
    <3> QED
      BY <3>1
  <2>6. g = [s \in D(n + 1) |-> Body(g, s)]
    <3> HIDE DEF D, Body
    <3> QED
      BY <2>4, <2>5
  <2> HIDE DEF g
  <2> QED
    BY <2>6
<1>3. D(Cardinality(Dom)) = SUBSET Dom
  BY <1>0, <1>a, FS_Subset
<1>4. \E w : w = [s \in SUBSET Dom |-> Body(w, s)]
  <2>1. Cardinality(Dom) \in E
    <3> HIDE DEF E
    <3> QED
      BY <1>1, <1>2, <1>a, Induction
  <2> HIDE DEF D
  <2> QED
    BY <1>3, <2>1
<1>5. \E w : IsSmear(B, w)
  BY <1>0, <1>4 DEF IsSmear
<1>6. Smear(B) = (CHOOSE w : IsSmear(B, w))[DOMAIN Shifts]
  BY DEF Smear, FoldLeft, MapThenFoldSet, IsSmear, SmearBody, Shifts
<1> QED
  BY <1>0, <1>5, <1>6 DEF Dom

\* What the shifts make of B, one after the other.
Smearing(B, b) ==
  /\ b[0] = B
  /\ \A k \in 0 .. LogW - 1 : b[k + 1] = OrShifted(b[k], 2^k)
  /\ Smear(B) = b[LogW]

LEMMA SmearTurns ==
  ASSUME NEW B
  PROVE  \E b : Smearing(B, b)
<1>1. PICK w : IsSmear(B, w) /\ Smear(B) = w[1 .. LogW]
  BY SmearWalk
<1>2. LogW \in Nat /\ DOMAIN Shifts = 1 .. LogW /\ \A j \in 1 .. LogW : Shifts[j] = 2^(j-1)
  BY SizeClassAssumption DEF Shifts
<1>3. \A s \in SUBSET (1 .. LogW) : w[s] = SmearBody(B, w, s)
  <2> DEFINE b(s) == SmearBody(B, w, s)
  <2>1. w = [s \in SUBSET (1 .. LogW) |-> b(s)]
    BY <1>1, <1>2 DEF IsSmear
  <2> HIDE DEF b
  <2>2. \A s \in SUBSET (1 .. LogW) : w[s] = b(s)
    BY <2>1
  <2> QED
    BY <2>2 DEF b
<1>4. w[1 .. 0] = B
  <2>1. 1 .. 0 = {} /\ 1 .. 0 \in SUBSET (1 .. LogW)
    OBVIOUS
  <2> QED
    BY <1>3, <2>1 DEF SmearBody
<1>5. ASSUME NEW k \in 0 .. LogW - 1 PROVE w[1 .. k + 1] = OrShifted(w[1 .. k], 2^k)
  <2>1. 1 .. k + 1 \in SUBSET (1 .. LogW) /\ 1 .. k + 1 # {} /\ k + 1 \in 1 .. LogW
    <3>1. k + 1 \in 1 .. k + 1 /\ \A x \in 1 .. k + 1 : x \in 1 .. LogW
      BY <1>2
    <3> QED
      BY <3>1
  <2>2. Max(1 .. k + 1) = k + 1
    <3>1. 1 .. k + 1 \in SUBSET Nat /\ IsFiniteSet(1 .. k + 1)
      BY FS_Interval
    <3>2. Max(1 .. k + 1) \in 1 .. k + 1 /\ \A y \in 1 .. k + 1 : Max(1 .. k + 1) >= y
      BY <2>1, <3>1, MaxIs
    <3>3. k + 1 \in 1 .. k + 1
      OBVIOUS
    <3> QED
      BY <3>2, <3>3
  <2>3. (1 .. k + 1) \ {k + 1} = 1 .. k
    OBVIOUS
  <2>4. Shifts[k + 1] = 2^k
    <3>1. (k + 1) - 1 = k
      OBVIOUS
    <3> QED
      BY <1>2, <2>1, <3>1
  <2>5. w[1 .. k + 1] = OrShifted(w[(1 .. k + 1) \ {Max(1 .. k + 1)}], Shifts[Max(1 .. k + 1)])
    BY <1>3, <2>1 DEF SmearBody
  <2> QED
    BY <2>2, <2>3, <2>4, <2>5
<1> DEFINE b == [k \in 0 .. LogW |-> w[1 .. k]]
<1>6. /\ b[0] = w[1 .. 0] /\ b[LogW] = w[1 .. LogW]
      /\ \A k \in 0 .. LogW - 1 : b[k] = w[1 .. k] /\ b[k + 1] = w[1 .. k + 1]
  BY <1>2
<1> HIDE DEF b
<1>7. Smearing(B, b)
  BY <1>1, <1>4, <1>5, <1>6 DEF Smearing
<1> QED
  BY <1>7

\* A word with highest bit n ends with all bits up to n.
LEMMA SmearFills ==
  ASSUME NEW n \in Bit, NEW B \in SUBSET (0 .. n), n \in B
  PROVE  Smear(B) = 0 .. n
<1>1. PICK b : Smearing(B, b)
  BY SmearTurns
<1>2. n \in Nat /\ n < W /\ W \in Nat /\ Bit = 0 .. W - 1 /\ LogW \in Nat
  BY Widths DEF Bit
<1> DEFINE Filled(A, k) == A \subseteq 0 .. n /\ \A i \in 0 .. n : n - 2^k < i => i \in A
           E == {k \in Nat : k <= LogW => Filled(b[k], k)}
<1>3. 0 \in E
  <2>1. b[0] = B
    BY <1>1 DEF Smearing
  <2>2. \A i \in 0 .. n : n - 2^0 < i => i = n
    BY <1>2, PowerZero
  <2> QED
    BY <2>1, <2>2
<1>4. ASSUME NEW k \in Nat, k \in E PROVE k + 1 \in E
  <2> SUFFICES ASSUME k + 1 <= LogW PROVE Filled(b[k + 1], k + 1)
    OBVIOUS
  <2> DEFINE A == b[k]
             p == 2^k
  <2>1. Filled(A, k)
    BY <1>2, <1>4
  <2>2. b[k + 1] = OrShifted(A, p)
    BY <1>1, <1>2 DEF Smearing
  <2>3. p \in Nat \ {0} /\ 2^(k + 1) = 2 * p
    BY PowerNext, PowerType
  <2> HIDE DEF p
  <2>4. A \subseteq 0 .. n /\ \A i \in 0 .. n : n - p < i => i \in A
    BY <2>1 DEF p
  <2> HIDE DEF A
  <2>5. OrShifted(A, p) \subseteq 0 .. n
    <3> SUFFICES ASSUME NEW i \in Bit, i + p \in A PROVE i \in 0 .. n
      BY <2>4 DEF OrShifted
    <3>1. i + p \in 0 .. n
      BY <2>4
    <3> QED
      BY <1>2, <2>3, <3>1
  <2>6. ASSUME NEW i \in 0 .. n, n - 2 * p < i PROVE i \in OrShifted(A, p)
    <3>1. CASE n - p < i
      BY <2>4, <3>1 DEF OrShifted
    <3>2. CASE ~(n - p < i)
      <4>1. i + p \in 0 .. n /\ n - p < i + p /\ i \in Bit
        BY <1>2, <2>3, <2>6, <3>2
      <4> QED
        BY <2>4, <4>1 DEF OrShifted
    <3> QED
      BY <3>1, <3>2
  <2> QED
    BY <2>2, <2>3, <2>5, <2>6
<1>5. Filled(b[LogW], LogW)
  <2> HIDE DEF Filled
  <2>1. Nat \subseteq E
    <3> HIDE DEF E
    <3> QED
      BY <1>3, <1>4, Induction
  <2> QED
    BY <1>2, <2>1
<1>6. \A i \in 0 .. n : n - 2^LogW < i
  BY <1>2 DEF W
<1> QED
  BY <1>1, <1>5, <1>6 DEF Smearing

LEMMA SmearNothing == Smear({}) = {}
<1>1. PICK b : Smearing({}, b)
  BY SmearTurns
<1> DEFINE E == {k \in Nat : k <= LogW => b[k] = {}}
<1>2. 0 \in E
  BY <1>1 DEF Smearing
<1>3. ASSUME NEW k \in Nat, k \in E PROVE k + 1 \in E
  <2>1. SUFFICES ASSUME k + 1 <= LogW PROVE b[k + 1] = {}
    OBVIOUS
  <2>2. k \in 0 .. LogW - 1 /\ b[k] = {}
    BY <1>3, <2>1, Widths
  <2>3. b[k + 1] = OrShifted(b[k], 2^k)
    BY <1>1, <2>2 DEF Smearing
  <2>4. OrShifted({}, 2^k) = {}
    BY DEF OrShifted
  <2> QED
    BY <2>2, <2>3, <2>4
<1>4. LogW \in E
  <2> HIDE DEF E
  <2> QED
    BY <1>2, <1>3, Widths, Induction
<1> QED
  BY <1>1, <1>4 DEF Smearing

-----------------------------------------------------------------------------
(* The value of a word of ones: 2^i counts the numbers of i + 1 bits.      *)

\* The numbers whose highest bit is i.
Slice(i) == 2^i .. 2^(i + 1) - 1

\* Every number has a highest bit.
LEMMA HighestBit ==
  ASSUME NEW k \in Nat, NEW v \in 1 .. 2^k - 1
  PROVE  \E i \in 0 .. k - 1 : v \in Slice(i)
<1> DEFINE E == {n \in Nat : \A x \in Nat \ {0} : x < 2^n => \E i \in 0 .. n - 1 : x \in Slice(i)}
<1>1. 0 \in E
  BY PowerZero
<1>2. ASSUME NEW n \in Nat, n \in E PROVE n + 1 \in E
  <2> SUFFICES ASSUME NEW x \in Nat \ {0}, x < 2^(n + 1)
               PROVE  \E i \in 0 .. (n + 1) - 1 : x \in Slice(i)
    OBVIOUS
  <2>1. 2^n \in Nat /\ 2^(n + 1) \in Nat
    BY PowerType
  <2>2. CASE x < 2^n
    BY <1>2, <2>2
  <2>3. CASE ~(x < 2^n)
    <3>1. x \in Slice(n) /\ n \in 0 .. (n + 1) - 1
      BY <2>1, <2>3 DEF Slice
    <3> QED
      BY <3>1
  <2> QED
    BY <2>2, <2>3
<1>3. k \in E
  <2> HIDE DEF E
  <2> QED
    BY <1>1, <1>2, Induction
<1>4. v \in Nat \ {0} /\ v < 2^k
  BY PowerType
<1> QED
  BY <1>3, <1>4

LEMMA SliceFacts ==
  ASSUME NEW i \in Nat
  PROVE  /\ IsFiniteSet(Slice(i)) /\ Cardinality(Slice(i)) = 2^i
         /\ \A j \in Nat : j # i => Slice(i) \cap Slice(j) = {}
         /\ \A n \in Nat : i <= n => Slice(i) \subseteq 1 .. 2^(n + 1) - 1
<1>1. 2^i \in Nat \ {0} /\ 2^(i + 1) = 2 * 2^i
  BY PowerNext, PowerType
<1>2. IsFiniteSet(Slice(i)) /\ Cardinality(Slice(i)) = 2^i
  BY <1>1, FS_Interval DEF Slice
<1>3. ASSUME NEW j \in Nat, j # i PROVE Slice(i) \cap Slice(j) = {}
  <2>1. 2^j \in Nat /\ 2^(j + 1) = 2 * 2^j
    BY PowerNext, PowerType
  <2>2. CASE i < j
    <3>1. 2 * 2^i <= 2^j
      BY <2>2, PowerLess
    <3> QED
      BY <1>1, <2>1, <3>1 DEF Slice
  <2>3. CASE j < i
    <3>1. 2 * 2^j <= 2^i
      BY <2>3, PowerLess
    <3> QED
      BY <1>1, <2>1, <3>1 DEF Slice
  <2> QED
    BY <1>3, <2>2, <2>3
<1>4. ASSUME NEW n \in Nat, i <= n PROVE Slice(i) \subseteq 1 .. 2^(n + 1) - 1
  <2>1. i + 1 <= n + 1 /\ i + 1 \in Nat /\ n + 1 \in Nat
    BY <1>4
  <2>2. 2^(i + 1) <= 2^(n + 1) /\ 2^(n + 1) \in Nat /\ 2^(i + 1) \in Nat
    BY <2>1, PowerLess, PowerType
  <2> QED
    BY <1>1, <2>2 DEF Slice
<1> QED
  BY <1>2, <1>3, <1>4

Count(s) == Cardinality(UNION {Slice(i) : i \in s})

LEMMA CountAdd ==
  ASSUME NEW n \in Nat, NEW s \in SUBSET (0 .. n), NEW x \in s
  PROVE  Count(s) = 2^x + Count(s \ {x})
<1> DEFINE A == UNION {Slice(i) : i \in s \ {x}}
           C == UNION {Slice(i) : i \in s}
<1>1. C = Slice(x) \cup A
  OBVIOUS
<1>2. Slice(x) \cap A = {}
  BY SliceFacts
<1>3. A \subseteq 1 .. 2^(n + 1) - 1
  BY SliceFacts
<1>4. IsFiniteSet(A)
  <2>1. IsFiniteSet(1 .. 2^(n + 1) - 1)
    BY FS_Interval, PowerType
  <2> HIDE DEF A
  <2> QED
    BY <1>3, <2>1, FS_Subset
<1>5. x \in Nat
  OBVIOUS
<1>6. IsFiniteSet(Slice(x)) /\ Cardinality(Slice(x)) = 2^x /\ 2^x \in Nat
  BY <1>5, SliceFacts, PowerType
<1> HIDE DEF A, C
<1>7. Cardinality(A) \in Nat
  BY <1>4, FS_CardinalityType
<1>8. Cardinality(Slice(x) \cup A) = Cardinality(Slice(x)) + Cardinality(A) - Cardinality(Slice(x) \cap A)
  BY <1>4, <1>6, FS_Union
<1>9. Cardinality(Slice(x) \cap A) = 0
  BY <1>2, FS_EmptySet
<1>10. Cardinality(C) = 2^x + Cardinality(A)
  BY <1>1, <1>6, <1>7, <1>8, <1>9
<1> QED
  BY <1>10 DEF Count, A, C

LEMMA CountAll ==
  ASSUME NEW n \in Nat
  PROVE  Count(0 .. n) = 2^(n + 1) - 1
<1> DEFINE C == UNION {Slice(i) : i \in 0 .. n}
           p == 2^(n + 1)
<1>1. C = 1 .. p - 1
  <2>1. ASSUME NEW v \in 1 .. p - 1 PROVE v \in C
    <3>1. \E i \in 0 .. (n + 1) - 1 : v \in Slice(i)
      BY HighestBit
    <3>2. PICK i \in 0 .. (n + 1) - 1 : v \in Slice(i)
      BY <3>1
    <3>3. i \in 0 .. n
      OBVIOUS
    <3> QED
      BY <3>2, <3>3
  <2>2. C \subseteq 1 .. p - 1
    BY SliceFacts
  <2> HIDE DEF C, p
  <2> QED
    BY <2>1, <2>2
<1>2. p \in Nat \ {0}
  BY PowerType
<1> HIDE DEF C, p
<1>3. Cardinality(C) = p - 1
  BY <1>1, <1>2, FS_Interval
<1> QED
  BY <1>3 DEF Count, C, p

Pick(s) == CHOOSE x \in s : TRUE

SumBody(w, s) == IF s = {} THEN 0 ELSE 2^Pick(s) + w[s \ {Pick(s)}]

IsSum(B, w) == w = [s \in SUBSET B |-> SumBody(w, s)]

LEMMA ValueOfOnes ==
  ASSUME NEW n \in Nat
  PROVE  Value(0 .. n) = 2^(n + 1) - 1
<1> DEFINE B == 0 .. n
           g == [s \in SUBSET B |-> Count(s)]
           w == CHOOSE x : IsSum(B, x)
<1>1. Count({}) = 0
  BY FS_EmptySet DEF Count
<1>2. \A s \in SUBSET B : s # {} => Pick(s) \in s
  BY DEF Pick
<1>3. IsSum(B, g)
  <2> DEFINE b(s) == SumBody(g, s)
  <2>1. ASSUME NEW s \in SUBSET B PROVE Count(s) = b(s)
    <3>1. CASE s = {}
      BY <1>1, <3>1 DEF SumBody
    <3>2. CASE s # {}
      <4>1. Pick(s) \in s /\ s \ {Pick(s)} \in SUBSET B
        BY <1>2, <3>2
      <4>2. Count(s) = 2^Pick(s) + Count(s \ {Pick(s)})
        BY <4>1, CountAdd
      <4>3. g[s \ {Pick(s)}] = Count(s \ {Pick(s)})
        BY <4>1
      <4> HIDE DEF g
      <4> QED
        BY <3>2, <4>2, <4>3 DEF SumBody
    <3> QED
      BY <3>1, <3>2
  <2> HIDE DEF b
  <2>2. g = [s \in SUBSET B |-> b(s)]
    BY <2>1
  <2> HIDE DEF g
  <2> QED
    BY <2>2 DEF b, IsSum
<1>4. IsSum(B, w)
  <2> HIDE DEF g
  <2> QED
    BY <1>3
<1>5. Value(B) = w[B]
  BY DEF Value, MapThenSumSet, MapThenFoldSet, IsSum, SumBody, Pick
<1> HIDE DEF w, g
<1>6. \A s \in SUBSET B : w[s] = SumBody(w, s)
  <2> DEFINE b(s) == SumBody(w, s)
  <2>1. w = [s \in SUBSET B |-> b(s)]
    BY <1>4 DEF IsSum
  <2> HIDE DEF b
  <2>2. \A s \in SUBSET B : w[s] = b(s)
    BY <2>1
  <2> QED
    BY <2>2 DEF b
<1>7. \A s \in SUBSET B : IsFiniteSet(s) /\ Cardinality(s) \in Nat
  <2>1. IsFiniteSet(B)
    BY FS_Interval
  <2> HIDE DEF B
  <2> QED
    BY <2>1, FS_Subset, FS_CardinalityType
<1> DEFINE E == {k \in Nat : \A s \in SUBSET B : Cardinality(s) = k => w[s] = Count(s)}
<1>8. 0 \in E
  <2> SUFFICES ASSUME NEW s \in SUBSET B, Cardinality(s) = 0 PROVE w[s] = Count(s)
    OBVIOUS
  <2>1. s = {}
    BY <1>7, FS_EmptySet
  <2> QED
    BY <1>1, <1>6, <2>1 DEF SumBody
<1>9. ASSUME NEW k \in Nat, k \in E PROVE k + 1 \in E
  <2> HIDE DEF B
  <2> SUFFICES ASSUME NEW s \in SUBSET B, Cardinality(s) = k + 1 PROVE w[s] = Count(s)
    OBVIOUS
  <2> USE DEF B
  <2>1. s # {}
    BY <1>7, FS_EmptySet
  <2> DEFINE x == Pick(s)
  <2>2. x \in s /\ s \ {x} \in SUBSET B
    BY <1>2, <2>1
  <2>3. Cardinality(s \ {x}) = k
    <3>1. Cardinality(s \ {x}) = Cardinality(s) - 1
      BY <1>7, <2>2, FS_RemoveElement
    <3> QED
      BY <3>1
  <2>4. w[s] = 2^x + w[s \ {x}]
    BY <1>6, <2>1 DEF SumBody
  <2> HIDE DEF x
  <2>5. w[s \ {x}] = Count(s \ {x})
    BY <1>9, <2>2, <2>3
  <2> QED
    BY <2>2, <2>4, <2>5, CountAdd
<1>10. w[B] = Count(B)
  <2>1. Nat \subseteq E
    <3> HIDE DEF E
    <3> QED
      BY <1>8, <1>9, Induction
  <2>2. B \in SUBSET B /\ Cardinality(B) \in E
    BY <1>7, <2>1
  <2> HIDE DEF B
  <2> QED
    BY <2>2
<1> QED
  BY <1>5, <1>10, CountAll

LEMMA ValueOfNothing == Value({}) = 0
<1> DEFINE w == CHOOSE x : IsSum({}, x)
           g == [s \in SUBSET {} |-> 0]
<1>1. IsSum({}, g)
  <2>1. \A s \in SUBSET {} : SumBody(g, s) = 0
    BY DEF SumBody
  <2>2. g = [s \in SUBSET {} |-> SumBody(g, s)]
    <3> DEFINE b(s) == SumBody(g, s)
    <3>1. \A s \in SUBSET {} : b(s) = 0
      BY <2>1
    <3> HIDE DEF b
    <3>2. g = [s \in SUBSET {} |-> b(s)]
      BY <3>1
    <3> QED
      BY <3>2 DEF b
  <2> QED
    BY <2>2 DEF IsSum
<1>2. IsSum({}, w)
  <2> HIDE DEF g
  <2> QED
    BY <1>1
<1>3. Value({}) = w[{}]
  BY DEF Value, MapThenSumSet, MapThenFoldSet, IsSum, SumBody, Pick
<1> HIDE DEF w
<1>4. w[{}] = SumBody(w, {})
  <2> DEFINE b(s) == SumBody(w, s)
  <2>1. w = [s \in SUBSET {} |-> b(s)]
    BY <1>2 DEF IsSum
  <2> HIDE DEF b
  <2>2. w[{}] = b({})
    BY <2>1
  <2> QED
    BY <2>2 DEF b
<1> QED
  BY <1>3, <1>4 DEF SumBody

-----------------------------------------------------------------------------
(* The two functions of misc.hpp.                                          *)

\* A number is in the slice of its highest bit only.
LEMMA OneSlice ==
  ASSUME NEW i \in Nat, NEW j \in Nat, NEW v, v \in Slice(i), v \in Slice(j)
  PROVE  i = j
BY SliceFacts

LEMMA SliceBelow ==
  ASSUME NEW n \in Nat, NEW v \in Slice(n), NEW k \in Nat
  PROVE  /\ v \in Nat \ {0} /\ 2^n <= v /\ v < 2^(n + 1) /\ 2^(n + 1) = 2 * 2^n
         /\ v < 2^k => n < k
         /\ n < k => v < 2^k
<1>1. /\ 2^n \in Nat \ {0} /\ 2^(n + 1) = 2 * 2^n /\ 2^k \in Nat
      /\ v \in Nat \ {0} /\ 2^n <= v /\ v < 2^(n + 1)
  BY PowerNext, PowerType DEF Slice
<1>2. ASSUME v < 2^k PROVE n < k
  <2>1. 2^n < 2^k
    BY <1>1, <1>2
  <2> QED
    BY <2>1, PowerLess
<1>3. ASSUME n < k PROVE v < 2^k
  <2>1. 2 * 2^n <= 2^k
    BY <1>3, PowerLess
  <2> QED
    BY <1>1, <2>1
<1> QED
  BY <1>1, <1>2, <1>3

LEMMA Division ==
  ASSUME NEW v \in Nat, NEW d \in Nat \ {0}
  PROVE  /\ v \div d \in Nat /\ (v \div d) * d <= v /\ v < (v \div d) * d + d
         /\ v < d => v \div d = 0 /\ v % d = v
         /\ d <= v /\ v < 2 * d => v \div d = 1
OBVIOUS

\* The bits of a number end at its highest bit.
LEMMA BitsOf ==
  ASSUME NEW n \in Bit, NEW v \in Slice(n)
  PROVE  Bits(v) \subseteq 0 .. n /\ n \in Bits(v)
<1>1. n \in Nat /\ W \in Nat /\ Bit = 0 .. W - 1
  BY Widths DEF Bit
<1>2. v \in Nat \ {0} /\ 2^n <= v /\ v < 2 * 2^n /\ 2^n \in Nat \ {0}
  BY <1>1, SliceBelow, PowerType
<1>3. v \div 2^n = 1
  <2> DEFINE d == 2^n
  <2>1. d \in Nat \ {0} /\ v \in Nat /\ d <= v /\ v < 2 * d
    BY <1>2
  <2> HIDE DEF d
  <2>2. v \div d = 1
    BY <2>1, Division
  <2> QED
    BY <2>2 DEF d
<1>4. n \in Bits(v)
  BY <1>3 DEF Bits
<1>5. ASSUME NEW i \in Bit, i > n PROVE i \notin Bits(v)
  <2> DEFINE d == 2^i
  <2>1. d \in Nat \ {0} /\ v \in Nat /\ v < d
    <3>1. i \in Nat /\ n < i
      BY <1>1, <1>5
    <3> QED
      BY <1>1, <1>2, <3>1, SliceBelow, PowerType
  <2> HIDE DEF d
  <2>2. v \div d = 0
    BY <2>1, Division
  <2> QED
    BY <2>2 DEF d, Bits
<1>6. Bits(v) \subseteq 0 .. n
  <2> SUFFICES ASSUME NEW i \in Bits(v) PROVE i \in 0 .. n
    OBVIOUS
  <2>1. i \in Bit /\ ~(i > n)
    BY <1>5 DEF Bits
  <2> QED
    BY <1>1, <2>1
<1> QED
  BY <1>4, <1>6

LEMMA TruncateSmall ==
  ASSUME NEW x \in Nat, x < 2^W
  PROVE  Truncate(x) = x
<1> DEFINE d == 2^W
<1>1. d \in Nat \ {0} /\ x < d
  BY Widths, PowerType
<1> HIDE DEF d
<1>2. x % d = x
  BY <1>1, Division
<1> QED
  BY <1>2 DEF Truncate, d

LEMMA RoundsUp ==
  ASSUME NEW x \in Nat, NEW n \in Nat, x - 1 \in Slice(n), n + 1 < W
  PROVE  roundup_powerof2(x) = 2^(n + 1)
<1>1. n \in Bit /\ W \in Nat
  BY Widths DEF Bit
<1>2. x - 1 < 2^W /\ x - 1 \in Nat
  BY <1>1, SliceBelow
<1>3. Truncate(x - 1) = x - 1
  BY <1>2, TruncateSmall
<1>4. Smear(Bits(x - 1)) = 0 .. n
  BY <1>1, BitsOf, SmearFills
<1>5. Value(0 .. n) = 2^(n + 1) - 1
  BY ValueOfOnes
<1>6. 2^(n + 1) \in Nat /\ 2^(n + 1) < 2^W
  <2>1. n + 1 \in Nat
    OBVIOUS
  <2> QED
    BY <1>1, <2>1, PowerLess, PowerType
<1>7. Truncate(2^(n + 1)) = 2^(n + 1)
  BY <1>6, TruncateSmall
<1>8. (2^(n + 1) - 1) + 1 = 2^(n + 1)
  BY <1>6
<1> QED
  BY <1>3, <1>4, <1>5, <1>7, <1>8 DEF roundup_powerof2

LEMMA RoundsOne == roundup_powerof2(1) = 1
<1> DEFINE d == 2^W
<1>1. W \in Nat /\ W >= 8 /\ d \in Nat \ {0} /\ 1 < d
  <2>1. W \in Nat /\ 0 < W
    BY Widths
  <2>2. 2^0 < 2^W
    BY <2>1, PowerLess
  <2> QED
    BY <2>2, Widths, PowerZero, PowerType
<1>2. Truncate(1) = 1 /\ Truncate(0) = 0
  BY <1>1, TruncateSmall
<1>3. Bits(0) = {}
  <2> SUFFICES ASSUME NEW i \in Bit PROVE 0 \div 2^i = 0
    BY DEF Bits
  <2> DEFINE e == 2^i
  <2>1. e \in Nat \ {0}
    BY Widths, PowerType DEF Bit
  <2> HIDE DEF e
  <2>2. 0 \div e = 0
    BY <2>1
  <2> QED
    BY <2>2 DEF e
<1>4. Value(Smear(Bits(0))) = 0
  BY <1>3, SmearNothing, ValueOfNothing
<1> HIDE DEF d
<1>5. 1 - 1 = 0 /\ 0 + 1 = 1
  OBVIOUS
<1> QED
  BY <1>2, <1>4, <1>5 DEF roundup_powerof2

LEMMA ClzIs ==
  ASSUME NEW n \in 0 .. HalfW - 1, NEW v \in Slice(n)
  PROVE  Clz(v) = HalfW - n - 1
<1>1. HalfW \in Nat /\ n \in Nat
  BY Widths
<1> DEFINE P(m) == 2^(HalfW - m - 1) <= v /\ v < 2^(HalfW - m)
           k == HalfW - n - 1
<1>2. k \in 0 .. HalfW - 1 /\ HalfW - k - 1 = n /\ HalfW - k = n + 1
  BY <1>1
<1>3. P(k)
  BY <1>1, <1>2, SliceBelow
<1>4. ASSUME NEW m \in 0 .. HalfW - 1, P(m) PROVE m = k
  <2> DEFINE j == HalfW - m - 1
  <2>1. j \in Nat /\ j + 1 = HalfW - m
    BY <1>1
  <2>2. v \in Slice(j)
    <3>1. v \in Nat /\ 2^j <= v /\ v < 2^(j + 1)
      BY <1>1, <1>4, <2>1, SliceBelow
    <3>2. 2^j \in Nat /\ 2^(j + 1) \in Nat
      BY <2>1, PowerType
    <3> HIDE DEF j
    <3> QED
      BY <3>1, <3>2 DEF Slice
  <2>3. j = n
    <3> HIDE DEF j
    <3> QED
      BY <1>1, <2>1, <2>2, OneSlice
  <2> QED
    BY <1>1, <2>3
<1>5. v # 0
  BY <1>1, SliceBelow
<1>6. Clz(v) = CHOOSE m \in 0 .. HalfW - 1 : P(m)
  BY <1>5 DEF Clz
<1> HIDE DEF P, k
<1>7. Clz(v) = k
  BY <1>2, <1>3, <1>4, <1>6
<1> QED
  BY <1>7 DEF k

\* logarithm2 is one more than the highest bit of x - 1, when the compiler's
\* __builtin_clz(0) is the width.
LEMMA LogarithmIs ==
  ASSUME NEW x \in Nat, ClzOfZero = HalfW \/ x # 2^HalfW,
         8 < x, x < 2^(W-1), NEW n \in Nat, x - 1 \in Slice(n)
  PROVE  logarithm2(x) = n + 1
<1> DEFINE v == x - 1
           d == 2^HalfW
<1>1. HalfW \in Nat /\ W = 2 * HalfW /\ HalfW >= 4 /\ W - 1 \in Nat
  BY Widths
<1>2. v \in Nat /\ v < x /\ v > 0 /\ d \in Nat \ {0} /\ 2^(W-1) \in Nat /\ 2^n \in Nat
  BY <1>1, PowerType
<1>3. ~(x <= 8) /\ ~(x >= 2^(W-1))
  BY <1>2
<1>4. CASE x < d
  <2>1. n < HalfW
    <3>1. v < 2^HalfW
      BY <1>2, <1>4
    <3> QED
      BY <1>1, <3>1, SliceBelow
  <2>2. n \in 0 .. HalfW - 1
    BY <1>1, <2>1
  <2>3. Clz(x - 1) = HalfW - n - 1
    BY <2>2, ClzIs
  <2>4. HalfW - (HalfW - n - 1) = n + 1
    BY <1>1
  <2> QED
    BY <1>3, <1>4, <2>3, <2>4 DEF logarithm2
<1>5. CASE x = d
  <2>1. v \in Slice(HalfW - 1)
    <3>1. HalfW - 1 \in Nat /\ (HalfW - 1) + 1 = HalfW
      BY <1>1
    <3>2. d = 2 * 2^(HalfW - 1) /\ 2^(HalfW - 1) \in Nat \ {0}
      BY <3>1, PowerNext, PowerType
    <3> QED
      BY <1>2, <1>5, <3>1, <3>2 DEF Slice
  <2>2. n = HalfW - 1
    <3>1. HalfW - 1 \in Nat
      BY <1>1
    <3> QED
      BY <2>1, <3>1, OneSlice
  <2>3. v \div d = 0
    <3> HIDE DEF d, v
    <3> QED
      BY <1>2, <1>5, Division
  <2>4. Clz(0) = HalfW
    BY <1>5 DEF Clz
  <2>5. HalfW + (HalfW - HalfW) = n + 1
    BY <1>1, <2>2
  <2>6. ~(x < d)
    BY <1>2, <1>5
  <2> QED
    BY <1>3, <2>3, <2>4, <2>5, <2>6 DEF logarithm2
<1>6. CASE x > d
  <2> DEFINE y == v \div d
             m == n - HalfW
             e == 2^m
  <2>1. HalfW <= n /\ n < W
    <3>1. d <= v
      BY <1>2, <1>6
    <3>2. v < 2^(n + 1) /\ 2^(n + 1) \in Nat /\ n + 1 \in Nat
      BY SliceBelow, PowerType
    <3>3. 2^HalfW < 2^(n + 1)
      BY <1>2, <3>1, <3>2
    <3>4. HalfW < n + 1
      BY <1>1, <3>2, <3>3, PowerLess
    <3>5. v < 2^(W-1)
      BY <1>2
    <3>6. n < W - 1
      BY <1>1, <3>5, SliceBelow
    <3> QED
      BY <1>1, <3>4, <3>6
  <2>2. m \in Nat /\ m <= HalfW - 1 /\ n = m + HalfW
    BY <1>1, <2>1
  <2>3. 2^n = e * d /\ 2^(m + 1) = 2 * e /\ e \in Nat \ {0}
    <3>1. m \in Nat /\ HalfW \in Nat /\ n = m + HalfW
      BY <1>1, <2>2
    <3> HIDE DEF m
    <3>2. 2^(m + HalfW) = 2^m * 2^HalfW
      BY <3>1, PowerSum
    <3>3. 2^n = e * d
      BY <3>1, <3>2
    <3>4. 2^(m + 1) = 2 * e
      BY <3>1, PowerNext
    <3>5. e \in Nat \ {0}
      BY <3>1, PowerType
    <3> QED
      BY <3>3, <3>4, <3>5
  <2>4. e * d <= v /\ v < 2 * (e * d)
    BY <2>3, SliceBelow
  <2>5. y \in Nat /\ y * d <= v /\ v < y * d + d
    <3> HIDE DEF v, d
    <3> QED
      BY <1>2, Division
  <2>6. y \in Slice(m)
    <3> HIDE DEF y, e, d, v, m
    <3>1. e <= y
      <4> SUFFICES ASSUME y + 1 <= e PROVE FALSE
        BY <2>3, <2>5
      <4>1. (y + 1) * d <= e * d
        BY <1>2, <2>3, <2>5
      <4>2. (y + 1) * d = y * d + d
        BY <1>2, <2>5
      <4> QED
        BY <1>2, <2>3, <2>4, <2>5, <4>1, <4>2
    <3>2. y < 2 * e
      <4> SUFFICES ASSUME 2 * e <= y PROVE FALSE
        BY <2>3, <2>5
      <4>1. (2 * e) * d <= y * d
        BY <1>2, <2>3, <2>5
      <4>2. (2 * e) * d = 2 * (e * d)
        BY <1>2, <2>3
      <4> QED
        BY <1>2, <2>3, <2>4, <2>5, <4>1, <4>2
    <3> QED
      BY <2>3, <2>5, <3>1, <3>2 DEF Slice, e
  <2>7. Clz(y) = HalfW - m - 1
    <3>1. m \in 0 .. HalfW - 1
      BY <1>1, <2>2
    <3> HIDE DEF y, m
    <3> QED
      BY <2>6, <3>1, ClzIs
  <2>8. HalfW + (HalfW - (HalfW - m - 1)) = n + 1
    BY <1>1, <2>2
  <2>9. ~(x < d)
    BY <1>2, <1>6
  <2> QED
    BY <1>3, <2>7, <2>8, <2>9 DEF logarithm2
<1>7. x < d \/ x = d \/ x > d
  <2> HIDE DEF d
  <2> QED
    BY <1>2
<1> QED
  BY <1>4, <1>5, <1>6, <1>7

LEMMA SmallPowers == 2^0 = 1 /\ 2^1 = 2 /\ 2^2 = 4 /\ 2^3 = 8
OBVIOUS

\* A request of at most 8 bytes.
LEMMA RoundsSmall ==
  ASSUME NEW x \in 1 .. 8
  PROVE  logarithm2(x) = 3 /\ BodySize(x) = 8
<1>1. logarithm2(x) = 3
  BY DEF logarithm2
<1>2. CASE x = 1
  BY <1>1, <1>2, RoundsOne DEF BodySize
<1>3. CASE x # 1
  <2>1. 3 \in Nat /\ x - 1 \in 1 .. 2^3 - 1
    BY <1>3, SmallPowers
  <2>2. PICK n \in 0 .. 3 - 1 : x - 1 \in Slice(n)
    BY <2>1, HighestBit
  <2>3. n \in Nat /\ n + 1 < W
    BY Widths
  <2>4. roundup_powerof2(x) = 2^(n + 1)
    BY <2>2, <2>3, RoundsUp
  <2>5. n + 1 = 1 \/ n + 1 = 2 \/ n + 1 = 3
    OBVIOUS
  <2>6. roundup_powerof2(x) \in {2, 4, 8}
    BY <2>4, <2>5, SmallPowers
  <2> QED
    BY <1>1, <2>6 DEF BodySize
<1> QED
  BY <1>2, <1>3

\* Every size below half the range is rounded to the least power of two that
\* holds it, at least 8, and its class is the exponent. For 2^HalfW, the
\* size whose upper half logarithm2 reads as zero, that needs __builtin_clz(0)
\* to be the width of its operand.
THEOREM Rounding ==
  ASSUME NEW x \in 1 .. 2^(W-1) - 1, ClzOfZero = HalfW \/ x # 2^HalfW
  PROVE  /\ logarithm2(x) \in 3 .. W - 1
         /\ BodySize(x) = 2^logarithm2(x)
         /\ x <= 2^logarithm2(x)
         /\ logarithm2(x) > 3 => x > 2^(logarithm2(x) - 1)
<1>1. W \in Nat /\ W - 1 \in Nat /\ W >= 8
  BY Widths
<1>2. CASE x <= 8
  <2>1. logarithm2(x) = 3 /\ BodySize(x) = 8
    BY <1>2, RoundsSmall
  <2> QED
    BY <1>1, <1>2, <2>1, SmallPowers
<1>3. CASE x > 8
  <2>1. x \in Nat /\ x < 2^(W-1) /\ x - 1 \in 1 .. 2^(W-1) - 1
    BY <1>1, <1>3, PowerType
  <2>2. PICK n \in 0 .. (W - 1) - 1 : x - 1 \in Slice(n)
    BY <1>1, <2>1, HighestBit
  <2>3. n \in Nat /\ n + 1 \in Nat /\ n + 1 < W /\ (n + 1) - 1 = n
    BY <1>1
  <2>4. logarithm2(x) = n + 1
    BY <1>3, <2>1, <2>2, <2>3, LogarithmIs
  <2>5. roundup_powerof2(x) = 2^(n + 1)
    BY <2>1, <2>2, <2>3, RoundsUp
  <2>6. 2^n <= x - 1 /\ x - 1 < 2^(n + 1) /\ 2^(n + 1) \in Nat /\ 2^n \in Nat
    BY <2>2, <2>3, SliceBelow, PowerType
  <2>7. 2^3 < 2^(n + 1)
    BY <1>3, <2>1, <2>6, SmallPowers
  <2>8. 3 < n + 1
    BY <2>3, <2>7, PowerLess
  <2>9. ~(2^(n + 1) < 8)
    BY <2>6, <2>7, SmallPowers
  <2>10. BodySize(x) = 2^(n + 1)
    BY <2>5, <2>9 DEF BodySize
  <2>11. x <= 2^(n + 1) /\ x > 2^n
    BY <2>1, <2>6
  <2> QED
    BY <1>1, <2>3, <2>4, <2>8, <2>10, <2>11
<1> QED
  BY <1>2, <1>3

\* A block of 2^i bytes comes back to class i.
LEMMA LogOfPower ==
  ASSUME ClzOfZero = HalfW, NEW i \in 3 .. W - 2
  PROVE  logarithm2(2^i) = i
<1>1. W \in Nat /\ i \in Nat /\ W - 1 \in Nat /\ i < W - 1
  BY Widths
<1>2. CASE i = 3
  BY <1>2, SmallPowers DEF logarithm2
<1>3. CASE i # 3
  <2> DEFINE x == 2^i
             n == i - 1
  <2>1. n \in Nat /\ n + 1 = i /\ 3 < i
    BY <1>3
  <2>2. 2^i = 2 * 2^n /\ 2^n \in Nat \ {0}
    BY <2>1, PowerNext, PowerType
  <2>3. 2^3 < 2^i /\ 2^i < 2^(W-1)
    BY <1>1, <2>1, PowerLess
  <2>4. x \in Nat /\ 8 < x /\ x < 2^(W-1)
    BY <2>2, <2>3, SmallPowers
  <2>5. x - 1 \in Slice(n)
    BY <2>1, <2>2 DEF Slice
  <2> QED
    BY <2>1, <2>4, <2>5, LogarithmIs
<1> QED
  BY <1>2, <1>3

\* The last class is for the requests above half the range.
LEMMA LogOfLarge ==
  ASSUME NEW x \in 2^(W-1) .. 2^W - 1
  PROVE  logarithm2(x) = W
<1>1. W - 1 \in Nat /\ 3 < W - 1
  BY Widths
<1>2. 2^3 < 2^(W-1) /\ 2^(W-1) \in Nat
  BY <1>1, PowerLess, PowerType
<1>3. ~(x <= 8) /\ x >= 2^(W-1)
  BY <1>2, SmallPowers
<1> QED
  BY <1>3 DEF logarithm2

LEMMA LogInIndex ==
  ASSUME ClzOfZero = HalfW, NEW x \in 1 .. 2^W - 1
  PROVE  logarithm2(x) \in Index /\ logarithm2(x) >= 3
<1>1. W \in Nat /\ W >= 8 /\ W - 1 \in Nat
  BY Widths
<1>2. 2^(W-1) \in Nat
  BY <1>1, PowerType
<1>3. CASE x < 2^(W-1)
  <2>1. x \in 1 .. 2^(W-1) - 1
    BY <1>2, <1>3
  <2>2. logarithm2(x) \in 3 .. W - 1
    BY <2>1, Rounding
  <2> QED
    BY <1>1, <2>2 DEF Index
<1>4. CASE ~(x < 2^(W-1))
  <2>1. x \in 2^(W-1) .. 2^W - 1
    BY <1>2, <1>4
  <2> QED
    BY <1>1, <2>1, LogOfLarge DEF Index
<1> QED
  BY <1>3, <1>4
=============================================================================
