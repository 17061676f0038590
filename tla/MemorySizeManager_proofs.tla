---------------------- MODULE MemorySizeManager_proofs ----------------------
(***************************************************************************)
(* For every number of classes, buffer and file: what ends in the first    *)
(* block of the file is the table of batch sizes.                          *)
(***************************************************************************)
EXTENDS MemorySizeManager, SequenceTheorems, FiniteSetTheorems, WellFoundedInduction, TLAPS

-----------------------------------------------------------------------------
(* Least elements.                                                         *)

LEMMA LeastExists ==
  ASSUME NEW S \in SUBSET Nat, S # {}
  PROVE  \E i \in S : \A j \in S : i <= j
<1> DEFINE R == {ss \in Nat \X Nat : ss[1] < ss[2]}
<1>1. IsWellFoundedOn(R, Nat)
  BY NatLessThanWellFounded, Zenon DEF OpToRel
<1>2. \A i, j \in Nat : i < j => <<i, j>> \in R
  OBVIOUS
<1> HIDE DEF R
<1>3. PICK i \in S : \A j \in S : ~(<<j, i>> \in R)
  BY <1>1, WFMin
<1>4. ASSUME NEW j \in S PROVE i <= j
  <2>1. ~(j < i)
    BY <1>2, <1>3, Zenon
  <2> QED
    BY <2>1
<1> QED
  BY <1>4

LEMMA MinIs ==
  ASSUME NEW S \in SUBSET Nat, S # {}
  PROVE  Min(S) \in S /\ \A y \in S : Min(S) <= y
<1>1. \E i \in S : \A j \in S : i <= j
  BY LeastExists
<1>2. \E i \in S : \A j \in S : j >= i
  BY <1>1
<1> QED
  BY <1>1, <1>2 DEF Min

-----------------------------------------------------------------------------
(* The lines of the file, by their rank.                                   *)

File == file \in Seq(Char)

Rank(i) == Cardinality({j \in Starts : j < i})

LEMMA StartsAre ==
  ASSUME File
  PROVE  /\ Starts \in SUBSET Nat /\ IsFiniteSet(Starts) /\ Len(file) \in Nat
         /\ \A S \in SUBSET Starts : IsFiniteSet(S) /\ Cardinality(S) \in Nat
         /\ \A i : Rank(i) \in Nat
<1>1. Len(file) \in Nat
  BY LenProperties DEF File
<1>2. Starts \in SUBSET (1 .. Len(file)) /\ IsFiniteSet(1 .. Len(file))
  BY <1>1, FS_Interval DEF Starts
<1>3. IsFiniteSet(Starts) /\ Starts \in SUBSET Nat
  <2>1. IsFiniteSet(Starts)
    BY <1>2, FS_Subset
  <2>2. Starts \in SUBSET Nat
    BY <1>1 DEF Starts
  <2> QED
    BY <2>1, <2>2
<1>4. ASSUME NEW S \in SUBSET Starts PROVE IsFiniteSet(S) /\ Cardinality(S) \in Nat
  BY <1>3, FS_Subset, FS_CardinalityType
<1>5. ASSUME NEW i PROVE Rank(i) \in Nat
  BY <1>4 DEF Rank
<1> QED
  BY <1>1, <1>3, <1>4, <1>5

\* A start has a higher rank than those before it.
LEMMA RankLess ==
  ASSUME File, NEW s \in Starts, NEW t \in Starts, s < t
  PROVE  Rank(s) < Rank(t)
<1> DEFINE S == {j \in Starts : j < s}
           T == {j \in Starts : j < t}
<1>1. S \subseteq T \ {s} /\ s \in T
  BY StartsAre
<1>2. IsFiniteSet(T) /\ IsFiniteSet(S) /\ IsFiniteSet(T \ {s})
  BY StartsAre
<1>3. Cardinality(T \ {s}) = Cardinality(T) - 1 /\ Cardinality(T) \in Nat
  BY <1>1, <1>2, FS_RemoveElement, FS_CardinalityType
<1>4. Cardinality(S) <= Cardinality(T \ {s}) /\ Cardinality(S) \in Nat
  BY <1>1, <1>2, FS_Subset, FS_CardinalityType
<1> QED
  BY <1>3, <1>4 DEF Rank

\* The ranks are 0, 1, 2, ...
LEMMA RankExists ==
  ASSUME File, NEW k \in Nat, k < Cardinality(Starts)
  PROVE  \E i \in Starts : Rank(i) = k
<1> DEFINE K == {n \in Nat : n < Cardinality(Starts) /\ ~\E i \in Starts : Rank(i) = n}
<1>1. SUFFICES ASSUME K # {} PROVE FALSE
  OBVIOUS
<1>2. PICK n \in K : \A m \in K : n <= m
  BY <1>1, LeastExists
<1>3. n \in Nat /\ n < Cardinality(Starts) /\ ~\E i \in Starts : Rank(i) = n
  BY <1>2
<1>4. Cardinality(Starts) \in Nat
  BY StartsAre
<1>5. CASE n = 0
  <2>1. Starts # {}
    <3>1. SUFFICES ASSUME Starts = {} PROVE FALSE
      OBVIOUS
    <3>2. Cardinality(Starts) = 0
      BY <3>1, FS_EmptySet
    <3> QED
      BY <1>3, <3>2
  <2>2. PICK i \in Starts : \A j \in Starts : i <= j
    BY <2>1, StartsAre, LeastExists
  <2>3. {j \in Starts : j < i} = {}
    BY <2>2, StartsAre
  <2>4. Rank(i) = 0
    BY <2>3, FS_EmptySet DEF Rank
  <2> QED
    BY <1>3, <1>5, <2>4
<1>6. CASE n # 0
  <2>1. n - 1 \in Nat /\ n - 1 < Cardinality(Starts) /\ ~(n <= n - 1)
    BY <1>3, <1>4, <1>6
  <2>2. PICK s \in Starts : Rank(s) = n - 1
    BY <1>2, <2>1
  <2> DEFINE S == {j \in Starts : j < s}
             U == {j \in Starts : j > s}
  <2>3. Cardinality(S \cup {s}) = n
    <3>1. IsFiniteSet(S) /\ ~(s \in S)
      BY StartsAre
    <3>2. Cardinality(S) = n - 1
      BY <2>2 DEF Rank
    <3> HIDE DEF S
    <3>3. Cardinality(S \cup {s}) = Cardinality(S) + 1
      BY <3>1, FS_AddElement
    <3> QED
      BY <1>3, <3>2, <3>3
  <2>4. U # {}
    <3>1. SUFFICES ASSUME U = {} PROVE FALSE
      OBVIOUS
    <3>2. Starts = S \cup {s}
      BY <3>1, StartsAre
    <3> QED
      BY <1>3, <2>3, <3>2
  <2>5. PICK t \in U : \A j \in U : t <= j
    BY <2>4, StartsAre, LeastExists
  <2>6. {j \in Starts : j < t} = S \cup {s}
    BY <2>5, StartsAre
  <2>7. Rank(t) = n /\ t \in Starts
    BY <2>3, <2>6 DEF Rank
  <2> QED
    BY <1>3, <2>7
<1> QED
  BY <1>5, <1>6

LEMMA StartIs ==
  ASSUME File, NEW k \in Nat, k < Cardinality(Starts)
  PROVE  /\ Start(k) \in Starts /\ Rank(Start(k)) = k
         /\ \A i \in Starts : Rank(i) = k => i = Start(k)
<1>1. \E i \in Starts : Rank(i) = k
  BY RankExists
<1>2. Start(k) \in Starts /\ Rank(Start(k)) = k
  BY <1>1 DEF Start, Rank
<1>3. ASSUME NEW i \in Starts, Rank(i) = k PROVE i = Start(k)
  BY <1>2, <1>3, RankLess, StartsAre
<1> QED
  BY <1>2, <1>3

-----------------------------------------------------------------------------
(* strtok on the first block.                                              *)

\* The length of the first block.
N1 == IF Len(file) < BufLen THEN Len(file) ELSE BufLen

\* The starts of the first block before s.
Before(s) == {j \in Starts : j < s /\ j <= N1}

\* From place s on the buffer v is as read left it, and a line may start at s.
Buffer(v, s) ==
  /\ v \in [1 .. BufLen + 2 -> Char \cup {NUL}]
  /\ s \in 1 .. BufLen + 2
  /\ \A i \in s .. BufLen + 2 :
       /\ i <= N1 => v[i] = file[i]
       /\ i > N1 /\ N1 < BufLen => v[i] = NUL
  /\ v[BufLen + 2] = NUL
  /\ s = 1 \/ s > N1 \/ file[s-1] = NL

\* The next entry of the table is idx, and strtok will go on from s.
Due(s, idx) == Cardinality(Before(s)) = idx \/ (s > N1 /\ Cardinality(Before(N1 + 1)) <= idx)

\* Token tok is line idx, as far as it lies in the block, and strtok will go on
\* from s; or there are no more than idx lines.
Cut(tok, s, idx) ==
  \/ \E i \in Starts :
       /\ i <= N1 /\ Cardinality(Before(i)) = idx /\ Before(s) = Before(i) \cup {i}
       /\ tok # << >>
       /\ LineEnd(i) <= BufLen => tok = SubSeq(file, i, LineEnd(i) - 1)
  \/ s > N1 /\ Cardinality(Before(N1 + 1)) <= idx /\ (N1 < BufLen => tok = << >>)

LEMMA Chars ==
  /\ BufLen \in Nat \ {0} /\ NL \in Char /\ ~(NUL \in Char) /\ NL # NUL
<1>1. Size * max_num_digits \in Nat
  BY SizeListAssumption
<1>2. BufLen \in Nat \ {0}
  BY <1>1 DEF BufLen
<1> QED
  BY <1>2, SizeListAssumption DEF Char

LEMMA FileIs ==
  ASSUME File
  PROVE  /\ Len(file) \in Nat /\ N1 \in Nat /\ N1 <= Len(file) /\ N1 <= BufLen
         /\ N1 < BufLen => N1 = Len(file)
         /\ \A i \in 1 .. Len(file) : file[i] \in Char /\ file[i] # NUL
<1>1. Len(file) \in Nat /\ \A i \in 1 .. Len(file) : file[i] \in Char
  BY LenProperties, ElementOfSeq DEF File
<1> QED
  BY <1>1, Chars DEF N1

\* A line ends at the first '\n', or with the file.
LEMMA LineEndIs ==
  ASSUME File, NEW i \in 1 .. Len(file), NEW e \in i .. Len(file) + 1,
         \A j \in i .. e - 1 : file[j] # NL, e <= Len(file) => file[e] = NL
  PROVE  LineEnd(i) = e
<1> DEFINE S == {j \in i .. Len(file) : file[j] = NL} \cup {Len(file) + 1}
<1>1. Len(file) \in Nat /\ S \in SUBSET Nat /\ S # {}
  BY FileIs
<1>2. e \in S /\ \A j \in S : e <= j
  BY <1>1
<1>3. Min(S) \in S /\ \A y \in S : Min(S) <= y
  BY <1>1, MinIs
<1> HIDE DEF S
<1>4. Min(S) = e
  <2>1. Min(S) <= e /\ e <= Min(S) /\ Min(S) \in Nat /\ e \in Nat
    BY <1>1, <1>2, <1>3
  <2> QED
    BY <2>1
<1> QED
  BY <1>4 DEF LineEnd, S

LEMMA LineEndIn ==
  ASSUME File, NEW i \in 1 .. Len(file)
  PROVE  /\ LineEnd(i) \in i .. Len(file) + 1
         /\ LineEnd(i) <= Len(file) => file[LineEnd(i)] = NL
<1> DEFINE S == {j \in i .. Len(file) : file[j] = NL} \cup {Len(file) + 1}
<1>1. Len(file) \in Nat /\ S \in SUBSET Nat /\ S # {}
  BY FileIs
<1>2. Min(S) \in S
  BY <1>1, MinIs
<1>3. LineEnd(i) \in S
  BY <1>2 DEF LineEnd
<1> QED
  BY <1>1, <1>3

\* Two pieces are the same when their elements are.
LEMMA SameSubSeq ==
  ASSUME NEW S, NEW v, NEW w, NEW m \in Nat, NEW n \in Nat,
         \A i \in m .. n : v[i] \in S /\ w[i] = v[i]
  PROVE  SubSeq(v, m, n) = SubSeq(w, m, n)
<1> DEFINE a == SubSeq(v, m, n)
           b == SubSeq(w, m, n)
<1>1. /\ a \in Seq(S) /\ Len(a) = IF m <= n THEN n - m + 1 ELSE 0
      /\ \A i \in 1 .. n - m + 1 : a[i] = v[m + i - 1]
  BY SubSeqProperties
<1>2. /\ b \in Seq(S) /\ Len(b) = IF m <= n THEN n - m + 1 ELSE 0
      /\ \A i \in 1 .. n - m + 1 : b[i] = w[m + i - 1]
  BY SubSeqProperties
<1> HIDE DEF a, b
<1>3. Len(a) = Len(b) /\ Len(a) \in Nat
  BY <1>1, <1>2
<1>4. ASSUME NEW i \in 1 .. Len(a) PROVE a[i] = b[i]
  <2>1. i \in 1 .. n - m + 1 /\ m + i - 1 \in m .. n
    BY <1>1
  <2> QED
    BY <1>1, <1>2, <2>1
<1>5. a = b
  BY <1>1, <1>2, <1>3, <1>4, SeqEqual
<1> QED
  BY <1>5 DEF a, b

LEMMA BeforeIs ==
  ASSUME File, NEW s
  PROVE  /\ IsFiniteSet(Before(s)) /\ Cardinality(Before(s)) \in Nat
         /\ ~(s \in Before(s)) /\ Cardinality(Before(s) \cup {s}) = Cardinality(Before(s)) + 1
<1>1. IsFiniteSet(Before(s)) /\ Cardinality(Before(s)) \in Nat
  BY StartsAre DEF Before
<1>2. ~(s \in Before(s))
  BY StartsAre DEF Before
<1>3. Cardinality(Before(s) \cup {s}) = Cardinality(Before(s)) + 1
  BY <1>1, <1>2, FS_AddElement
<1> QED
  BY <1>1, <1>2, <1>3

LEMMA strtokCuts ==
  ASSUME File, NEW v, NEW from, NEW idx \in Nat, Buffer(v, from), Due(from, idx), strtok(v, from)
  PROVE  Buffer(val', save') /\ Cut(token', save', idx)
<1> DEFINE A == {i \in from .. BufLen + 2 : v[i] # NL}
           start == Min(A)
           B == {i \in start .. BufLen + 2 : v[i] \in {NL, NUL}}
           end == Min(B)
           top == BufLen + 2
<1>1. /\ token' = SubSeq(v, start, end - 1) /\ val' = [v EXCEPT ![end] = NUL]
      /\ save' = IF v[end] = NL THEN end + 1 ELSE end
  BY DEF strtok
<1>2. /\ v \in [1 .. top -> Char \cup {NUL}] /\ from \in 1 .. top /\ v[top] = NUL
      /\ top \in Nat /\ BufLen \in Nat /\ top = BufLen + 2
      /\ from = 1 \/ from > N1 \/ file[from - 1] = NL
      /\ \A i \in from .. top : (i <= N1 => v[i] = file[i]) /\ (i > N1 /\ N1 < BufLen => v[i] = NUL)
  BY Chars DEF Buffer
<1>3. /\ start \in from .. top /\ v[start] # NL /\ \A i \in from .. start - 1 : v[i] = NL
  <2>1. top \in A
    BY <1>2, Chars
  <2>2. A \in SUBSET Nat /\ A # {}
    BY <1>2, <2>1
  <2>3. start \in A /\ \A i \in A : start <= i
    BY <2>2, MinIs
  <2> HIDE DEF start
  <2>4. start \in from .. top /\ v[start] # NL
    BY <2>3
  <2>5. ASSUME NEW i \in from .. start - 1 PROVE v[i] = NL
    BY <1>2, <2>3, <2>4
  <2> QED
    BY <2>4, <2>5
<1> HIDE DEF start
<1>4. /\ end \in start .. top /\ v[end] \in {NL, NUL} /\ \A i \in start .. end - 1 : v[i] # NL /\ v[i] # NUL
  <2>1. top \in B
    BY <1>2, <1>3
  <2>2. B \in SUBSET Nat /\ B # {}
    BY <1>2, <1>3, <2>1
  <2>3. end \in B /\ \A i \in B : end <= i
    BY <2>2, MinIs
  <2> HIDE DEF end
  <2>4. end \in start .. top /\ v[end] \in {NL, NUL}
    BY <2>3
  <2>5. ASSUME NEW i \in start .. end - 1 PROVE v[i] # NL /\ v[i] # NUL
    BY <1>2, <1>3, <2>3, <2>4
  <2> QED
    BY <2>4, <2>5
<1> HIDE DEF end, A, B, top
<1>5. /\ Len(file) \in Nat /\ N1 \in Nat /\ N1 <= Len(file) /\ N1 <= BufLen
      /\ N1 < BufLen => N1 = Len(file)
      /\ \A i \in 1 .. Len(file) : file[i] \in Char /\ file[i] # NUL
  BY FileIs
<1>6. from \in Nat \ {0} /\ start \in Nat /\ end \in Nat /\ from <= start /\ start <= end /\ end <= top
  BY <1>2, <1>3, <1>4
<1>7. end <= N1 => v[end] = NL /\ file[end] = NL
  BY <1>2, <1>4, <1>5, <1>6
<1>8. save' \in Nat /\ end <= save' /\ save' <= end + 1 /\ (end <= N1 => save' = end + 1)
      /\ (v[end] = NL => save' = end + 1 /\ end # top) /\ (v[end] # NL => save' = end)
  BY <1>1, <1>2, <1>6, <1>7, Chars
<1>9. Buffer(val', save')
  <2>1. val' \in [1 .. top -> Char \cup {NUL}] /\ val'[end] = NUL /\ \A i \in 1 .. top : i # end => val'[i] = v[i]
    BY <1>1, <1>2, <1>6
  <2>2. save' \in 1 .. top
    BY <1>6, <1>8, <1>2
  <2>3. ASSUME NEW i \in save' .. top
        PROVE  (i <= N1 => val'[i] = file[i]) /\ (i > N1 /\ N1 < BufLen => val'[i] = NUL)
    <3>1. CASE i = end
      BY <1>5, <1>6, <1>8, <2>1, <2>3, <3>1
    <3>2. CASE i # end
      BY <1>2, <1>6, <1>8, <2>1, <2>3, <3>2
    <3> QED
      BY <3>1, <3>2
  <2>4. val'[top] = NUL
    BY <1>2, <1>6, <2>1
  <2>5. save' = 1 \/ save' > N1 \/ file[save' - 1] = NL
    BY <1>5, <1>6, <1>7, <1>8
  <2> QED
    BY <2>1, <2>2, <2>3, <2>4, <2>5 DEF Buffer, top
<1>10. CASE start <= N1
  <2>1. \A i \in start .. N1 : v[i] = file[i]
    BY <1>2, <1>5, <1>6
  <2>2. start \in 1 .. Len(file) /\ file[start] # NL
    BY <1>3, <1>5, <1>6, <1>10, <2>1
  <2>3. start = 1 \/ file[start - 1] = NL
    <3>1. CASE start = from
      BY <1>2, <1>5, <1>6, <1>10, <3>1
    <3>2. CASE start # from
      <4>1. start - 1 \in from .. start - 1 /\ start - 1 \in from .. top /\ start - 1 <= N1
        BY <1>2, <1>5, <1>6, <1>10, <3>2
      <4> QED
        BY <1>2, <1>3, <4>1
    <3> QED
      BY <3>1, <3>2
  <2>4. start \in Starts
    BY <2>2, <2>3 DEF Starts
  <2>5. ASSUME NEW j \in Starts, from <= j, j < start PROVE FALSE
    <3>1. j \in Nat /\ file[j] # NL
      BY <1>5 DEF Starts
    <3>2. j \in from .. start - 1 /\ j \in from .. top /\ j <= N1
      BY <1>2, <1>5, <1>6, <1>10, <2>5, <3>1
    <3> QED
      BY <1>2, <1>3, <3>1, <3>2
  <2>6. Before(start) = Before(from)
    <3>1. ASSUME NEW j \in Starts PROVE j < start <=> j < from
      BY <1>6, <2>5, StartsAre
    <3> QED
      BY <3>1 DEF Before
  <2>7. Cardinality(Before(start)) = idx
    BY <1>6, <1>10, <1>5, <2>6 DEF Due
  <2>8. \A j \in start .. end - 1 : j <= N1 => file[j] # NL
    BY <1>4, <1>5, <1>6, <2>1
  <2>9. Before(save') = Before(start) \cup {start}
    <3>1. ASSUME NEW j \in Starts, start < j, j < save', j <= N1 PROVE FALSE
      <4>1. j \in Nat /\ file[j] # NL /\ (j = 1 \/ file[j-1] = NL)
        BY <1>5 DEF Starts
      <4>2. j <= end
        BY <1>6, <1>8, <3>1, <4>1
      <4>3. j - 1 \in start .. end - 1 /\ j - 1 <= N1
        BY <1>5, <1>6, <3>1, <4>1, <4>2
      <4>4. file[j-1] # NL
        BY <2>8, <4>3
      <4> QED
        BY <1>6, <2>2, <3>1, <4>1, <4>4
    <3>2. start < save'
      <4>1. start # end \/ end <= N1
        BY <1>10
      <4> QED
        BY <1>6, <1>8, <4>1
    <3>3. ASSUME NEW j \in Starts, j <= N1 PROVE j < save' <=> j < start \/ j = start
      BY <1>6, <1>8, <3>1, <3>2, <3>3, StartsAre
    <3> QED
      BY <1>10, <2>4, <3>3 DEF Before
  <2>10. start < end
    <3>1. v[start] # NUL /\ v[start] # NL
      BY <1>3, <1>5, <1>6, <1>10, <2>1
    <3> QED
      BY <1>4, <1>6, <3>1
  <2>11. token' # << >>
    <3>1. \A k \in start .. end - 1 : v[k] \in Char \cup {NUL}
      BY <1>2, <1>6
    <3>2. Len(token') = end - start
      BY <1>1, <1>6, <2>10, <3>1, SubSeqProperties
    <3> QED
      BY <1>6, <2>10, <3>2
  <2>12. ASSUME LineEnd(start) <= BufLen PROVE end - 1 <= N1 /\ LineEnd(start) = end
    <3>1. LineEnd(start) \in start .. Len(file) + 1 /\ (LineEnd(start) <= Len(file) => file[LineEnd(start)] = NL)
      BY <2>2, LineEndIn
    <3>2. CASE end <= N1
      <4>1. end \in start .. Len(file) + 1 /\ file[end] = NL /\ \A j \in start .. end - 1 : file[j] # NL
        BY <1>5, <1>6, <1>7, <2>8, <3>2
      <4>2. LineEnd(start) = end
        BY <2>2, <4>1, LineEndIs
      <4> QED
        BY <1>5, <1>6, <3>2, <4>2
    <3>3. CASE end > N1 /\ N1 < BufLen
      <4>1. N1 + 1 \in from .. top /\ v[N1 + 1] = NUL /\ N1 = Len(file)
        BY <1>2, <1>5, <1>6, <1>10, <3>3
      <4>2. end = N1 + 1
        BY <1>4, <1>5, <1>6, <1>10, <3>3, <4>1
      <4>3. end \in start .. Len(file) + 1 /\ ~(end <= Len(file)) /\ \A j \in start .. end - 1 : file[j] # NL
        BY <1>5, <1>6, <2>8, <4>1, <4>2
      <4>4. LineEnd(start) = end
        BY <2>2, <4>3, LineEndIs
      <4> QED
        BY <1>5, <1>6, <4>2, <4>4
    <3>4. CASE end > N1 /\ ~(N1 < BufLen)
      <4>1. N1 = BufLen
        BY <1>2, <1>5, <3>4
      <4>2. LineEnd(start) \in start .. end - 1 /\ LineEnd(start) <= N1 /\ LineEnd(start) <= Len(file)
        BY <1>2, <1>5, <1>6, <2>12, <3>1, <3>4, <4>1
      <4> QED
        BY <2>8, <3>1, <4>2
    <3> QED
      BY <1>5, <1>6, <3>2, <3>3, <3>4
  <2>13. LineEnd(start) <= BufLen => token' = SubSeq(file, start, LineEnd(start) - 1)
    <3>1. SUFFICES ASSUME LineEnd(start) <= BufLen PROVE token' = SubSeq(file, start, end - 1)
      BY <2>12
    <3>2. end - 1 \in Nat /\ end - 1 <= N1
      BY <1>6, <2>10, <2>12, <3>1
    <3>3. \A j \in start .. end - 1 : v[j] \in Char \cup {NUL} /\ file[j] = v[j]
      BY <1>2, <1>5, <1>6, <2>1, <3>2
    <3> QED
      BY <1>1, <1>6, <3>2, <3>3, SameSubSeq
  <2> QED
    BY <1>9, <1>10, <2>4, <2>7, <2>9, <2>11, <2>13 DEF Cut
<1>11. CASE ~(start <= N1)
  <2>1. start > N1 /\ save' > N1
    BY <1>5, <1>6, <1>8, <1>11
  <2>2. ASSUME NEW j \in Starts, from <= j, j <= N1 PROVE FALSE
    <3>1. j \in Nat /\ file[j] # NL
      BY <1>5 DEF Starts
    <3>2. j \in from .. start - 1 /\ j \in from .. top
      BY <1>2, <1>5, <1>6, <2>1, <2>2, <3>1
    <3> QED
      BY <1>2, <1>3, <2>2, <3>1, <3>2
  <2>3. Before(N1 + 1) = Before(from)
    <3>1. ASSUME NEW j \in Starts, j <= N1 PROVE j < N1 + 1 /\ j < from
      BY <1>5, <1>6, <2>2, <3>1, StartsAre
    <3> QED
      BY <3>1 DEF Before
  <2>4. Cardinality(Before(N1 + 1)) <= idx
    <3>1. CASE Cardinality(Before(from)) = idx
      BY <2>3, <3>1
    <3>2. CASE Cardinality(Before(N1 + 1)) <= idx
      BY <3>2
    <3> QED
      BY <3>1, <3>2 DEF Due
  <2>5. ASSUME N1 < BufLen PROVE token' = << >>
    <3>1. v[start] = NUL
      BY <1>2, <1>3, <2>1, <2>5
    <3>2. end = start
      BY <1>4, <1>6, <3>1
    <3>3. start \in Int /\ end - 1 \in Int /\ end - 1 < start
      BY <1>6, <3>2
    <3> QED
      BY <1>1, <3>3, SubSeqEmpty
  <2> QED
    BY <1>9, <2>1, <2>4, <2>5 DEF Cut
<1> QED
  BY <1>9, <1>10, <1>11

-----------------------------------------------------------------------------
(* The inductive invariant.                                                *)

LineFits(k) == k < Cardinality(Starts) /\ LineEnd(Start(k)) <= BufLen

\* The table holds the first index lines, and nothing else.
Stored ==
  /\ \A k \in 0 .. Size - 1 : k < index /\ LineFits(k) => nPerSize_[k] = atoi(Line(k))
  /\ \A k \in 0 .. Size - 1 : k >= index => nPerSize_[k] = 0
  /\ Len(file) < BufLen => index <= Cardinality(Starts)

\* What is to be proved of the table, and that later blocks leave it alone.
Complete ==
  /\ \A k \in 0 .. Size - 1 : LineFits(k) => k < index /\ nPerSize_[k] = atoi(Line(k))
  /\ Len(file) < BufLen => \A k \in 0 .. Size - 1 : k >= Cardinality(Starts) => nPerSize_[k] = 0

Fresh ==
  /\ index = 0
  /\ val = [i \in 1 .. BufLen + 2 |-> NUL]
  /\ nPerSize_ = [i \in 0 .. Size - 1 |-> 0]

TInv ==
  /\ File
  /\ pos \in 0 .. Len(file) /\ index \in 0 .. Size
  /\ nPerSize_ = [k \in 0 .. Size - 1 |-> nPerSize_[k]]
  /\ pos = 0 => pc # "token" /\ (pc # "done" => Fresh)
  /\ pos > 0 => pc # "open" /\ pos >= N1
  /\ pos = N1 /\ pc = "token" => Buffer(val, save) /\ Cut(token, save, index) /\ Stored
  /\ pos > 0 /\ (pc # "token" \/ pos > N1) => Complete

LEMMA RankBefore ==
  ASSUME File, NEW i \in Starts, i <= N1
  PROVE  Cardinality(Before(i)) = Rank(i) /\ Rank(i) < Cardinality(Before(N1 + 1))
<1>1. i \in Nat /\ N1 \in Nat /\ \A j \in Starts : j \in Nat
  BY StartsAre, FileIs
<1>2. Before(i) = {j \in Starts : j < i}
  <2>1. ASSUME NEW j \in Starts PROVE j < i /\ j <= N1 <=> j < i
    BY <1>1
  <2> QED
    BY <2>1 DEF Before
<1>3. Before(i) \cup {i} \subseteq Before(N1 + 1)
  <2>1. ASSUME NEW j \in Before(i) \cup {i} PROVE j \in Starts /\ j < N1 + 1 /\ j <= N1
    BY <1>1 DEF Before
  <2> QED
    BY <2>1 DEF Before
<1>4. /\ Cardinality(Before(i) \cup {i}) = Cardinality(Before(i)) + 1
      /\ Cardinality(Before(i)) \in Nat /\ Cardinality(Before(N1 + 1)) \in Nat
      /\ IsFiniteSet(Before(N1 + 1))
  BY BeforeIs
<1>5. Cardinality(Before(i) \cup {i}) <= Cardinality(Before(N1 + 1))
  BY <1>3, <1>4, FS_Subset
<1> QED
  BY <1>2, <1>4, <1>5 DEF Rank

\* The file does not change, so neither do its lines.
LEMMA SameFile ==
  ASSUME file' = file
  PROVE  /\ Starts' = Starts /\ N1' = N1
         /\ \A i : LineEnd(i)' = LineEnd(i) /\ Before(i)' = Before(i)
         /\ \A k : Start(k)' = Start(k) /\ Line(k)' = Line(k) /\ (LineFits(k)' <=> LineFits(k))
<1>1. Starts' = Starts /\ N1' = N1
  BY DEF Starts, N1
<1>2. ASSUME NEW i PROVE LineEnd(i)' = LineEnd(i)
  BY DEF LineEnd
<1>3. ASSUME NEW i PROVE Before(i)' = Before(i)
  BY <1>1 DEF Before
<1>4. ASSUME NEW k PROVE Start(k)' = Start(k)
  BY <1>1 DEF Start
<1>5. ASSUME NEW k PROVE Line(k)' = Line(k)
  <2>1. Start(k)' = Start(k) /\ LineEnd(Start(k))' = LineEnd(Start(k))
    BY <1>2, <1>4
  <2> QED
    BY <2>1 DEF Line
<1>6. ASSUME NEW k PROVE LineFits(k)' <=> LineFits(k)
  <2>1. Start(k)' = Start(k) /\ LineEnd(Start(k))' = LineEnd(Start(k))
    BY <1>2, <1>4
  <2> QED
    BY <1>1, <2>1 DEF LineFits
<1> QED
  BY <1>1, <1>2, <1>3, <1>4, <1>5, <1>6

\* A line that fits starts in the first block.
LEMMA FitsIn ==
  ASSUME File, NEW k \in Nat, LineFits(k)
  PROVE  Start(k) \in Starts /\ Start(k) <= N1 /\ Rank(Start(k)) = k
<1>1. Start(k) \in Starts /\ Rank(Start(k)) = k
  BY StartIs DEF LineFits
<1>2. Start(k) \in 1 .. Len(file)
  BY <1>1 DEF Starts
<1>3. LineEnd(Start(k)) \in Start(k) .. Len(file) + 1 /\ LineEnd(Start(k)) <= BufLen
  BY <1>2, LineEndIn DEF LineFits
<1>4. Start(k) <= N1
  BY <1>2, <1>3, Chars, FileIs DEF N1
<1> QED
  BY <1>1, <1>4

LEMMA TableInit == Init => TInv
<1> SUFFICES ASSUME Init PROVE TInv
  OBVIOUS
<1>1. File
  <2>1. PICK n \in 0 .. MaxLen : file \in [1 .. n -> Char]
    BY DEF Init
  <2>2. n \in Nat
    BY SizeListAssumption
  <2> QED
    BY <2>1, <2>2, IsASeq DEF File
<1>2. pos = 0 /\ index = 0 /\ pc = "open" /\ Fresh /\ nPerSize_ = [k \in 0 .. Size - 1 |-> nPerSize_[k]]
  BY DEF Init, Fresh
<1>3. index \in 0 .. Size /\ Len(file) \in Nat
  BY <1>1, <1>2, FileIs, SizeListAssumption
<1> QED
  BY <1>1, <1>2, <1>3 DEF TInv

LEMMA ReadStep ==
  ASSUME TInv, Read
  PROVE  TInv'
<1> DEFINE n == Min({BufLen, Len(file) - pos})
           beyonds == IF n = BufLen THEN Char \cup {NUL} ELSE {val[BufLen + 1]}
           b(c) == [i \in 1 .. BufLen + 2 |-> IF i = BufLen + 1 THEN c ELSE Kept(i, n)]
<1>1. PICK c \in beyonds : strtok(b(c), 1)
  BY DEF Read
<1>2. /\ pc = "read" /\ n > 0 /\ pos' = pos + n /\ pc' = "token"
      /\ file' = file /\ index' = index /\ nPerSize_' = nPerSize_
  BY DEF Read, NextPos
<1>3. File /\ Len(file) \in Nat /\ BufLen \in Nat \ {0} /\ pos \in 0 .. Len(file) /\ index \in 0 .. Size
  BY FileIs, Chars DEF TInv
<1>4. n \in Nat /\ n <= BufLen /\ n <= Len(file) - pos /\ (n = BufLen \/ n = Len(file) - pos)
  <2> DEFINE S == {BufLen, Len(file) - pos}
  <2>1. S \in SUBSET Nat /\ S # {}
    BY <1>3
  <2>2. Min(S) \in S /\ \A y \in S : Min(S) <= y
    BY <2>1, MinIs
  <2> QED
    BY <1>3, <2>2
<1> HIDE DEF n
<1>5. pos' \in 0 .. Len(file') /\ pos' > 0 /\ File' /\ N1' = N1 /\ N1 \in Nat
  BY <1>2, <1>3, <1>4, FileIs DEF File, N1
<1>6. CASE pos = 0
  <2>1. Fresh /\ N1 = n
    BY <1>2, <1>3, <1>4, <1>6 DEF TInv, N1
  <2> DEFINE v == b(c)
  <2>2. /\ N1 < BufLen => c = NUL
        /\ c \in Char \cup {NUL}
    BY <1>3, <2>1 DEF Fresh
  <2>3. ASSUME NEW i \in 1 .. BufLen + 2
        PROVE  /\ v[i] \in Char \cup {NUL}
               /\ i <= N1 => v[i] = file[i]
               /\ i > N1 /\ N1 < BufLen => v[i] = NUL
               /\ i = BufLen + 2 => v[i] = NUL
    <3>1. v[i] = IF i = BufLen + 1 THEN c ELSE IF i > n THEN NUL ELSE file[i]
      BY <1>6, <2>1 DEF Fresh, Kept
    <3>2. i <= n => file[i] \in Char
      BY <1>3, <1>4, <1>6, FileIs
    <3> HIDE DEF v
    <3> QED
      BY <1>3, <1>4, <2>1, <2>2, <3>1, <3>2
  <2>4. v \in [1 .. BufLen + 2 -> Char \cup {NUL}]
    BY <2>3
  <2> HIDE DEF v
  <2>5. 1 \in 1 .. BufLen + 2 /\ BufLen + 2 \in 1 .. BufLen + 2
    BY <1>3
  <2>6. Buffer(v, 1)
    BY <2>3, <2>4, <2>5 DEF Buffer
  <2>7. Due(1, 0)
    <3>1. Before(1) = {}
      BY <1>3 DEF Before, Starts
    <3> QED
      BY <3>1, FS_EmptySet DEF Due
  <2>8. Buffer(val', save') /\ Cut(token', save', 0)
    BY <1>1, <1>3, <2>6, <2>7, strtokCuts DEF v
  <2>9. Buffer(val, save)'
    BY <1>2, <1>5, <2>8 DEF Buffer
  <2>10. Cut(token, save, index)'
    BY <1>2, <1>5, <2>1, <2>8, SameFile DEF Cut, Fresh
  <2>11. Stored'
    <3>1. index' = 0 /\ \A k \in 0 .. Size - 1 : nPerSize_'[k] = 0
      BY <1>2, <2>1 DEF Fresh
    <3>2. Cardinality(Starts') \in Nat
      BY <1>2, <1>3, StartsAre DEF Starts
    <3> QED
      BY <3>1, <3>2 DEF Stored
  <2>12. pos' = N1'
    BY <1>2, <1>5, <1>6, <2>1, <1>4
  <2> QED
    BY <1>2, <1>3, <1>5, <2>9, <2>10, <2>11, <2>12 DEF TInv
<1>7. CASE pos # 0
  <2>1. pos > 0 /\ Complete /\ pos >= N1
    BY <1>2, <1>3, <1>7 DEF TInv
  <2>2. Complete'
    BY <1>2, <2>1, SameFile DEF Complete
  <2>3. pos' > N1' /\ pos' # N1'
    BY <1>2, <1>3, <1>4, <1>5, <2>1
  <2> QED
    BY <1>2, <1>3, <1>5, <2>2, <2>3 DEF TInv
<1> QED
  BY <1>6, <1>7

LEMMA StoreStep ==
  ASSUME TInv, Store
  PROVE  TInv'
<1>1. /\ pc = "token" /\ token # << >> /\ index < Size /\ pc' = pc /\ pos' = pos /\ file' = file
      /\ nPerSize_' = [nPerSize_ EXCEPT ![index] = atoi(token)] /\ index' = index + 1
      /\ strtok(val, save)
  BY DEF Store
<1>2. /\ File /\ pos \in 0 .. Len(file) /\ pos > 0 /\ pos >= N1 /\ index \in 0 .. Size /\ Size \in Nat
      /\ nPerSize_ = [k \in 0 .. Size - 1 |-> nPerSize_[k]]
      /\ Len(file) \in Nat /\ N1 \in Nat /\ N1 <= Len(file) /\ N1 <= BufLen /\ BufLen \in Nat
      /\ N1 < BufLen => N1 = Len(file)
  BY <1>1, FileIs, Chars, SizeListAssumption DEF TInv
<1>3. /\ index \in 0 .. Size - 1 /\ index' \in 0 .. Size
      /\ nPerSize_' = [k \in 0 .. Size - 1 |-> nPerSize_'[k]]
      /\ nPerSize_'[index] = atoi(token)
      /\ \A k \in 0 .. Size - 1 : k # index => nPerSize_'[k] = nPerSize_[k]
  <2>1. index \in 0 .. Size - 1 /\ index' \in 0 .. Size
    BY <1>1, <1>2
  <2>2. nPerSize_ \in [0 .. Size - 1 -> {nPerSize_[k] : k \in 0 .. Size - 1}]
    BY <1>2, Zenon
  <2>3. nPerSize_' \in [0 .. Size - 1 -> {nPerSize_[k] : k \in 0 .. Size - 1} \cup {atoi(token)}]
    BY <1>1, <2>1, <2>2
  <2>4. nPerSize_'[index] = atoi(token) /\ \A k \in 0 .. Size - 1 : k # index => nPerSize_'[k] = nPerSize_[k]
    BY <1>1, <2>1, <2>2
  <2> QED
    BY <2>1, <2>3, <2>4
<1>4. File'
  BY <1>1, <1>2 DEF File
<1>5. CASE pos = N1
  <2>1. Buffer(val, save) /\ Cut(token, save, index) /\ Stored
    BY <1>1, <1>5 DEF TInv
  <2>2. ASSUME LineFits(index) PROVE token = Line(index)
    <3>1. Start(index) \in Starts /\ Start(index) <= N1 /\ Rank(Start(index)) = index /\ index \in Nat
      BY <1>2, <2>2, FitsIn
    <3>2. CASE save > N1 /\ Cardinality(Before(N1 + 1)) <= index
      <4>1. index < Cardinality(Before(N1 + 1)) /\ Cardinality(Before(N1 + 1)) \in Nat
        BY <1>2, <3>1, RankBefore, BeforeIs
      <4> QED
        BY <3>1, <3>2, <4>1
    <3>3. ASSUME NEW i \in Starts, i <= N1, Cardinality(Before(i)) = index,
                 LineEnd(i) <= BufLen => token = SubSeq(file, i, LineEnd(i) - 1)
          PROVE  token = Line(index)
      <4>1. Rank(i) = index
        BY <1>2, <3>3, RankBefore
      <4>2. i = Start(index)
        BY <1>2, <2>2, <3>1, <4>1, StartIs DEF LineFits
      <4> QED
        BY <2>2, <3>3, <4>2 DEF LineFits, Line
    <3> QED
      BY <2>1, <3>2, <3>3 DEF Cut
  <2>3. Due(save, index + 1)
    <3>1. CASE save > N1 /\ Cardinality(Before(N1 + 1)) <= index
      <4>1. Cardinality(Before(N1 + 1)) \in Nat
        BY <1>2, BeforeIs
      <4>2. Cardinality(Before(N1 + 1)) <= index + 1
        BY <1>2, <3>1, <4>1
      <4> QED
        BY <3>1, <4>2 DEF Due
    <3>2. ASSUME NEW i \in Starts, Cardinality(Before(i)) = index, Before(save) = Before(i) \cup {i}
          PROVE  Due(save, index + 1)
      BY <1>2, <3>2, BeforeIs DEF Due
    <3> QED
      BY <2>1, <3>1, <3>2 DEF Cut
  <2>4. Buffer(val', save') /\ Cut(token', save', index')
    BY <1>1, <1>2, <2>1, <2>3, strtokCuts
  <2>5. Buffer(val, save)' /\ Cut(token, save, index)'
    BY <1>1, <2>4, SameFile DEF Buffer, Cut
  <2>6. ASSUME NEW k \in 0 .. Size - 1, k < index + 1, LineFits(k) PROVE nPerSize_'[k] = atoi(Line(k))
    <3>1. CASE k = index
      BY <1>3, <2>2, <2>6, <3>1
    <3>2. CASE k # index
      <4>1. k < index
        BY <1>2, <2>6, <3>2
      <4> QED
        BY <1>3, <2>1, <2>6, <3>2, <4>1 DEF Stored
    <3> QED
      BY <3>1, <3>2
  <2>7. ASSUME NEW k \in 0 .. Size - 1, k >= index + 1 PROVE nPerSize_'[k] = 0
    <3>1. k # index /\ k >= index
      BY <1>2, <2>7
    <3> QED
      BY <1>3, <2>1, <3>1 DEF Stored
  <2>8. ASSUME Len(file) < BufLen PROVE index + 1 <= Cardinality(Starts)
    <3>1. N1 < BufLen
      BY <2>8 DEF N1
    <3>2. PICK i \in Starts : i <= N1 /\ Cardinality(Before(i)) = index
      BY <1>1, <2>1, <3>1 DEF Cut
    <3>3. Before(i) \cup {i} \subseteq Starts /\ IsFiniteSet(Starts) /\ Cardinality(Starts) \in Nat
      BY <1>2, StartsAre DEF Before
    <3>4. Cardinality(Before(i) \cup {i}) <= Cardinality(Starts)
      BY <3>3, FS_Subset
    <3>5. Cardinality(Before(i) \cup {i}) = index + 1
      BY <1>2, <3>2, BeforeIs
    <3> QED
      BY <3>4, <3>5
  <2>9. Stored'
    BY <1>1, <2>6, <2>7, <2>8, SameFile DEF Stored
  <2>10. pos' > 0 /\ pos' = N1' /\ ~(pos' > N1')
    BY <1>1, <1>2, <1>5, SameFile
  <2> QED
    BY <1>1, <1>2, <1>3, <1>4, <2>5, <2>9, <2>10 DEF TInv
<1>6. CASE pos # N1
  <2>1. pos > N1 /\ Complete
    BY <1>1, <1>2, <1>6 DEF TInv
  <2>2. ~(Len(file) < BufLen)
    BY <1>2, <2>1 DEF N1
  <2>3. ASSUME NEW k \in 0 .. Size - 1, LineFits(k) PROVE k < index' /\ nPerSize_'[k] = atoi(Line(k))
    <3>1. k < index /\ nPerSize_[k] = atoi(Line(k))
      BY <2>1, <2>3 DEF Complete
    <3>2. k # index /\ k < index'
      BY <1>1, <1>2, <3>1
    <3> QED
      BY <1>3, <3>1, <3>2
  <2>4. Complete'
    BY <1>1, <2>2, <2>3, SameFile DEF Complete
  <2>5. pos' > 0 /\ pos' # N1' /\ pos' > N1'
    BY <1>1, <1>2, <2>1, SameFile
  <2> QED
    <3>1. pos' \in 0 .. Len(file') /\ pos' >= N1' /\ pos' # 0 /\ pc' # "open"
      BY <1>1, <1>2, <2>1, <2>5, SameFile
    <3> QED
      BY <1>3, <1>4, <2>4, <2>5, <3>1 DEF TInv
<1> QED
  BY <1>5, <1>6

LEMMA EndOfBlockStep ==
  ASSUME TInv, EndOfBlock
  PROVE  TInv'
<1>1. /\ pc = "token" /\ (token = << >> \/ index = Size) /\ pc' = "read"
      /\ pos' = pos /\ file' = file /\ index' = index /\ nPerSize_' = nPerSize_ /\ val' = val
  BY DEF EndOfBlock, bvars
<1>2. /\ File /\ pos \in 0 .. Len(file) /\ pos > 0 /\ pos >= N1 /\ index \in 0 .. Size /\ Size \in Nat
      /\ Len(file) \in Nat /\ N1 \in Nat
  BY <1>1, FileIs, SizeListAssumption DEF TInv
<1>3. Complete
  <2>1. CASE pos > N1
    BY <1>2, <2>1 DEF TInv
  <2>2. CASE ~(pos > N1)
    <3>1. pos = N1
      BY <1>2, <2>2
    <3>2. Cut(token, save, index) /\ Stored
      BY <1>1, <3>1 DEF TInv
    <3>3. ASSUME NEW k \in 0 .. Size - 1, LineFits(k) PROVE k < index
      <4>1. CASE index = Size
        BY <1>2, <4>1
      <4>2. CASE index # Size
        <5>1. Cardinality(Before(N1 + 1)) <= index
          BY <1>1, <3>2, <4>2 DEF Cut
        <5>2. Start(k) \in Starts /\ Start(k) <= N1 /\ Rank(Start(k)) = k
          BY <1>2, <3>3, FitsIn
        <5>3. k < Cardinality(Before(N1 + 1)) /\ Cardinality(Before(N1 + 1)) \in Nat
          BY <1>2, <5>2, RankBefore, BeforeIs
        <5> QED
          BY <1>2, <5>1, <5>3
      <4> QED
        BY <4>1, <4>2
    <3>4. ASSUME Len(file) < BufLen, NEW k \in 0 .. Size - 1, k >= Cardinality(Starts) PROVE nPerSize_[k] = 0
      <4>1. k >= index
        <5>1. index <= Cardinality(Starts) /\ Cardinality(Starts) \in Nat
          BY <1>2, <3>2, <3>4, StartsAre DEF Stored
        <5> QED
          BY <1>2, <3>4, <5>1
      <4> QED
        BY <3>2, <4>1 DEF Stored
    <3> QED
      BY <3>2, <3>3, <3>4 DEF Complete, Stored
  <2> QED
    BY <2>1, <2>2
<1>4. Complete' /\ File'
  BY <1>1, <1>2, <1>3, SameFile DEF Complete, File
<1>5. pos' > 0 /\ pos' >= N1' /\ pos' # 0
  BY <1>1, <1>2, SameFile
<1> QED
  BY <1>1, <1>4, <1>5 DEF TInv

LEMMA TableNext ==
  ASSUME TInv, [Next]_vars
  PROVE  TInv'
<1>1. CASE setDefault
  <2>1. /\ pc = "open" /\ pc' = "done" /\ pos' = pos /\ file' = file /\ index' = index /\ nPerSize_' = Default
    BY <1>1 DEF setDefault
  <2>2. File /\ pos \in 0 .. Len(file) /\ pos = 0
    BY <2>1, FileIs DEF TInv
  <2>3. nPerSize_' = [k \in 0 .. Size - 1 |-> nPerSize_'[k]]
    BY <2>1, SizeListAssumption
  <2>4. File'
    BY <2>1, <2>2 DEF File
  <2> QED
    BY <2>1, <2>2, <2>3, <2>4 DEF TInv
<1>2. ASSUME file' = file, pos' = pos, index' = index, nPerSize_' = nPerSize_, val' = val,
             token' = token, save' = save,
             \/ pc = "open" /\ pc' = "read"
             \/ pc = "read" /\ pc' = "done"
             \/ pc' = pc
      PROVE  TInv'
  <2>1. N1' = N1 /\ File' /\ (Complete' <=> Complete) /\ (Fresh' <=> Fresh)
    BY <1>2, SameFile DEF TInv, File, Complete, Fresh
  <2>2. (Buffer(val, save)' <=> Buffer(val, save)) /\ (Cut(token, save, index)' <=> Cut(token, save, index))
    BY <1>2, SameFile DEF Buffer, Cut
  <2>3. Stored' <=> Stored
    BY <1>2, SameFile DEF Stored
  <2> QED
    BY <1>2, <2>1, <2>2, <2>3 DEF TInv
<1>3. CASE Open
  BY <1>2, <1>3 DEF Open, bvars
<1>4. CASE Read
  BY <1>4, ReadStep
<1>5. CASE Store
  BY <1>5, StoreStep
<1>6. CASE EndOfBlock
  BY <1>6, EndOfBlockStep
<1>7. CASE Close
  BY <1>2, <1>7 DEF Close, bvars
<1>8. CASE Done \/ UNCHANGED vars
  BY <1>2, <1>8 DEF Done, vars, bvars
<1> QED
  BY <1>1, <1>3, <1>4, <1>5, <1>6, <1>7, <1>8 DEF Next

-----------------------------------------------------------------------------

\* The inductive invariant: how far the table has been filled while the first
\* block is cut into lines, and that it stays so while later blocks are.
THEOREM TableInvariant == Spec => []TInv
<1>1. Init => TInv
  BY TableInit
<1>2. TInv /\ [Next]_vars => TInv'
  BY TableNext
<1> QED
  BY <1>1, <1>2, PTL DEF Spec

\* The lines of the file that end in the first block are the head of the table,
\* and of a file shorter than the buffer nothing else gets into it: strtok skips
\* empty lines, loses no line and makes none up, whatever lies behind the block.
THEOREM TableIsFileAlways == Spec => []TableIsFile
<1>1. TInv => TableIsFile
  <2> SUFFICES ASSUME TInv, pc = "done", file # << >>, pos = Len(file) PROVE TableIsFile
    BY DEF TableIsFile
  <2>1. pos > 0
    <3>1. File /\ Len(file) \in Nat
      BY FileIs DEF TInv
    <3>2. Len(file) # 0
      BY <3>1, EmptySeq DEF File
    <3> QED
      BY <3>1, <3>2
  <2>2. Complete
    BY <2>1 DEF TInv
  <2> QED
    BY <2>2 DEF TableIsFile, Complete, LineFits
<1> QED
  BY <1>1, TableInvariant, PTL
=============================================================================
