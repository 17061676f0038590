---------------------------- MODULE Batch_proofs ----------------------------
(***************************************************************************)
(* For every word, size list, header, page and request: a block is as long *)
(* as what was asked of it, it comes back to the class it was made for,    *)
(* and the headers and blocks of a batch lie apart in the memory mapped    *)
(* for it.  All of it with the value of __builtin_clz(0) that the source   *)
(* gives for g++; with the one it gives for clang BlockFits fails.         *)
(***************************************************************************)
EXTENDS Batch, SizeClass_proofs, SequenceTheorems

-----------------------------------------------------------------------------
(* Lengths.                                                                *)

\* ALIGN is the least multiple that does not wrap around.
LEMMA Aligned ==
  ASSUME NEW v \in Nat, NEW n \in Nat \ {0}, v + n - 1 < 2^W
  PROVE  ALIGN(v, n) \in Nat /\ v <= ALIGN(v, n) /\ ALIGN(v, n) < v + n
<1> DEFINE x == v + n - 1
           q == x \div n
<1>1. x \in Nat /\ Truncate(x) = x
  BY TruncateSmall
<1>2. ALIGN(v, n) = q * n
  BY <1>1 DEF ALIGN
<1>3. q \in Nat /\ q * n <= x /\ x < q * n + n
  <2> HIDE DEF x
  <2> QED
    BY <1>1, Division
<1> HIDE DEF q
<1>4. q * n \in Nat
  BY <1>3
<1> QED
  BY <1>2, <1>3, <1>4

LEMMA Multiple ==
  ASSUME NEW a \in Nat, NEW t \in Nat, t % 16 = 0
  PROVE  a * t \in Nat /\ (a * t) % 16 = 0
<1> DEFINE q == t \div 16
<1>1. q \in Nat /\ t = 16 * q
  OBVIOUS
<1> HIDE DEF q
<1>2. a * t = 16 * (a * q) /\ a * q \in Nat
  BY <1>1
<1> QED
  BY <1>2

LEMMA Aligned16 ==
  ASSUME NEW v \in Nat, v + 15 < 2^W
  PROVE  /\ ALIGN(v, 16) \in Nat /\ v <= ALIGN(v, 16) /\ ALIGN(v, 16) <= v + 15
         /\ ALIGN(v, 16) % 16 = 0
<1>1. ALIGN(v, 16) \in Nat /\ v <= ALIGN(v, 16) /\ ALIGN(v, 16) <= v + 15
  BY Aligned
<1>2. ALIGN(v, 16) % 16 = 0
  <2>1. Truncate(v + 16 - 1) = v + 15
    BY TruncateSmall
  <2> QED
    BY <2>1 DEF ALIGN
<1> QED
  BY <1>1, <1>2

\* The classes that have batches.
Made == {i \in 3 .. W - 2 : NPerSize[i] > 0}

\* A header and a block of class i, and the memory for a batch of them.
LEMMA Lengths ==
  ASSUME NEW i \in Made
  PROVE  /\ GetHeaderSize \in Nat /\ GetHeaderSize % 16 = 0
         /\ TotalSize(2^i) \in Nat /\ TotalSize(2^i) % 16 = 0
         /\ 2^i + GetHeaderSize <= TotalSize(2^i)
         /\ MmapSize(2^i, NPerSize[i]) \in Nat
         /\ NPerSize[i] * TotalSize(2^i) <= MmapSize(2^i, NPerSize[i])
         /\ NPerSize[i] * TotalSize(2^i) < 2^W
<1> DEFINE n == NPerSize[i]
           p == 2^i
           t == TotalSize(p)
           g == GetHeaderSize
           m == 2^W
<1>1. /\ i \in Index /\ i \in Nat /\ n \in Nat /\ n > 0 /\ p \in Nat /\ m \in Nat
      /\ HeaderSize \in Nat /\ PageSize \in Nat \ {0}
      /\ n * (p + HeaderSize + 30) + PageSize <= m
  BY BatchAssumption, Widths, PowerType DEF Made, Index
<1> HIDE DEF n, p, m
<1>2. p + HeaderSize + 30 <= n * (p + HeaderSize + 30)
  BY <1>1
<1>3. p + HeaderSize + 30 < m
  BY <1>1, <1>2
<1>4. g \in Nat /\ g <= HeaderSize + 15 /\ g % 16 = 0
  BY <1>1, <1>3, Aligned16 DEF GetHeaderSize, m
<1>5. Truncate(p + g) = p + g
  BY <1>1, <1>3, <1>4, TruncateSmall DEF m
<1>6. t \in Nat /\ p + g <= t /\ t <= p + HeaderSize + 30 /\ t % 16 = 0
  <2> DEFINE v == p + g
  <2>1. v \in Nat /\ v + 15 < m /\ v <= p + HeaderSize + 15
    BY <1>1, <1>3, <1>4
  <2>2. t = ALIGN(v, 16)
    BY <1>5 DEF TotalSize
  <2> HIDE DEF v
  <2>3. ALIGN(v, 16) \in Nat /\ v <= ALIGN(v, 16) /\ ALIGN(v, 16) <= v + 15 /\ ALIGN(v, 16) % 16 = 0
    BY <2>1, Aligned16 DEF m
  <2> HIDE DEF t, g
  <2> QED
    BY <1>1, <1>4, <2>1, <2>2, <2>3 DEF v
<1> HIDE DEF t, g
<1>7. n * t \in Nat /\ n * t <= n * (p + HeaderSize + 30)
  BY <1>1, <1>6
<1>8. n * t < m /\ n * t + PageSize - 1 < m /\ t * n = n * t
  BY <1>1, <1>6, <1>7
<1>9. MmapSize(p, n) = ALIGN(n * t, PageSize)
  BY <1>7, <1>8, TruncateSmall DEF MmapSize, m, t
<1>10. MmapSize(p, n) \in Nat /\ n * t <= MmapSize(p, n)
  BY <1>1, <1>7, <1>8, <1>9, Aligned DEF m
<1> QED
  BY <1>4, <1>6, <1>8, <1>10 DEF n, p, t, g, m

\* A request whose class has batches is given a block of the length and the
\* class that it needs.
LEMMA ClassOf ==
  ASSUME ClzOfZero = HalfW, NEW x \in 1 .. 2^W - 1, NPerSize[logarithm2(x)] > 0
  PROVE  /\ logarithm2(x) \in Made /\ BodySize(x) = 2^logarithm2(x) /\ x <= BodySize(x)
<1>1. logarithm2(x) \in Index /\ logarithm2(x) >= 3
  BY LogInIndex
<1>2. logarithm2(x) < W - 1 /\ W \in Nat
  BY <1>1, BatchAssumption, Widths
<1>3. 2^(W-1) \in Nat
  BY Widths, PowerType
<1>4. x < 2^(W-1)
  <2>1. SUFFICES ASSUME ~(x < 2^(W-1)) PROVE FALSE
    OBVIOUS
  <2>2. x \in 2^(W-1) .. 2^W - 1
    BY <1>3, <2>1
  <2> QED
    BY <1>2, <2>2, LogOfLarge
<1>5. x \in 1 .. 2^(W-1) - 1
  BY <1>3, <1>4
<1>6. BodySize(x) = 2^logarithm2(x) /\ x <= BodySize(x)
  BY <1>5, Rounding
<1> QED
  BY <1>1, <1>2, <1>6 DEF Made, Index

-----------------------------------------------------------------------------
(* The inductive invariant.                                                *)

Header == [area : Nat, at : Nat, body : Nat]

\* The blocks of the lists, and those that are lent.
Free(ls) == UNION {ls[i] : i \in Index}
Lent(hs) == {h.block : h \in hs}

\* The blocks that are not being linked.
Finished == Lent(held) \cup Free(lists)

\* Block b has a length of some class and lies in its area.
Placed(b, ar) ==
  /\ b \in Header
  /\ \E i \in Made : b.body = 2^i
  /\ b.area \in 1 .. Len(ar)
  /\ b.at % 16 = 0
  /\ b.at + TotalSize(b.body) <= ar[b.area]

Apart(b, c) ==
  b # c /\ b.area = c.area =>
    b.at + TotalSize(b.body) <= c.at \/ c.at + TotalSize(c.body) <= b.at

Laid(S, ar) == (\A b \in S : Placed(b, ar)) /\ (\A b, c \in S : Apart(b, c))

Types ==
  /\ areas \in Seq(Nat) /\ chain \in Seq(Header)
  /\ lists \in [Index -> SUBSET Header]
  /\ held \in SUBSET [block : Header, want : Nat]
  /\ pc \in {"idle", "link"}

\* The blocks of a list are of its class.
Sorted(ls) == \A i \in Index : \A b \in ls[i] : i \in Made /\ b.body = 2^i

\* The chain so far fills the front of the newest area, which has no other
\* block.
Linked(n, t) ==
  /\ areas # << >> /\ areas[Len(areas)] = MmapSize(body, n)
  /\ Len(chain) <= n /\ buffer = Len(chain) * t
  /\ \A k \in 1 .. Len(chain) : chain[k] = [area |-> Len(areas), at |-> (k - 1) * t, body |-> body]
  /\ \A b \in Finished : b.area # Len(areas)

Job ==
  /\ pc = "idle" => chain = << >>
  /\ pc = "link" =>
       /\ size \in 1 .. 2^W - 1 /\ body = BodySize(size)
       /\ want \in Nat /\ (want < 2^W => want = size)
       /\ old \subseteq held
       /\ NPerSize[logarithm2(size)] = 0 => chain = << >>
       /\ NPerSize[logarithm2(size)] > 0 => Linked(NPerSize[logarithm2(size)], TotalSize(body))

BInv == Types /\ Sorted(lists) /\ BlockFits /\ Laid(Block, areas) /\ Job

LEMMA BlockIs == Block = ToSet(chain) \cup Finished
  BY DEF Block, Finished, Free, Lent

LEMMA InFree ==
  ASSUME NEW ls, NEW b
  PROVE  b \in Free(ls) <=> \E i \in Index : b \in ls[i]
BY DEF Free

LEMMA InLent ==
  ASSUME NEW hs, NEW b
  PROVE  b \in Lent(hs) <=> \E h \in hs : b = h.block
BY DEF Lent

LEMMA LaidSubset ==
  ASSUME NEW S, NEW T \in SUBSET S, NEW ar, Laid(S, ar)
  PROVE  Laid(T, ar)
BY DEF Laid

LEMMA Appending ==
  ASSUME NEW ar \in Seq(Nat), NEW n \in Nat
  PROVE  /\ Append(ar, n) \in Seq(Nat) /\ Append(ar, n) # << >>
         /\ Len(ar) \in Nat /\ Len(Append(ar, n)) = Len(ar) + 1
         /\ Append(ar, n)[Len(ar) + 1] = n
         /\ \A k \in 1 .. Len(ar) : Append(ar, n)[k] = ar[k]
BY AppendProperties

LEMMA PlacedGrow ==
  ASSUME NEW ar \in Seq(Nat), NEW n \in Nat, NEW b, Placed(b, ar)
  PROVE  Placed(b, Append(ar, n))
<1> DEFINE a == Append(ar, n)
<1>1. Len(ar) \in Nat /\ Len(a) = Len(ar) + 1 /\ \A k \in 1 .. Len(ar) : a[k] = ar[k]
  BY Appending
<1> HIDE DEF a
<1>2. b.area \in 1 .. Len(ar)
  BY DEF Placed
<1>3. b.area \in 1 .. Len(a) /\ a[b.area] = ar[b.area]
  BY <1>1, <1>2
<1>4. Placed(b, a)
  BY <1>3 DEF Placed
<1> QED
  BY <1>4 DEF a

LEMMA LaidGrow ==
  ASSUME NEW S, NEW ar \in Seq(Nat), NEW n \in Nat, Laid(S, ar)
  PROVE  Laid(S, Append(ar, n))
BY PlacedGrow DEF Laid

LEMMA LaidAdd ==
  ASSUME NEW S, NEW ar, Laid(S, ar), NEW b, Placed(b, ar), \A c \in S : Apart(b, c) /\ Apart(c, b)
  PROVE  Laid(S \cup {b}, ar)
<1>1. Apart(b, b)
  BY DEF Apart
<1> QED
  BY <1>1, Zenon DEF Laid

\* Freeing puts every block into the list of its class.
LEMMA FreedIs ==
  ASSUME ClzOfZero = HalfW, NEW ls \in [Index -> SUBSET Header], Sorted(ls),
         NEW h \in SUBSET [block : Header, want : Nat],
         \A g \in h : \E i \in Made : g.block.body = 2^i
  PROVE  /\ Freed(ls, h) \in [Index -> SUBSET Header] /\ Sorted(Freed(ls, h))
         /\ Free(Freed(ls, h)) \subseteq Free(ls) \cup Lent(h)
<1> DEFINE In(i) == {f \in h : logarithm2(f.block.body) = i}
           fr == Freed(ls, h)
<1>1. fr = [i \in Index |-> ls[i] \cup {g.block : g \in In(i)}]
  BY DEF Freed
<1>2. ASSUME NEW i \in Index, NEW g \in In(i) PROVE g \in h /\ i \in Made /\ g.block.body = 2^i
  <2>1. PICK j \in Made : g.block.body = 2^j
    OBVIOUS
  <2>2. logarithm2(2^j) = j
    BY LogOfPower DEF Made
  <2> QED
    BY <2>1, <2>2
<1> HIDE DEF In
<1>3. ASSUME NEW i \in Index PROVE fr[i] = ls[i] \cup {g.block : g \in In(i)}
  BY <1>1
<1> HIDE DEF fr
<1>4. \A i \in Index : \A g \in In(i) : g \in h
  BY <1>2
<1>5. ASSUME NEW i \in Index, NEW b \in fr[i] PROVE b \in Header /\ i \in Made /\ b.body = 2^i
  <2>1. CASE b \in ls[i]
    BY <2>1 DEF Sorted
  <2>2. CASE b \in {g.block : g \in In(i)}
    <3>1. PICK g \in In(i) : b = g.block
      BY <2>2
    <3>2. g \in h /\ i \in Made /\ b.body = 2^i
      BY <1>2, <3>1
    <3> QED
      BY <3>1, <3>2
  <2> QED
    BY <1>3, <1>5, <2>1, <2>2
<1>6. fr \in [Index -> SUBSET Header]
  <2>1. fr = [i \in Index |-> fr[i]]
    BY <1>1
  <2>2. \A i \in Index : fr[i] \subseteq Header
    BY <1>5
  <2> QED
    BY <2>1, <2>2
<1>7. Sorted(fr)
  BY <1>5 DEF Sorted
<1>8. Free(fr) \subseteq Free(ls) \cup Lent(h)
  <2>1. SUFFICES ASSUME NEW b, b \in Free(fr) PROVE b \in Free(ls) \/ b \in Lent(h)
    OBVIOUS
  <2>2. PICK i \in Index : b \in fr[i]
    BY <2>1, InFree
  <2>3. b \in ls[i] \/ \E g \in h : b = g.block
    BY <1>3, <1>4, <2>2
  <2> QED
    BY <2>3, InFree, InLent
<1> QED
  BY <1>6, <1>7, <1>8 DEF fr

\* Handing out a block.
LEMMA Delivered ==
  ASSUME ClzOfZero = HalfW, Types, BlockFits, Laid(Block, areas),
         NEW ls \in [Index -> SUBSET Header], Sorted(ls),
         NEW b \in Header, NEW w \in Nat, w < 2^W => w <= b.body,
         NEW o \in SUBSET held, Deliver(ls, b, w, o)
  PROVE  /\ lists' \in [Index -> SUBSET Header] /\ Sorted(lists')
         /\ held' \in SUBSET [block : Header, want : Nat] /\ BlockFits'
         /\ Finished' \subseteq Free(ls) \cup {b} \cup Lent(held)
<1> DEFINE new == [block |-> b, want |-> w]
<1>1. lists' = Freed(ls, o) /\ held' = (held \ o) \cup {new}
  BY DEF Deliver
<1>2. o \in SUBSET [block : Header, want : Nat]
  BY DEF Types
<1>3. ASSUME NEW g \in o PROVE \E i \in Made : g.block.body = 2^i
  <2>1. g.block \in Block
    BY DEF Block
  <2> QED
    BY <2>1 DEF Laid, Placed
<1>4. /\ lists' \in [Index -> SUBSET Header] /\ Sorted(lists')
      /\ Free(lists') \subseteq Free(ls) \cup Lent(o)
  BY <1>1, <1>2, <1>3, FreedIs
<1>5. new \in [block : Header, want : Nat] /\ new.block = b /\ new.want = w
  OBVIOUS
<1> HIDE DEF new
<1>6. held' \in SUBSET [block : Header, want : Nat]
  BY <1>1, <1>5 DEF Types
<1>7. BlockFits'
  BY <1>1, <1>5 DEF BlockFits
<1>8. Lent(held') \subseteq Lent(held) \cup {b} /\ Lent(o) \subseteq Lent(held)
  BY <1>1, <1>5 DEF Lent
<1>9. Finished' \subseteq Free(ls) \cup {b} \cup Lent(held)
  BY <1>4, <1>8 DEF Finished
<1> QED
  BY <1>4, <1>6, <1>7, <1>9

-----------------------------------------------------------------------------
(* The steps.                                                              *)

LEMMA NoChain == ToSet(<< >>) = {}
  BY DEF ToSet

LEMMA HeadAndTail ==
  ASSUME NEW s \in Seq(Header), s # << >>
  PROVE  /\ Head(s) \in ToSet(s) /\ ToSet(Tail(s)) \subseteq ToSet(s) /\ ToSet(s) \subseteq Header
         /\ \A b \in ToSet(s) : \E k \in 1 .. Len(s) : b = s[k]
<1>1. /\ Len(s) \in Nat \ {0} /\ DOMAIN s = 1 .. Len(s) /\ Head(s) = s[1]
      /\ Tail(s) \in Seq(Header) /\ Len(Tail(s)) = Len(s) - 1
      /\ \A k \in 1 .. Len(Tail(s)) : Tail(s)[k] = s[k + 1]
      /\ \A k \in 1 .. Len(s) : s[k] \in Header
  BY HeadTailProperties, EmptySeq, LenProperties, ElementOfSeq
<1>2. DOMAIN Tail(s) = 1 .. Len(s) - 1
  BY <1>1, LenProperties
<1>3. Head(s) \in ToSet(s)
  BY <1>1 DEF ToSet
<1>4. ASSUME NEW b \in ToSet(Tail(s)) PROVE b \in ToSet(s)
  <2>1. PICK k \in 1 .. Len(s) - 1 : b = Tail(s)[k]
    BY <1>2 DEF ToSet
  <2>2. k + 1 \in DOMAIN s /\ b = s[k + 1]
    BY <1>1, <2>1
  <2> QED
    BY <2>2 DEF ToSet
<1>5. \A b \in ToSet(s) : \E k \in 1 .. Len(s) : b = s[k]
  BY <1>1 DEF ToSet
<1> QED
  BY <1>1, <1>3, <1>4, <1>5

LEMMA ToSetAppend ==
  ASSUME NEW s \in Seq(Header), NEW b \in Header
  PROVE  /\ Append(s, b) \in Seq(Header) /\ Append(s, b) # << >> /\ Len(Append(s, b)) = Len(s) + 1
         /\ Append(s, b)[Len(s) + 1] = b /\ (\A k \in 1 .. Len(s) : Append(s, b)[k] = s[k])
         /\ ToSet(Append(s, b)) = ToSet(s) \cup {b} /\ Len(s) \in Nat
<1> DEFINE a == Append(s, b)
<1>1. /\ a \in Seq(Header) /\ a # << >> /\ Len(a) = Len(s) + 1 /\ Len(s) \in Nat
      /\ a[Len(s) + 1] = b /\ \A k \in 1 .. Len(s) : a[k] = s[k]
  BY AppendProperties, LenProperties
<1> HIDE DEF a
<1>2. DOMAIN a = 1 .. Len(s) + 1 /\ DOMAIN s = 1 .. Len(s)
  BY <1>1, LenProperties
<1>3. ToSet(a) = ToSet(s) \cup {b}
  <2>1. ASSUME NEW k \in 1 .. Len(s) + 1 PROVE a[k] = b \/ (k \in 1 .. Len(s) /\ a[k] = s[k])
    BY <1>1
  <2>2. ToSet(a) \subseteq ToSet(s) \cup {b}
    BY <1>2, <2>1 DEF ToSet
  <2>3. ASSUME NEW k \in 1 .. Len(s) PROVE k \in DOMAIN a /\ a[k] = s[k]
    BY <1>1, <1>2
  <2>4. ToSet(s) \subseteq ToSet(a)
    BY <1>2, <2>3 DEF ToSet
  <2>5. Len(s) + 1 \in DOMAIN a
    BY <1>1, <1>2
  <2>6. b \in ToSet(a)
    BY <1>1, <2>5 DEF ToSet
  <2> QED
    BY <2>2, <2>4, <2>6
<1> QED
  BY <1>1, <1>3 DEF a

\* What is still a block has its place.
LEMMA Shrinks ==
  ASSUME BInv, areas' = areas, ToSet(chain') \cup Finished' \subseteq Block
  PROVE  Laid(Block, areas)'
<1>1. Block' \in SUBSET Block
  <2>1. Block' = ToSet(chain') \cup Finished'
    BY DEF Block, Finished, Free, Lent
  <2> QED
    BY <2>1
<1>2. Laid(Block', areas)
  BY <1>1, LaidSubset DEF BInv
<1> QED
  BY <1>2

LEMMA BlocksFitInit == Init => BInv
<1> SUFFICES ASSUME Init PROVE BInv
  OBVIOUS
<1>1. /\ areas \in Seq(Nat) /\ chain \in Seq(Header)
  BY EmptySeq DEF Init
<1>2. lists \in [Index -> SUBSET Header] /\ Sorted(lists) /\ Free(lists) = {}
  BY DEF Init, Sorted, Free
<1>3. held \in SUBSET [block : Header, want : Nat] /\ Lent(held) = {} /\ BlockFits
  BY DEF Init, Lent, BlockFits
<1>4. Block = {}
  BY <1>2, <1>3, BlockIs, NoChain DEF Finished, Init
<1>5. Laid(Block, areas)
  BY <1>4 DEF Laid
<1>6. Job /\ pc \in {"idle", "link"}
  BY DEF Init, Job
<1> QED
  BY <1>1, <1>2, <1>3, <1>5, <1>6 DEF BInv, Types

LEMMA PopStep ==
  ASSUME ClzOfZero = HalfW, BInv, pc = "idle",
         NEW x \in 1 .. 2^W - 1, NEW w \in Nat, w < 2^W => w = x, NEW o \in SUBSET held,
         NEW b \in lists[logarithm2(x)],
         Deliver([lists EXCEPT ![logarithm2(x)] = @ \ {b}], b, w, o), UNCHANGED <<areas, pc, jvars>>
  PROVE  BInv'
<1> DEFINE i == logarithm2(x)
           ls == [lists EXCEPT ![i] = @ \ {b}]
<1>1. i \in Index
  BY LogInIndex
<1> HIDE DEF i
<1>2. b \in Header /\ i \in Made /\ b.body = 2^i
  BY <1>1 DEF BInv, Types, Sorted, i
<1>3. x <= b.body
  <2>1. NPerSize[logarithm2(x)] > 0
    BY <1>2 DEF Made, i
  <2> QED
    BY <1>2, <2>1, ClassOf DEF i
<1>4. lists \in [Index -> SUBSET Header] /\ b \in lists[i]
  BY DEF BInv, Types, i
<1>5. ls \in [Index -> SUBSET Header] /\ \A j \in Index : ls[j] \subseteq lists[j]
  BY <1>1, <1>4
<1>6. Deliver(ls, b, w, o)
  BY DEF i
<1> HIDE DEF ls
<1>7. Sorted(ls)
  BY <1>5 DEF Sorted, BInv
<1>8. Free(ls) \subseteq Free(lists) /\ b \in Free(lists)
  BY <1>1, <1>4, <1>5 DEF Free
<1>9. w < 2^W => w <= b.body
  BY <1>3
<1>10. /\ lists' \in [Index -> SUBSET Header] /\ Sorted(lists')
       /\ held' \in SUBSET [block : Header, want : Nat] /\ BlockFits'
       /\ Finished' \subseteq Free(ls) \cup {b} \cup Lent(held)
  BY <1>2, <1>5, <1>6, <1>7, <1>9, Delivered DEF BInv
<1>11. chain = << >> /\ chain' = chain /\ areas' = areas /\ pc' = "idle"
  BY DEF BInv, Job, jvars
<1>12. Laid(Block, areas)'
  BY <1>8, <1>10, <1>11, BlockIs, Shrinks DEF Finished
<1>13. Types'
  BY <1>10, <1>11 DEF Types, BInv
<1>14. Job'
  BY <1>11 DEF Job
<1> QED
  BY <1>10, <1>12, <1>13, <1>14 DEF BInv

LEMMA RefillStep ==
  ASSUME ClzOfZero = HalfW, BInv, pc = "idle",
         NEW x \in 1 .. 2^W - 1, NEW w \in Nat, w < 2^W => w = x, NEW o \in SUBSET held,
         body' = BodySize(x),
         \/ NPerSize[logarithm2(x)] = 0 /\ UNCHANGED areas
         \/ /\ NPerSize[logarithm2(x)] > 0
            /\ areas' = Append(areas, MmapSize(body', NPerSize[logarithm2(x)])),
         pc' = "link", want' = w, size' = x, old' = o, chain' = << >>, buffer' = 0,
         UNCHANGED <<lists, held>>
  PROVE  BInv'
<1> DEFINE n == NPerSize[logarithm2(x)]
           t == TotalSize(body')
<1>1. /\ chain = << >> /\ Finished' = Finished /\ Block' = Block /\ BlockFits' /\ Sorted(lists')
  <2>1. chain = << >>
    BY DEF BInv, Job
  <2> QED
    BY <2>1 DEF BInv, Finished, Free, Lent, Block, BlockFits
<1>2. n \in Nat
  BY LogInIndex, BatchAssumption
<1>3. <<>> \in Seq(Header)
  BY EmptySeq
<1>4. areas \in Seq(Nat) /\ Laid(Block, areas)
  BY DEF BInv, Types
<1>5. CASE n = 0
  <2>1. areas' = areas
    BY <1>2, <1>5
  <2>2. Job'
    BY <1>5 DEF Job
  <2>3. Laid(Block', areas') /\ Types'
    BY <1>1, <1>3, <2>1 DEF BInv, Types
  <2> QED
    BY <1>1, <2>2, <2>3 DEF BInv
<1>6. CASE n > 0
  <2> DEFINE m == MmapSize(body', n)
  <2>1. areas' = Append(areas, m)
    BY <1>2, <1>6
  <2>2. m \in Nat /\ t \in Nat
    <3>1. logarithm2(x) \in Made /\ body' = 2^logarithm2(x)
      BY <1>6, ClassOf
    <3> QED
      BY <3>1, Lengths
  <2> HIDE DEF m, n, t
  <2>3. /\ areas' \in Seq(Nat) /\ areas' # << >> /\ Len(areas) \in Nat
        /\ Len(areas') = Len(areas) + 1 /\ areas'[Len(areas')] = m
    BY <1>4, <2>1, <2>2, Appending
  <2>4. Laid(Block', areas')
    BY <1>1, <1>4, <2>1, <2>2, LaidGrow
  <2>5. ASSUME NEW b \in Finished' PROVE b.area # Len(areas')
    <3>1. b \in Block
      BY <1>1, <2>5, BlockIs
    <3>2. b.area \in 1 .. Len(areas)
      BY <1>4, <3>1 DEF Laid, Placed
    <3> QED
      BY <2>3, <3>2
  <2>6. Linked(NPerSize[logarithm2(size)], TotalSize(body))'
    <3>1. Len(chain') = 0 /\ 0 <= n /\ buffer' = Len(chain') * t
      BY <1>2, <2>2
    <3>2. NPerSize[logarithm2(size')] = n /\ TotalSize(body') = t
      BY DEF n, t
    <3>3. areas'[Len(areas')] = MmapSize(body', NPerSize[logarithm2(size')])
      BY <2>3, <3>2 DEF m
    <3> QED
      BY <2>3, <2>5, <3>1, <3>2, <3>3 DEF Linked
  <2>7. Job'
    <3>1. /\ (pc' = "idle" => chain' = << >>)
          /\ size' \in 1 .. 2^W - 1 /\ body' = BodySize(size')
          /\ want' \in Nat /\ (want' < 2^W => want' = size')
          /\ old' \subseteq held'
      OBVIOUS
    <3> QED
      BY <2>6, <3>1 DEF Job
  <2>8. Types'
    BY <1>3, <2>3 DEF BInv, Types
  <2> QED
    BY <1>1, <2>4, <2>7, <2>8 DEF BInv
<1> QED
  BY <1>2, <1>5, <1>6

LEMMA LinkStep ==
  ASSUME ClzOfZero = HalfW, BInv, Link
  PROVE  BInv'
<1> DEFINE i == logarithm2(size)
           n == NPerSize[i]
           t == TotalSize(body)
           l == Len(chain)
           b == [area |-> Len(areas), at |-> buffer, body |-> body]
<1>1. /\ pc = "link" /\ l < n /\ chain' = Append(chain, b) /\ buffer' = Truncate(buffer + t)
      /\ lists' = lists /\ held' = held /\ areas' = areas /\ pc' = pc
      /\ want' = want /\ size' = size /\ body' = body /\ old' = old
  BY DEF Link
<1>2. /\ size \in 1 .. 2^W - 1 /\ body = BodySize(size) /\ want \in Nat /\ (want < 2^W => want = size)
      /\ old \subseteq held /\ (n > 0 => Linked(n, t))
  BY <1>1 DEF BInv, Job
<1>3. n \in Nat /\ l \in Nat /\ n > 0
  <2>1. n \in Nat
    BY <1>2, LogInIndex, BatchAssumption
  <2>2. l \in Nat
    BY LenProperties DEF BInv, Types
  <2> HIDE DEF n, l
  <2> QED
    BY <1>1, <2>1, <2>2
<1>4. Linked(n, t)
  BY <1>2, <1>3
<1>5. i \in Made /\ body = 2^i
  BY <1>2, <1>3, ClassOf
<1>6. /\ t \in Nat /\ t % 16 = 0 /\ MmapSize(body, n) \in Nat
      /\ n * t <= MmapSize(body, n) /\ n * t < 2^W
  BY <1>5, Lengths
<1>7. /\ areas \in Seq(Nat) /\ chain \in Seq(Header) /\ Laid(Block, areas)
  BY DEF BInv, Types
<1>8. /\ areas # << >> /\ areas[Len(areas)] = MmapSize(body, n) /\ buffer = l * t
      /\ \A k \in 1 .. l : chain[k] = [area |-> Len(areas), at |-> (k - 1) * t, body |-> body]
      /\ \A c \in Finished : c.area # Len(areas)
  BY <1>4 DEF Linked
<1>9. Len(areas) \in Nat \ {0} /\ body \in Nat
  BY <1>5, <1>7, <1>8, EmptySeq, LenProperties, PowerType DEF Made
<1>10. b \in Header /\ b.area = Len(areas) /\ b.at = l * t /\ b.body = body
  <2>1. buffer \in Nat
    BY <1>3, <1>6, <1>8
  <2> QED
    BY <1>8, <1>9, <2>1 DEF Header
<1>11. (l + 1) * t = l * t + t /\ (l + 1) * t \in Nat /\ l * t \in Nat /\ (l * t) % 16 = 0 /\ (l + 1) * t <= n * t
  <2> HIDE DEF n, l, t
  <2>1. l + 1 <= n
    BY <1>1, <1>3
  <2>2. (l * t) % 16 = 0
    BY <1>3, <1>6, Multiple
  <2> QED
    BY <1>3, <1>6, <2>1, <2>2
<1>12. Placed(b, areas)
  <2>1. b.at + TotalSize(b.body) <= areas[b.area]
    <3> HIDE DEF b, n, l
    <3>1. b.at + TotalSize(b.body) = (l + 1) * t
      BY <1>10, <1>11
    <3>2. areas[b.area] = MmapSize(body, n)
      BY <1>8, <1>10
    <3> HIDE DEF t
    <3> QED
      BY <1>3, <1>6, <1>11, <3>1, <3>2
  <2>2. b.area \in 1 .. Len(areas) /\ b.at % 16 = 0
    BY <1>9, <1>10, <1>11
  <2>3. \E j \in Made : b.body = 2^j
    BY <1>5, <1>10
  <2> HIDE DEF b
  <2> QED
    BY <1>10, <2>1, <2>2, <2>3 DEF Placed
<1> HIDE DEF b
<1>13. ASSUME NEW c \in Block PROVE Apart(b, c) /\ Apart(c, b)
  <2>1. CASE c \in Finished
    BY <1>8, <1>10, <2>1 DEF Apart
  <2>2. CASE c \in ToSet(chain)
    <3>1. PICK k \in 1 .. l : c = chain[k]
      <4>1. chain # << >>
        BY <2>2, NoChain
      <4> QED
        BY <1>7, <2>2, <4>1, HeadAndTail
    <3>2. c.at = (k - 1) * t /\ c.body = body /\ c.area = Len(areas)
      <4> HIDE DEF l, t
      <4>1. c = [area |-> Len(areas), at |-> (k - 1) * t, body |-> body]
        BY <1>8, <3>1
      <4> QED
        BY <4>1
    <3>3. c.at + TotalSize(c.body) <= b.at
      <4> HIDE DEF l, n
      <4>1. TotalSize(c.body) = t
        BY <3>2
      <4> HIDE DEF t
      <4>2. (k - 1) * t + t = k * t /\ k * t <= l * t
        BY <1>3, <1>6
      <4> QED
        BY <1>10, <3>2, <4>1, <4>2
    <3> QED
      BY <3>3 DEF Apart
  <2> QED
    BY <2>1, <2>2, BlockIs
<1>14. /\ chain' \in Seq(Header) /\ chain' # << >> /\ Len(chain') = l + 1
       /\ chain'[l + 1] = b /\ (\A k \in 1 .. l : chain'[k] = chain[k])
       /\ ToSet(chain') = ToSet(chain) \cup {b}
  BY <1>1, <1>7, <1>10, ToSetAppend
<1>15. Finished' = Finished /\ BlockFits' /\ Sorted(lists')
  BY <1>1 DEF BInv, Finished, Free, Lent, BlockFits
<1>16. Block' = Block \cup {b}
  <2>1. Block' = ToSet(chain') \cup Finished'
    BY DEF Block, Finished, Free, Lent
  <2> QED
    BY <1>14, <1>15, <2>1, BlockIs
<1>17. Laid(Block', areas')
  BY <1>1, <1>7, <1>12, <1>13, <1>16, LaidAdd
<1>18. Types'
  BY <1>1, <1>14 DEF BInv, Types
<1>19. buffer' = (l + 1) * t
  <2> HIDE DEF l, t, n
  <2>1. (l + 1) * t < 2^W
    <3> DEFINE m == 2^W
    <3>1. n * t < m /\ m \in Nat /\ n * t \in Nat
      BY <1>3, <1>6, Widths, PowerType
    <3> HIDE DEF m
    <3>2. (l + 1) * t < m
      BY <1>11, <3>1
    <3> QED
      BY <3>2 DEF m
  <2>2. buffer + t = (l + 1) * t
    BY <1>8, <1>11
  <2> QED
    BY <1>1, <1>11, <2>1, <2>2, TruncateSmall
<1>20. ASSUME NEW k \in 1 .. l + 1
       PROVE  chain'[k] = [area |-> Len(areas), at |-> (k - 1) * t, body |-> body]
  <2> HIDE DEF l, t
  <2>1. CASE k = l + 1
    <3>1. chain'[k] = b /\ k - 1 = l
      BY <1>3, <1>14, <2>1
    <3> QED
      BY <1>8, <3>1 DEF b
  <2>2. CASE k # l + 1
    <3>1. k \in 1 .. l
      BY <1>3, <2>2
    <3> QED
      BY <1>8, <1>14, <3>1
  <2> QED
    BY <2>1, <2>2
<1>21. Linked(n, t)'
  <2>1. n' = n /\ t' = t
    BY <1>1
  <2>2. l + 1 <= n
    <3> HIDE DEF l, n
    <3> QED
      BY <1>1, <1>3
  <2>3. Len(chain') <= n' /\ buffer' = Len(chain') * t' /\ Len(chain') = l + 1
    BY <1>14, <1>19, <2>1, <2>2
  <2>4. \A k \in 1 .. Len(chain') :
          chain'[k] = [area |-> Len(areas'), at |-> (k - 1) * t', body |-> body']
    BY <1>1, <1>20, <2>1, <2>3
  <2>5. areas' # << >> /\ areas'[Len(areas')] = MmapSize(body', n')
    BY <1>1, <1>8, <2>1
  <2>6. \A c \in Finished' : c.area # Len(areas')
    BY <1>1, <1>8, <1>15
  <2> HIDE DEF n, t, l
  <2> QED
    BY <2>3, <2>4, <2>5, <2>6 DEF Linked
<1>22. Job'
  <2>1. n' = n /\ n' > 0 /\ n' # 0 /\ pc' = "link"
    BY <1>1, <1>3
  <2> QED
    BY <1>1, <1>2, <1>21, <2>1 DEF Job
<1> QED
  BY <1>15, <1>17, <1>18, <1>22 DEF BInv

LEMMA ServeStep ==
  ASSUME ClzOfZero = HalfW, BInv, Serve
  PROVE  BInv'
<1> DEFINE i == logarithm2(size)
           b == Head(chain)
           ls == [lists EXCEPT ![i] = @ \cup ToSet(Tail(chain))]
<1>1. /\ pc = "link" /\ chain # << >> /\ Deliver(ls, b, want, old)
      /\ pc' = "idle" /\ chain' = << >> /\ areas' = areas
  BY DEF Serve, Forget
<1>2. /\ size \in 1 .. 2^W - 1 /\ body = BodySize(size) /\ want \in Nat /\ (want < 2^W => want = size)
      /\ old \in SUBSET held /\ NPerSize[i] # 0 /\ (NPerSize[i] > 0 => Linked(NPerSize[i], TotalSize(body)))
  BY <1>1 DEF BInv, Job
<1>3. NPerSize[i] > 0 /\ i \in Index
  <2>1. NPerSize[i] \in Nat /\ i \in Index
    BY <1>2, LogInIndex, BatchAssumption
  <2> HIDE DEF i
  <2> QED
    BY <1>2, <2>1
<1>4. i \in Made /\ body = 2^i /\ size <= body
  BY <1>2, <1>3, ClassOf
<1>5. chain \in Seq(Header) /\ lists \in [Index -> SUBSET Header] /\ Sorted(lists)
  BY DEF BInv, Types
<1>6. /\ b \in ToSet(chain) /\ ToSet(Tail(chain)) \subseteq ToSet(chain) /\ ToSet(chain) \subseteq Header
      /\ \A c \in ToSet(chain) : \E k \in 1 .. Len(chain) : c = chain[k]
  BY <1>1, <1>5, HeadAndTail
<1>7. ASSUME NEW c \in ToSet(chain) PROVE c.body = body
  <2>1. PICK k \in 1 .. Len(chain) : c = chain[k]
    BY <1>6
  <2>2. c = [area |-> Len(areas), at |-> (k - 1) * TotalSize(body), body |-> body]
    BY <1>2, <1>3, <2>1 DEF Linked
  <2> QED
    BY <2>2
<1> HIDE DEF b, i
<1>8. ls \in [Index -> SUBSET Header] /\ ls[i] = lists[i] \cup ToSet(Tail(chain)) /\ \A j \in Index : j # i => ls[j] = lists[j]
  BY <1>3, <1>5, <1>6
<1> HIDE DEF ls
<1>9. Sorted(ls)
  <2>1. ASSUME NEW j \in Index, NEW c \in ls[j] PROVE j \in Made /\ c.body = 2^j
    <3>1. CASE c \in lists[j]
      BY <1>5, <3>1 DEF Sorted
    <3>2. CASE ~(c \in lists[j])
      <4>1. j = i /\ c \in ToSet(chain)
        BY <1>6, <1>8, <2>1, <3>2
      <4> QED
        BY <1>4, <1>7, <4>1
    <3> QED
      BY <3>1, <3>2
  <2> QED
    BY <2>1 DEF Sorted
<1>10. Free(ls) \subseteq Free(lists) \cup ToSet(chain)
  <2>1. ASSUME NEW c \in Free(ls) PROVE c \in Free(lists) \cup ToSet(chain)
    <3>1. PICK j \in Index : c \in ls[j]
      BY InFree
    <3>2. c \in lists[j] \/ c \in ToSet(chain)
      BY <1>6, <1>8, <3>1
    <3> QED
      BY <3>2, InFree
  <2> QED
    BY <2>1
<1>11. b \in Header /\ (want < 2^W => want <= b.body)
  BY <1>2, <1>4, <1>6, <1>7
<1>12. /\ lists' \in [Index -> SUBSET Header] /\ Sorted(lists')
       /\ held' \in SUBSET [block : Header, want : Nat] /\ BlockFits'
       /\ Finished' \subseteq Free(ls) \cup {b} \cup Lent(held)
  BY <1>1, <1>2, <1>8, <1>9, <1>11, Delivered DEF BInv
<1>13. Laid(Block, areas)'
  <2>1. ToSet(chain') \cup Finished' \subseteq Block
    BY <1>1, <1>6, <1>10, <1>12, NoChain, BlockIs DEF Finished
  <2> QED
    BY <1>1, <2>1, Shrinks
<1>14. Types'
  BY <1>1, <1>12, EmptySeq DEF BInv, Types
<1>15. Job'
  BY <1>1 DEF Job
<1> QED
  BY <1>12, <1>13, <1>14, <1>15 DEF BInv

LEMMA RefuseStep ==
  ASSUME BInv, Refuse
  PROVE  BInv'
<1>1. pc' = "idle" /\ chain' = << >> /\ lists' = lists /\ held' = held /\ areas' = areas
  BY DEF Refuse, Forget
<1>2. Finished' = Finished /\ BlockFits' /\ Sorted(lists')
  BY <1>1 DEF BInv, Finished, Free, Lent, BlockFits
<1>3. Laid(Block, areas)'
  BY <1>1, <1>2, NoChain, BlockIs, Shrinks
<1>4. Types' /\ Job'
  BY <1>1, EmptySeq DEF BInv, Types, Job
<1> QED
  BY <1>2, <1>3, <1>4 DEF BInv

\* realloc answers with the block it was given.
LEMMA KeepStep ==
  ASSUME BInv, NEW h \in held, NEW x \in Nat, pc = "idle", x <= h.block.body,
         held' = (held \ {h}) \cup {[h EXCEPT !.want = x]},
         UNCHANGED <<lists, areas, pc, jvars>>
  PROVE  BInv'
<1> DEFINE g == [h EXCEPT !.want = x]
<1>1. chain = << >> /\ chain' = << >> /\ lists' = lists /\ areas' = areas /\ pc' = "idle"
  BY DEF BInv, Job, jvars
<1>2. h \in [block : Header, want : Nat]
  BY DEF BInv, Types
<1>3. g \in [block : Header, want : Nat] /\ g.block = h.block /\ g.want = x
  BY <1>2
<1> HIDE DEF g
<1>4. held' = (held \ {h}) \cup {g}
  BY DEF g
<1>5. BlockFits'
  BY <1>3, <1>4 DEF BInv, BlockFits
<1>6. Finished' = Finished
  <2>1. Lent(held') = Lent(held)
    BY <1>3, <1>4 DEF Lent
  <2> QED
    BY <1>1, <2>1 DEF Finished
<1>7. Laid(Block, areas)'
  BY <1>1, <1>6, BlockIs, Shrinks
<1>8. Types' /\ Job' /\ Sorted(lists')
  BY <1>1, <1>3, <1>4 DEF BInv, Types, Job
<1> QED
  BY <1>5, <1>7, <1>8 DEF BInv

LEMMA FreeStep ==
  ASSUME ClzOfZero = HalfW, BInv, NEW h \in held, free(h)
  PROVE  BInv'
<1>1. /\ pc' = "idle" /\ chain = << >> /\ chain' = << >> /\ areas' = areas
      /\ lists' = Freed(lists, {h}) /\ held' = held \ {h}
  BY DEF BInv, Job, free, jvars
<1>2. /\ lists \in [Index -> SUBSET Header] /\ Sorted(lists)
      /\ {h} \in SUBSET [block : Header, want : Nat]
  BY DEF BInv, Types
<1>3. \A g \in {h} : \E i \in Made : g.block.body = 2^i
  <2>1. h.block \in Block
    BY DEF Block
  <2> QED
    BY <2>1 DEF BInv, Laid, Placed
<1>4. /\ lists' \in [Index -> SUBSET Header] /\ Sorted(lists')
      /\ Free(lists') \subseteq Free(lists) \cup Lent({h})
  BY <1>1, <1>2, <1>3, FreedIs
<1>5. Lent(held') \subseteq Lent(held) /\ Lent({h}) \subseteq Lent(held)
  BY <1>1 DEF Lent
<1>6. Laid(Block, areas)'
  BY <1>1, <1>4, <1>5, NoChain, BlockIs, Shrinks DEF Finished
<1>7. BlockFits' /\ Types' /\ Job'
  BY <1>1, <1>4 DEF BInv, BlockFits, Types, Job
<1> QED
  BY <1>4, <1>6, <1>7 DEF BInv

LEMMA MallocStep ==
  ASSUME ClzOfZero = HalfW, BInv,
         NEW x \in 1 .. 2^W - 1, NEW w \in Nat, w < 2^W => w = x, NEW o \in SUBSET held, Malloc(x, w, o)
  PROVE  BInv'
<1>1. pc = "idle"
  BY DEF Malloc
<1>2. CASE \E b \in lists[logarithm2(x)] :
             /\ Deliver([lists EXCEPT ![logarithm2(x)] = @ \ {b}], b, w, o)
             /\ UNCHANGED <<areas, pc, jvars>>
  BY <1>1, <1>2, PopStep
<1>3. CASE /\ body' = BodySize(x)
           /\ \/ NPerSize[logarithm2(x)] = 0 /\ UNCHANGED areas
              \/ /\ NPerSize[logarithm2(x)] > 0
                 /\ areas' = Append(areas, MmapSize(body', NPerSize[logarithm2(x)]))
           /\ pc' = "link" /\ want' = w /\ size' = x /\ old' = o
           /\ chain' = << >> /\ buffer' = 0
           /\ UNCHANGED <<lists, held>>
  BY <1>1, <1>3, RefillStep
<1> QED
  BY <1>2, <1>3 DEF Malloc

LEMMA BlocksFitNext ==
  ASSUME ClzOfZero = HalfW, BInv, [Next]_vars
  PROVE  BInv'
<1> DEFINE m == 2^W
<1>1. m \in Nat \ {0} /\ Sizes \subseteq 1 .. m - 1 /\ Products \subseteq Nat \X Nat
  BY BatchAssumption, Widths, PowerType
<1> HIDE DEF m
<1>2. ASSUME NEW x \in Sizes PROVE x \in 1 .. 2^W - 1 /\ x \in Nat
  BY <1>1 DEF m
<1>3. ASSUME NEW x \in Sizes, malloc(x) PROVE BInv'
  <2>1. Malloc(x, x, {}) /\ {} \in SUBSET held
    BY <1>3 DEF malloc
  <2> QED
    BY <1>2, <2>1, MallocStep
<1>4. ASSUME NEW p \in Products, calloc(p[1], p[2]) PROVE BInv'
  <2> DEFINE w == p[1] * p[2]
             x == Truncate(w)
  <2>1. w \in Nat
    <3>1. p[1] \in Nat /\ p[2] \in Nat
      BY <1>1
    <3> QED
      BY <3>1
  <2>2. x # 0 /\ Malloc(x, w, {}) /\ {} \in SUBSET held
    BY <1>4 DEF calloc
  <2> HIDE DEF w
  <2>3. x \in 0 .. 2^W - 1
    <3>1. w % m \in 0 .. m - 1
      BY <1>1, <2>1
    <3> QED
      BY <3>1 DEF m, Truncate
  <2>4. w < 2^W => w = x
    BY <2>1, TruncateSmall
  <2> HIDE DEF x
  <2>5. x \in 1 .. 2^W - 1
    BY <2>2, <2>3
  <2> QED
    BY <2>1, <2>2, <2>4, <2>5, MallocStep
<1>5. ASSUME NEW h \in held, NEW x \in Sizes, realloc(h, x) PROVE BInv'
  <2>1. CASE /\ pc = "idle" /\ x <= h.block.body
             /\ held' = (held \ {h}) \cup {[h EXCEPT !.want = x]}
             /\ UNCHANGED <<lists, areas, pc, jvars>>
    BY <1>2, <2>1, KeepStep
  <2>2. CASE x > h.block.body /\ Malloc(x, x, {h})
    <3>1. {h} \in SUBSET held
      BY <1>5
    <3> QED
      BY <1>2, <2>2, <3>1, MallocStep
  <2> QED
    BY <1>5, <2>1, <2>2 DEF realloc
<1>6. ASSUME NEW h \in held, free(h) PROVE BInv'
  BY <1>6, FreeStep
<1>7. CASE Link
  BY <1>7, LinkStep
<1>8. CASE Serve
  BY <1>8, ServeStep
<1>9. CASE Refuse
  BY <1>9, RefuseStep
<1>10. CASE UNCHANGED vars
  <2>1. /\ lists' = lists /\ held' = held /\ areas' = areas /\ pc' = pc /\ want' = want /\ size' = size
        /\ body' = body /\ old' = old /\ chain' = chain /\ buffer' = buffer
    BY <1>10 DEF vars, jvars
  <2>2. Finished' = Finished /\ Block' = Block
    BY <2>1 DEF Finished, Free, Lent, Block
  <2>3. Job'
    BY <2>1, <2>2 DEF BInv, Job, Linked
  <2> QED
    BY <2>1, <2>2, <2>3 DEF BInv, Types, BlockFits
<1> QED
  BY <1>3, <1>4, <1>5, <1>6, <1>7, <1>8, <1>9, <1>10 DEF Next

-----------------------------------------------------------------------------
(* The theorems.                                                           *)

\* The inductive invariant: types, sorted lists, blocks in their areas, and
\* the chain of the call that is linking one.
THEOREM BatchInvariant ==
  ASSUME ClzOfZero = HalfW
  PROVE  Spec => []BInv
<1>1. Init => BInv
  BY BlocksFitInit
<1>2. BInv /\ [Next]_vars => BInv'
  BY BlocksFitNext
<1> QED
  BY <1>1, <1>2, PTL DEF Spec

\* A block is as long as the application asked for, whichever request it was
\* made for: what the ASSERT of MemoryLinkedListManager::Alloc looks at.
THEOREM BlockFitsAlways ==
  ASSUME ClzOfZero = HalfW
  PROVE  Spec => []BlockFits
<1>1. BInv => BlockFits
  BY DEF BInv
<1> QED
  BY <1>1, BatchInvariant, PTL

\* free finds in the header the class that malloc took the block from, and
\* its batch size is not 0, by which free divides.
THEOREM SameClassAlways ==
  ASSUME ClzOfZero = HalfW
  PROVE  Spec => []SameClass
<1>1. BInv => SameClass
  <2> SUFFICES ASSUME BInv PROVE SameClass
    OBVIOUS
  <2>1. ASSUME NEW i \in Index, NEW b \in lists[i] PROVE logarithm2(b.body) = i
    BY LogOfPower DEF BInv, Sorted, Made
  <2>2. ASSUME NEW b \in Block PROVE NPerSize[logarithm2(b.body)] > 0
    <3>1. PICK i \in Made : b.body = 2^i
      BY DEF BInv, Laid, Placed
    <3> QED
      BY <3>1, LogOfPower DEF Made
  <2> QED
    BY <2>1, <2>2 DEF SameClass
<1> QED
  BY <1>1, BatchInvariant, PTL

\* allocateMemoryLinkedList lays the headers and blocks of a batch side by
\* side, inside the memory mapped for it, and aligned to 16 bytes.
THEOREM LayoutAlways ==
  ASSUME ClzOfZero = HalfW
  PROVE  Spec => []Layout
<1>1. BInv => Layout
  <2> SUFFICES ASSUME BInv PROVE Layout
    OBVIOUS
  <2>1. ASSUME NEW b \in Block
        PROVE  /\ b \in Header /\ areas[b.area] \in Nat /\ b.at % 16 = 0
               /\ b.at + TotalSize(b.body) <= areas[b.area]
               /\ GetHeaderSize \in Nat /\ GetHeaderSize % 16 = 0 /\ TotalSize(b.body) \in Nat
               /\ b.body + GetHeaderSize <= TotalSize(b.body)
    <3>1. Placed(b, areas)
      BY DEF BInv, Laid
    <3>2. PICK i \in Made : b.body = 2^i
      BY <3>1 DEF Placed
    <3>3. areas[b.area] \in Nat
      <4>1. areas \in Seq(Nat) /\ b.area \in 1 .. Len(areas)
        BY <3>1 DEF Placed, BInv, Types
      <4> QED
        BY <4>1, ElementOfSeq
    <3> QED
      BY <3>1, <3>2, <3>3, Lengths DEF Placed
  <2>2. ASSUME NEW b \in Block PROVE BodyAt(b) + b.body <= areas[b.area] /\ BodyAt(b) % 16 = 0
    <3> DEFINE at == b.at
               g == GetHeaderSize
    <3>1. at \in Nat /\ g \in Nat /\ at % 16 = 0 /\ g % 16 = 0
      BY <2>1 DEF Header
    <3> HIDE DEF at, g
    <3>2. (at + g) % 16 = 0
      BY <3>1
    <3> QED
      BY <2>1, <3>2 DEF BodyAt, Header, at, g
  <2>3. ASSUME NEW b \in Block, NEW c \in Block, b # c, b.area = c.area
        PROVE  BodyAt(b) + b.body <= c.at \/ BodyAt(c) + c.body <= b.at
    <3>1. b.at + TotalSize(b.body) <= c.at \/ c.at + TotalSize(c.body) <= b.at
      BY <2>3 DEF BInv, Laid, Apart
    <3> QED
      BY <2>1, <3>1 DEF BodyAt, Header
  <2> QED
    BY <2>2, <2>3 DEF Layout
<1> QED
  BY <1>1, BatchInvariant, PTL

\* Every size below half the range is rounded to the least power of two that
\* holds it, at least 8, and its class is the exponent: misc.hpp computes what
\* its slow version under #if 0 does.
THEOREM RoundedUpAlways ==
  ASSUME ClzOfZero = HalfW
  PROVE  Spec => []RoundedUp
<1>1. RoundedUp
  BY Rounding DEF RoundedUp
<1> QED
  BY <1>1, PTL
=============================================================================
