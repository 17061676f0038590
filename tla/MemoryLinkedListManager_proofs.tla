------------------- MODULE MemoryLinkedListManager_proofs --------------------
(***************************************************************************)
(* The pointers of MemoryLinkedListManager implement FIFO queues, for any  *)
(* number of managers, size classes and chunks.                            *)
(***************************************************************************)
EXTENDS MemoryLinkedListManager, SequenceTheorems, FiniteSetTheorems, WellFoundedInduction, TLAPS

-----------------------------------------------------------------------------
(* Induction over the naturals, as a fact about sets.                      *)

LEMMA NatLess == IsWellFoundedOn({p \in Nat \X Nat : p[1] < p[2]}, Nat)
BY NatLessThanWellFounded, Zenon DEF OpToRel

LEMMA Induction ==
  ASSUME NEW S, 0 \in S, \A n \in Nat : n \in S => n + 1 \in S
  PROVE  Nat \subseteq S
<1> DEFINE T == Nat \ S
           R == {p \in Nat \X Nat : p[1] < p[2]}
<1>1. SUFFICES ASSUME T # {} PROVE FALSE
  OBVIOUS
<1>2. PICK x \in T : \A y \in T : ~(<<y, x>> \in R)
  <2>1. T \subseteq Nat /\ IsWellFoundedOn(R, Nat)
    BY NatLess
  <2> HIDE DEF R, T
  <2> QED
    BY <1>1, <2>1, WFMin
<1>3. x - 1 \in Nat /\ <<x - 1, x>> \in R
  BY <1>2
<1>4. x - 1 \in S
  BY <1>2, <1>3
<1> QED
  BY <1>2, <1>3, <1>4

-----------------------------------------------------------------------------
(* What it is for the pointers m to hold the queues q.                     *)

Mem    == [heads : PointerTable, lasts : PointerTable, next : [Chunk -> Chunk \cup {Null}]]
Queues == [Manager -> [Index -> Seq(Chunk)]]

\* Sequence s is linked by the next pointers nx up to its end.
Path(nx, s) ==
  /\ \A k \in 1 .. Len(s) - 1 : nx[s[k]] = s[k + 1]
  /\ s # <<>> => nx[s[Len(s)]] = Null

\* The head and the last pointer of a list enclose s.
Ends(h, last, s) ==
  /\ s = <<>> => h = Null /\ last = Null
  /\ s # <<>> => h = s[1] /\ last = s[Len(s)]

Holds(m, q) ==
  /\ m \in Mem /\ q \in Queues
  /\ \A l \in Manager, i \in Index :
       Ends(m.heads[l][i], m.lasts[l][i], q[l][i]) /\ Path(m.next, q[l][i])

In(q, c) == \E l \in Manager, i \in Index : \E k \in 1 .. Len(q[l][i]) : q[l][i][k] = c

\* No chunk is in two places.
Apart(q) ==
  \A l, m \in Manager, i, j \in Index :
    \A k \in 1 .. Len(q[l][i]), n \in 1 .. Len(q[m][j]) :
      q[l][i][k] = q[m][j][n] => l = m /\ i = j /\ k = n

\* A chunk in no queue links to nothing.
Loose(m, q) == \A c \in Chunk : ~In(q, c) => m.next[c] = Null

Good(m, q) == Holds(m, q) /\ Apart(q) /\ Loose(m, q)

\* A sequence of chunks ready to be appended.
Ready(m, q, t) ==
  /\ t \in Seq(Chunk) /\ t # <<>>
  /\ \A k \in 1 .. Len(t) : ~In(q, t[k])
  /\ \A j, k \in 1 .. Len(t) : t[j] = t[k] => j = k
  /\ Path(m.next, t)

-----------------------------------------------------------------------------
(* The operations.                                                         *)

LEMMA QueueType ==
  ASSUME NEW q \in Queues, NEW l \in Manager, NEW i \in Index
  PROVE  /\ q[l][i] \in Seq(Chunk)
         /\ Len(q[l][i]) \in Nat
         /\ q[l][i] # <<>> => Len(q[l][i]) >= 1
         /\ \A k \in 1 .. Len(q[l][i]) : q[l][i][k] \in Chunk
<1>1. q[l][i] \in Seq(Chunk)
  BY DEF Queues
<1> QED
  BY <1>1, LenProperties, EmptySeq, ElementOfSeq

\* The queues r are the queues q but for one, which is s.
Replaced(q, r, l, i, s) ==
  /\ r \in Queues
  /\ r[l][i] = s
  /\ \A k \in Manager, j \in Index : ~(k = l /\ j = i) => r[k][j] = q[k][j]

LEMMA QueueExcept ==
  ASSUME NEW q \in Queues, NEW l \in Manager, NEW i \in Index, NEW s \in Seq(Chunk)
  PROVE  Replaced(q, [q EXCEPT ![l][i] = s], l, i, s)
BY DEF Queues, Replaced

\* u is s followed by t.
Joined(s, t, u) ==
  /\ u \in Seq(Chunk) /\ Len(u) = Len(s) + Len(t)
  /\ \A k \in 1 .. Len(s) : u[k] = s[k]
  /\ \A k \in 1 .. Len(t) : u[Len(s) + k] = t[k]
  /\ \A k \in 1 .. Len(u) : k \in 1 .. Len(s) \/ \E j \in 1 .. Len(t) : k = Len(s) + j

LEMMA Concat ==
  ASSUME NEW s \in Seq(Chunk), NEW t \in Seq(Chunk)
  PROVE  Joined(s, t, s \o t)
<1> DEFINE u == s \o t
<1> SUFFICES
         /\ u \in Seq(Chunk) /\ Len(u) = Len(s) + Len(t)
         /\ \A k \in 1 .. Len(s) : u[k] = s[k]
         /\ \A k \in 1 .. Len(t) : u[Len(s) + k] = t[k]
         /\ \A k \in 1 .. Len(u) : k \in 1 .. Len(s) \/ \E j \in 1 .. Len(t) : k = Len(s) + j
  BY DEF Joined
<1>1. Len(s) \in Nat /\ Len(t) \in Nat
  BY LenProperties
<1>2. /\ u \in Seq(Chunk) /\ Len(u) = Len(s) + Len(t)
      /\ \A k \in 1 .. Len(s) + Len(t) : u[k] = IF k <= Len(s) THEN s[k] ELSE t[k - Len(s)]
  BY ConcatProperties
<1> HIDE DEF u
<1>3. ASSUME NEW k \in 1 .. Len(t) PROVE u[Len(s) + k] = t[k]
  <2>1. Len(s) + k \in 1 .. Len(s) + Len(t) /\ ~(Len(s) + k <= Len(s)) /\ (Len(s) + k) - Len(s) = k
    BY <1>1
  <2> QED
    BY <1>2, <2>1
<1>4. ASSUME NEW k \in 1 .. Len(u), k \notin 1 .. Len(s)
      PROVE  \E j \in 1 .. Len(t) : k = Len(s) + j
  <2>1. k - Len(s) \in 1 .. Len(t) /\ k = Len(s) + (k - Len(s))
    BY <1>1, <1>2, <1>4
  <2> QED
    BY <2>1
<1>5. ASSUME NEW k \in 1 .. Len(s) PROVE u[k] = s[k]
  BY <1>1, <1>2
<1> QED
  BY <1>2, <1>3, <1>4, <1>5

\* What append changes of the pointers.
Appended(m, n, l, i, a, b) ==
  /\ n \in Mem
  /\ n.heads[l][i] = IF m.heads[l][i] = Null THEN a ELSE m.heads[l][i]
  /\ n.lasts[l][i] = b
  /\ \A c \in Chunk : n.next[c] = IF m.heads[l][i] # Null /\ c = m.lasts[l][i] THEN a ELSE m.next[c]
  /\ \A k \in Manager, j \in Index : ~(k = l /\ j = i) =>
       n.heads[k][j] = m.heads[k][j] /\ n.lasts[k][j] = m.lasts[k][j]

LEMMA AppendFields ==
  ASSUME NEW m \in Mem, NEW l \in Manager, NEW i \in Index,
         NEW a \in Chunk, NEW b \in Chunk,
         m.heads[l][i] # Null => m.lasts[l][i] \in Chunk
  PROVE  Appended(m, append(m, l, i, a, b), l, i, a, b)
<1>1. CASE m.heads[l][i] = Null
  BY <1>1 DEF append, Mem, PointerTable, Appended
<1>2. CASE m.heads[l][i] # Null
  BY <1>2 DEF append, Mem, PointerTable, Appended
<1> QED
  BY <1>1, <1>2

\* Outside the queues q the next pointers are the same.
Kept(m, n, q) == \A c \in Chunk : ~In(q, c) => n.next[c] = m.next[c]

\* The queues r have the chunks of t besides those of q.
Added(q, r, t) == \A c : In(r, c) <=> In(q, c) \/ \E k \in 1 .. Len(t) : t[k] = c

\* append of a chain puts it at the end of the queue.
LEMMA AppendHolds ==
  ASSUME NEW m, NEW q, Holds(m, q), Apart(q), NEW l \in Manager, NEW i \in Index,
         NEW t, Ready(m, q, t),
         NEW n, Appended(m, n, l, i, t[1], t[Len(t)]),
         NEW u, Joined(q[l][i], t, u), NEW r, Replaced(q, r, l, i, u)
  PROVE  Holds(n, r) /\ Apart(r) /\ Added(q, r, t) /\ Kept(m, n, q)
<1> DEFINE s == q[l][i]
<1>1. /\ m \in Mem /\ q \in Queues
      /\ t \in Seq(Chunk) /\ Len(t) \in Nat /\ Len(t) >= 1
      /\ \A k \in 1 .. Len(t) : t[k] \in Chunk
      /\ s \in Seq(Chunk) /\ Len(s) \in Nat /\ (s # <<>> => Len(s) >= 1)
      /\ \A k \in 1 .. Len(s) : s[k] \in Chunk
  BY QueueType, LenProperties, EmptySeq, ElementOfSeq DEF Holds, Ready
<1>2. t[1] \in Chunk /\ t[Len(t)] \in Chunk /\ (s = <<>> => Len(s) = 0)
  BY <1>1, EmptySeq
<1>3. /\ u \in Seq(Chunk) /\ Len(u) = Len(s) + Len(t) /\ Len(u) >= 1 /\ u # <<>>
      /\ \A k \in 1 .. Len(s) : u[k] = s[k]
      /\ \A k \in 1 .. Len(t) : u[Len(s) + k] = t[k]
      /\ \A k \in 1 .. Len(u) : k \in 1 .. Len(s) \/ \E j \in 1 .. Len(t) : k = Len(s) + j
  BY <1>1, EmptySeq DEF Joined
<1>4. /\ r \in Queues /\ r[l][i] = u
      /\ \A k \in Manager, j \in Index : ~(k = l /\ j = i) => r[k][j] = q[k][j]
  BY DEF Replaced
<1>5. Ends(m.heads[l][i], m.lasts[l][i], s) /\ Path(m.next, s)
  BY DEF Holds
<1>6. /\ \A k \in 1 .. Len(s) : In(q, s[k])
      /\ \A j, k \in 1 .. Len(s) : s[j] = s[k] => j = k
      /\ \A j, k \in 1 .. Len(t) : t[j] = t[k] => j = k
      /\ \A k \in 1 .. Len(t) : ~In(q, t[k])
  <2>1. \A k \in 1 .. Len(s) : In(q, s[k])
    BY DEF In
  <2>2. \A j, k \in 1 .. Len(s) : s[j] = s[k] => j = k
    BY DEF Apart
  <2> QED
    BY <2>1, <2>2 DEF Ready
<1> HIDE DEF s
<1>7. /\ s = <<>> <=> m.heads[l][i] = Null
      /\ s # <<>> => m.heads[l][i] = s[1] /\ m.lasts[l][i] = s[Len(s)] /\ m.lasts[l][i] \in Chunk
  BY <1>1, <1>5, MemoryLinkedListAssumption DEF Ends
<1>8. /\ n \in Mem
      /\ n.heads[l][i] = IF s = <<>> THEN t[1] ELSE s[1]
      /\ \A c \in Chunk : n.next[c] = IF s # <<>> /\ c = s[Len(s)] THEN t[1] ELSE m.next[c]
      /\ n.lasts[l][i] = t[Len(t)]
      /\ \A k \in Manager, j \in Index : ~(k = l /\ j = i) =>
           n.heads[k][j] = m.heads[k][j] /\ n.lasts[k][j] = m.lasts[k][j]
  BY <1>1, <1>2, <1>7 DEF Appended
<1>9. /\ \A c \in Chunk : s = <<>> \/ c # s[Len(s)] => n.next[c] = m.next[c]
      /\ s # <<>> => n.next[s[Len(s)]] = t[1]
  BY <1>1, <1>8
<1>10. \A c : In(r, c) <=> In(q, c) \/ \E k \in 1 .. Len(t) : t[k] = c
  <2>1. ASSUME NEW c, NEW k \in 1 .. Len(t), t[k] = c PROVE In(r, c)
    <3>1. u[Len(s) + k] = c /\ Len(s) + k \in 1 .. Len(u)
      BY <1>1, <1>3, <2>1
    <3> QED
      BY <1>4, <3>1 DEF In
  <2>2. ASSUME NEW c, In(q, c) PROVE In(r, c)
    <3>1. PICK k \in Manager, j \in Index : \E x \in 1 .. Len(q[k][j]) : q[k][j][x] = c
      BY <2>2 DEF In
    <3>2. CASE k = l /\ j = i
      <4>1. PICK x \in 1 .. Len(s) : s[x] = c
        BY <3>1, <3>2 DEF s
      <4>2. x \in 1 .. Len(u) /\ u[x] = c
        BY <1>1, <1>3, <4>1
      <4> QED
        BY <1>4, <4>2 DEF In
    <3>3. CASE ~(k = l /\ j = i)
      BY <1>4, <3>1, <3>3 DEF In
    <3> QED
      BY <3>2, <3>3
  <2>3. ASSUME NEW c, In(r, c) PROVE In(q, c) \/ \E k \in 1 .. Len(t) : t[k] = c
    <3>1. PICK k \in Manager, j \in Index : \E x \in 1 .. Len(r[k][j]) : r[k][j][x] = c
      BY <2>3 DEF In
    <3>2. CASE k = l /\ j = i
      <4>1. PICK x \in 1 .. Len(u) : u[x] = c
        BY <1>4, <3>1, <3>2
      <4>2. CASE x \in 1 .. Len(s)
        BY <1>3, <1>6, <4>1, <4>2
      <4>3. CASE \E y \in 1 .. Len(t) : x = Len(s) + y
        BY <1>3, <4>1, <4>3
      <4> QED
        BY <1>3, <4>2, <4>3
    <3>3. CASE ~(k = l /\ j = i)
      BY <1>4, <3>1, <3>3 DEF In
    <3> QED
      BY <3>2, <3>3
  <2> QED
    BY <2>1, <2>2, <2>3
<1>11. Kept(m, n, q)
  <2>1. s # <<>> => In(q, s[Len(s)])
    BY <1>1, <1>6
  <2> QED
    BY <1>9, <2>1 DEF Kept
<1>12. Apart(r)
  <2> SUFFICES ASSUME NEW k \in Manager, NEW k2 \in Manager, NEW j \in Index, NEW j2 \in Index,
                      NEW x \in 1 .. Len(r[k][j]), NEW x2 \in 1 .. Len(r[k2][j2]),
                      r[k][j][x] = r[k2][j2][x2]
               PROVE  k = k2 /\ j = j2 /\ x = x2
    BY DEF Apart
  <2>1. \A a \in Manager, b \in Index : \A z \in 1 .. Len(q[a][b]) : In(q, q[a][b][z])
    BY DEF In
  <2>2. \A a \in Manager, b \in Index : ~(a = l /\ b = i) =>
          \A y \in 1 .. Len(s), z \in 1 .. Len(q[a][b]) : s[y] # q[a][b][z]
    <3> SUFFICES ASSUME NEW a \in Manager, NEW b \in Index, ~(a = l /\ b = i),
                        NEW y \in 1 .. Len(q[l][i]), NEW z \in 1 .. Len(q[a][b])
                 PROVE  q[l][i][y] # q[a][b][z]
      BY DEF s
    <3> QED
      BY DEF Apart
  <2>3. \A a \in Manager, b \in Index : ~(a = l /\ b = i) =>
          \A y \in 1 .. Len(u), z \in 1 .. Len(q[a][b]) : u[y] # q[a][b][z]
    <3> SUFFICES ASSUME NEW a \in Manager, NEW b \in Index, ~(a = l /\ b = i),
                        NEW y \in 1 .. Len(u), NEW z \in 1 .. Len(q[a][b])
                 PROVE  u[y] # q[a][b][z]
      OBVIOUS
    <3>1. CASE y \in 1 .. Len(s)
      BY <1>3, <2>2, <3>1
    <3>2. CASE \E a2 \in 1 .. Len(t) : y = Len(s) + a2
      BY <1>3, <1>6, <2>1, <3>2
    <3> QED
      BY <1>3, <3>1, <3>2
  <2>4. ASSUME NEW y \in 1 .. Len(u), NEW z \in 1 .. Len(u), u[y] = u[z] PROVE y = z
    <3>1. CASE y \in 1 .. Len(s) /\ z \in 1 .. Len(s)
      BY <1>3, <1>6, <2>4, <3>1
    <3>2. CASE y \in 1 .. Len(s) /\ \E a \in 1 .. Len(t) : z = Len(s) + a
      BY <1>3, <1>6, <2>4, <3>2
    <3>3. CASE (\E a \in 1 .. Len(t) : y = Len(s) + a) /\ z \in 1 .. Len(s)
      BY <1>3, <1>6, <2>4, <3>3
    <3>4. CASE (\E a \in 1 .. Len(t) : y = Len(s) + a) /\ \E a \in 1 .. Len(t) : z = Len(s) + a
      BY <1>3, <1>6, <2>4, <3>4
    <3> QED
      BY <1>3, <3>1, <3>2, <3>3, <3>4
  <2>5. CASE k = l /\ j = i /\ k2 = l /\ j2 = i
    BY <1>4, <2>4, <2>5
  <2>6. CASE ~(k = l /\ j = i) /\ ~(k2 = l /\ j2 = i)
    <3>1. r[k][j] = q[k][j] /\ r[k2][j2] = q[k2][j2]
      BY <1>4, <2>6
    <3> QED
      BY <3>1 DEF Apart
  <2>7. CASE k = l /\ j = i /\ ~(k2 = l /\ j2 = i)
    BY <1>4, <2>3, <2>7
  <2>8. CASE ~(k = l /\ j = i) /\ k2 = l /\ j2 = i
    BY <1>4, <2>3, <2>8
  <2> QED
    BY <2>5, <2>6, <2>7, <2>8
<1>13. Holds(n, r)
  <2> SUFFICES ASSUME NEW k \in Manager, NEW j \in Index
               PROVE  Ends(n.heads[k][j], n.lasts[k][j], r[k][j]) /\ Path(n.next, r[k][j])
    BY <1>4, <1>8 DEF Holds
  <2>1. CASE ~(k = l /\ j = i)
    <3>1. Ends(n.heads[k][j], n.lasts[k][j], r[k][j]) /\ Path(m.next, q[k][j]) /\ r[k][j] = q[k][j]
      BY <1>4, <1>8, <2>1 DEF Holds
    <3>2. \A x \in 1 .. Len(q[k][j]) : q[k][j][x] \in Chunk /\ n.next[q[k][j][x]] = m.next[q[k][j][x]]
      <4>1. s # <<>> => \A x \in 1 .. Len(q[k][j]) : q[k][j][x] # s[Len(s)]
        <5>1. ASSUME s # <<>> PROVE Len(s) \in 1 .. Len(s)
          BY <1>1, <5>1
        <5> QED
          BY <2>1, <5>1 DEF Apart, s
      <4> QED
        BY <1>1, <1>9, <4>1, QueueType
    <3>3. Len(q[k][j]) \in Nat /\ (q[k][j] # <<>> => Len(q[k][j]) >= 1)
      BY <1>1, QueueType
    <3>4. ASSUME NEW x \in 1 .. Len(q[k][j]) - 1 PROVE n.next[q[k][j][x]] = q[k][j][x + 1]
      <4>1. x \in 1 .. Len(q[k][j])
        BY <3>3
      <4> QED
        BY <3>1, <3>2, <4>1 DEF Path
    <3>5. q[k][j] # <<>> => n.next[q[k][j][Len(q[k][j])]] = Null
      BY <3>1, <3>2, <3>3 DEF Path
    <3> QED
      BY <3>1, <3>4, <3>5 DEF Path
  <2>2. CASE k = l /\ j = i
    <3>1. \A y \in 1 .. Len(t) : n.next[t[y]] = m.next[t[y]]
      BY <1>1, <1>6, <1>11 DEF Kept
    <3>2. u[Len(u)] = t[Len(t)]
      <4>1. Len(t) \in 1 .. Len(t)
        BY <1>1
      <4> QED
        BY <1>3, <4>1
    <3>3. Ends(n.heads[l][i], n.lasts[l][i], u)
      <4>1. CASE s = <<>>
        BY <1>1, <1>2, <1>3, <1>8, <3>2, <4>1 DEF Ends
      <4>2. CASE s # <<>>
        BY <1>1, <1>3, <1>8, <3>2, <4>2 DEF Ends
      <4> QED
        BY <4>1, <4>2
    <3>4. n.next[u[Len(u)]] = Null
      BY <1>1, <3>1, <3>2 DEF Ready, Path
    <3>5. ASSUME NEW x \in 1 .. Len(u) - 1 PROVE n.next[u[x]] = u[x + 1]
      <4>1. CASE x < Len(s)
        <5>1. x \in 1 .. Len(s) /\ x + 1 \in 1 .. Len(s) /\ x \in 1 .. Len(s) - 1 /\ Len(s) \in 1 .. Len(s)
          BY <1>1, <4>1
        <5>2. s[x] # s[Len(s)] /\ u[x] = s[x] /\ u[x + 1] = s[x + 1] /\ s[x] \in Chunk
          BY <1>1, <1>3, <1>6, <4>1, <5>1
        <5>3. m.next[s[x]] = s[x + 1]
          BY <1>5, <5>1 DEF Path
        <5> QED
          BY <1>9, <5>2, <5>3
      <4>2. CASE x = Len(s)
        <5>1. u[x] = s[Len(s)] /\ u[x + 1] = t[1] /\ s # <<>>
          BY <1>1, <1>2, <1>3, <4>2
        <5> QED
          BY <1>9, <5>1
      <4>3. CASE x > Len(s)
        <5>1. PICK y \in 1 .. Len(t) : x = Len(s) + y
          <6>1. Len(u) \in Nat
            BY <1>1, <1>3
          <6>2. x \in 1 .. Len(u) /\ x \notin 1 .. Len(s)
            BY <1>1, <4>3, <6>1
          <6> QED
            BY <1>3, <6>2
        <5>2. y \in 1 .. Len(t) - 1 /\ y + 1 \in 1 .. Len(t) /\ x + 1 = Len(s) + (y + 1)
          BY <1>1, <1>3, <5>1
        <5>3. u[x] = t[y] /\ u[x + 1] = t[y + 1]
          BY <1>3, <5>1, <5>2
        <5>4. m.next[t[y]] = t[y + 1]
          BY <5>2 DEF Ready, Path
        <5> QED
          BY <3>1, <5>3, <5>4
      <4> QED
        BY <1>1, <1>3, <4>1, <4>2, <4>3
    <3> QED
      BY <1>4, <2>2, <3>3, <3>4, <3>5 DEF Path
  <2> QED
    BY <2>1, <2>2
<1> QED
  BY <1>10, <1>11, <1>12, <1>13 DEF Added

\* A list with a head has a last chunk too.
LEMMA QueueEnds ==
  ASSUME NEW m, NEW q, Holds(m, q), NEW l \in Manager, NEW i \in Index
  PROVE  /\ m \in Mem /\ q \in Queues
         /\ q[l][i] = <<>> <=> m.heads[l][i] = Null
         /\ q[l][i] = <<>> <=> m.lasts[l][i] = Null
         /\ q[l][i] # <<>> => m.heads[l][i] = q[l][i][1] /\ m.heads[l][i] \in Chunk
         /\ q[l][i] # <<>> => m.lasts[l][i] = q[l][i][Len(q[l][i])] /\ m.lasts[l][i] \in Chunk
<1>1. m \in Mem /\ q \in Queues /\ Ends(m.heads[l][i], m.lasts[l][i], q[l][i])
  BY DEF Holds
<1>2. CASE q[l][i] = <<>>
  BY <1>1, <1>2 DEF Ends
<1>3. CASE q[l][i] # <<>>
  <2>1. q[l][i][1] \in Chunk /\ q[l][i][Len(q[l][i])] \in Chunk
    BY <1>1, <1>3, QueueType
  <2> QED
    BY <1>1, <1>3, <2>1, MemoryLinkedListAssumption DEF Ends
<1> QED
  BY <1>1, <1>2, <1>3

\* push of a loose chunk is append of a chain of one.
LEMMA PushGood ==
  ASSUME NEW m, NEW q, Good(m, q), NEW l \in Manager, NEW i \in Index,
         NEW c \in Chunk, ~In(q, c),
         NEW u, Joined(q[l][i], <<c>>, u), NEW r, Replaced(q, r, l, i, u)
  PROVE  Good(push(m, l, i, c), r) /\ \A d : In(r, d) <=> In(q, d) \/ d = c
<1> DEFINE t == <<c>>
           n == push(m, l, i, c)
<1>1. t \in Seq(Chunk) /\ t # <<>> /\ Len(t) = 1 /\ t[1] = c
  OBVIOUS
<1> HIDE DEF t
<1>2. Ready(m, q, t)
  BY <1>1 DEF Ready, Path, Good, Loose
<1>3. Appended(m, n, l, i, t[1], t[Len(t)])
  <2>1. m \in Mem /\ (m.heads[l][i] # Null => m.lasts[l][i] \in Chunk)
    BY QueueEnds DEF Good
  <2> QED
    BY <1>1, <2>1, AppendFields DEF push
<1> HIDE DEF n
<1>4. Holds(m, q) /\ Apart(q) /\ Joined(q[l][i], t, u)
  BY DEF Good, t
<1>5. Holds(n, r) /\ Apart(r) /\ Added(q, r, t) /\ Kept(m, n, q)
  BY <1>2, <1>3, <1>4, AppendHolds
<1>6. \A d : In(r, d) <=> In(q, d) \/ d = c
  BY <1>1, <1>5 DEF Added
<1> QED
  BY <1>5, <1>6 DEF Good, Loose, Kept, n

\* The list is emptied and its chunks are left in a chain.
Emptied(m, n, l, i) ==
  /\ n \in Mem
  /\ n.heads[l][i] = Null /\ n.lasts[l][i] = Null
  /\ \A c \in Chunk : n.next[c] = m.next[c]
  /\ \A k \in Manager, j \in Index : ~(k = l /\ j = i) =>
       n.heads[k][j] = m.heads[k][j] /\ n.lasts[k][j] = m.lasts[k][j]

LEMMA EmptyHolds ==
  ASSUME NEW m, NEW q, Holds(m, q), Apart(q), NEW l \in Manager, NEW i \in Index,
         q[l][i] # <<>>, NEW n, Emptied(m, n, l, i), NEW r, Replaced(q, r, l, i, <<>>)
  PROVE  /\ Holds(n, r) /\ Apart(r) /\ Ready(n, r, q[l][i])
         /\ \A c : In(q, c) <=> In(r, c) \/ \E k \in 1 .. Len(q[l][i]) : q[l][i][k] = c
<1>1. /\ r \in Queues /\ r[l][i] = <<>> /\ Len(r[l][i]) = 0
      /\ \A k \in Manager, j \in Index : ~(k = l /\ j = i) => r[k][j] = q[k][j]
  BY EmptySeq DEF Replaced
<1>2. \A k \in Manager, j \in Index : Path(n.next, q[k][j])
  <2> SUFFICES ASSUME NEW k \in Manager, NEW j \in Index PROVE Path(n.next, q[k][j])
    OBVIOUS
  <2>1. /\ Path(m.next, q[k][j])
        /\ Len(q[k][j]) \in Nat /\ (q[k][j] # <<>> => Len(q[k][j]) >= 1)
        /\ \A x \in 1 .. Len(q[k][j]) : q[k][j][x] \in Chunk
    BY QueueType DEF Holds
  <2>2. \A x \in 1 .. Len(q[k][j]) : n.next[q[k][j][x]] = m.next[q[k][j][x]]
    BY <2>1 DEF Emptied
  <2> QED
    BY <2>1, <2>2 DEF Path
<1>3. Holds(n, r)
  <2> SUFFICES ASSUME NEW k \in Manager, NEW j \in Index
               PROVE  Ends(n.heads[k][j], n.lasts[k][j], r[k][j]) /\ Path(n.next, r[k][j])
    BY <1>1 DEF Holds, Emptied
  <2>1. CASE ~(k = l /\ j = i)
    BY <1>1, <1>2, <2>1 DEF Holds, Emptied
  <2>2. CASE k = l /\ j = i
    BY <1>1, <2>2 DEF Emptied, Ends, Path
  <2> QED
    BY <2>1, <2>2
<1>4. Apart(r)
  <2> SUFFICES ASSUME NEW k \in Manager, NEW k2 \in Manager, NEW j \in Index, NEW j2 \in Index,
                      NEW x \in 1 .. Len(r[k][j]), NEW x2 \in 1 .. Len(r[k2][j2]),
                      r[k][j][x] = r[k2][j2][x2]
               PROVE  k = k2 /\ j = j2 /\ x = x2
    BY DEF Apart
  <2>1. r[k][j] = q[k][j] /\ r[k2][j2] = q[k2][j2]
    BY <1>1
  <2> QED
    BY <2>1 DEF Apart
<1>5. \A x \in 1 .. Len(q[l][i]) : ~In(r, q[l][i][x])
  <2> SUFFICES ASSUME NEW x \in 1 .. Len(q[l][i]), In(r, q[l][i][x]) PROVE FALSE
    OBVIOUS
  <2>1. PICK k \in Manager, j \in Index : \E y \in 1 .. Len(r[k][j]) : r[k][j][y] = q[l][i][x]
    BY DEF In
  <2>2. ~(k = l /\ j = i) /\ r[k][j] = q[k][j]
    BY <1>1, <2>1
  <2> QED
    BY <2>1, <2>2 DEF Apart
<1>6. Ready(n, r, q[l][i])
  <2>1. q[l][i] \in Seq(Chunk)
    BY QueueType DEF Holds
  <2>2. \A x, y \in 1 .. Len(q[l][i]) : q[l][i][x] = q[l][i][y] => x = y
    BY DEF Apart
  <2> QED
    BY <1>2, <1>5, <2>1, <2>2 DEF Ready
<1>7. ASSUME NEW c
      PROVE  In(q, c) <=> In(r, c) \/ \E k \in 1 .. Len(q[l][i]) : q[l][i][k] = c
  BY <1>1 DEF In
<1> QED
  BY <1>3, <1>4, <1>6, <1>7

\* What pop changes of the pointers.
Popped(m, n, l, i) ==
  /\ n \in Mem
  /\ n.heads[l][i] = m.next[m.heads[l][i]]
  /\ n.lasts[l][i] = IF m.next[m.heads[l][i]] = Null THEN Null ELSE m.lasts[l][i]
  /\ \A c \in Chunk : n.next[c] = IF c = m.heads[l][i] THEN Null ELSE m.next[c]
  /\ \A k \in Manager, j \in Index : ~(k = l /\ j = i) =>
       n.heads[k][j] = m.heads[k][j] /\ n.lasts[k][j] = m.lasts[k][j]

LEMMA PopFields ==
  ASSUME NEW m \in Mem, NEW l \in Manager, NEW i \in Index, m.heads[l][i] \in Chunk
  PROVE  Popped(m, pop(m, l, i), l, i)
<1>1. CASE m.next[m.heads[l][i]] = Null
  BY <1>1 DEF pop, Mem, PointerTable, Popped
<1>2. CASE m.next[m.heads[l][i]] # Null
  <2> DEFINE n == pop(m, l, i)
  <2>1. n = [m EXCEPT !.next[m.heads[l][i]] = Null,
                      !.lasts[l][i] = m.lasts[l][i],
                      !.heads[l][i] = m.next[m.heads[l][i]]]
    BY <1>2 DEF pop
  <2>2. m.heads[l] \in [Index -> Chunk \cup {Null}] /\ m.lasts[l] \in [Index -> Chunk \cup {Null}]
    BY DEF Mem, PointerTable
  <2>3. m.next[m.heads[l][i]] \in Chunk
    BY <1>2 DEF Mem
  <2> HIDE DEF n
  <2>4. /\ n \in Mem
        /\ n.heads = [m.heads EXCEPT ![l][i] = m.next[m.heads[l][i]]]
        /\ n.lasts = [m.lasts EXCEPT ![l][i] = m.lasts[l][i]]
        /\ n.next = [m.next EXCEPT ![m.heads[l][i]] = Null]
    BY <2>1, <2>2, <2>3 DEF Mem, PointerTable
  <2>5. Popped(m, n, l, i)
    BY <1>2, <2>2, <2>3, <2>4 DEF Popped, Mem, PointerTable
  <2> QED
    BY <2>5 DEF n
<1> QED
  BY <1>1, <1>2

\* u is s without its head.
Rest(s, u) ==
  /\ u \in Seq(Chunk) /\ Len(u) = Len(s) - 1
  /\ \A k \in 1 .. Len(u) : u[k] = s[k + 1]

\* The queues r have lost c.
Removed(q, r, c) == \A d : In(r, d) <=> In(q, d) /\ d # c

\* pop takes the head of the queue and leaves it loose.
LEMMA PopGood ==
  ASSUME NEW m, NEW q, Good(m, q), NEW l \in Manager, NEW i \in Index, q[l][i] # <<>>,
         NEW u, Rest(q[l][i], u), NEW r, Replaced(q, r, l, i, u)
  PROVE  /\ m.heads[l][i] = q[l][i][1] /\ q[l][i][1] \in Chunk
         /\ Good(pop(m, l, i), r)
         /\ Removed(q, r, q[l][i][1])
<1> DEFINE s == q[l][i]
           n == pop(m, l, i)
<1>1. /\ m \in Mem /\ q \in Queues /\ Len(s) \in Nat /\ Len(s) >= 1
      /\ \A k \in 1 .. Len(s) : s[k] \in Chunk
  BY QueueType DEF Good, Holds
<1>2. /\ m.heads[l][i] = s[1] /\ s[1] \in Chunk /\ m.lasts[l][i] = s[Len(s)]
      /\ \A k \in 1 .. Len(s) - 1 : m.next[s[k]] = s[k + 1]
      /\ m.next[s[Len(s)]] = Null
  BY <1>1 DEF Good, Holds, Ends, Path
<1>3. Popped(m, n, l, i)
  BY <1>1, <1>2, PopFields
<1> HIDE DEF n
<1>4. /\ r \in Queues /\ r[l][i] = u
      /\ \A k \in Manager, j \in Index : ~(k = l /\ j = i) => r[k][j] = q[k][j]
  BY DEF Replaced
<1>5. /\ u \in Seq(Chunk) /\ Len(u) = Len(s) - 1 /\ (u # <<>> => Len(u) >= 1) /\ (u = <<>> => Len(u) = 0)
      /\ \A k \in 1 .. Len(u) : u[k] = s[k + 1] /\ k + 1 \in 1 .. Len(s) /\ k \in 1 .. Len(s)
  <2>1. /\ u \in Seq(Chunk) /\ Len(u) = Len(s) - 1
        /\ \A k \in 1 .. Len(u) : u[k] = s[k + 1]
    BY DEF Rest
  <2> HIDE DEF s
  <2>2. (u # <<>> => Len(u) >= 1) /\ (u = <<>> => Len(u) = 0)
    BY <2>1, EmptySeq
  <2> QED
    BY <1>1, <2>1, <2>2
<1>6. /\ \A k \in Manager, j \in Index : ~(k = l /\ j = i) =>
           \A y \in 1 .. Len(s), z \in 1 .. Len(q[k][j]) : s[y] # q[k][j][z]
      /\ \A y, z \in 1 .. Len(s) : s[y] = s[z] => y = z
  <2>1. ASSUME NEW k \in Manager, NEW j \in Index, ~(k = l /\ j = i),
               NEW y \in 1 .. Len(q[l][i]), NEW z \in 1 .. Len(q[k][j])
        PROVE  q[l][i][y] # q[k][j][z]
    BY <2>1 DEF Good, Apart
  <2>2. \A y, z \in 1 .. Len(q[l][i]) : q[l][i][y] = q[l][i][z] => y = z
    BY DEF Good, Apart
  <2> QED
    BY <2>1, <2>2
<1>7. \A k \in Manager, j \in Index : ~(k = l /\ j = i) =>
        \A z \in 1 .. Len(q[k][j]) : q[k][j][z] # s[1]
  <2>1. 1 \in 1 .. Len(s)
    BY <1>1
  <2> QED
    BY <1>6, <2>1
<1>8. \A k \in 1 .. Len(u) : u[k] # s[1]
  <2> SUFFICES ASSUME NEW k \in 1 .. Len(u), u[k] = s[1] PROVE FALSE
    OBVIOUS
  <2>1. k + 1 \in 1 .. Len(s) /\ 1 \in 1 .. Len(s) /\ s[k + 1] = s[1]
    BY <1>1, <1>5
  <2>2. k + 1 = 1
    BY <1>6, <2>1
  <2> QED
    BY <2>2
<1>9. \A c : In(r, c) <=> In(q, c) /\ c # s[1]
  <2>1. ASSUME NEW c, In(r, c) PROVE In(q, c) /\ c # s[1]
    <3>1. PICK k \in Manager, j \in Index : \E y \in 1 .. Len(r[k][j]) : r[k][j][y] = c
      BY <2>1 DEF In
    <3>2. CASE k = l /\ j = i
      <4>1. PICK y \in 1 .. Len(u) : u[y] = c
        BY <1>4, <3>1, <3>2
      <4> QED
        BY <1>5, <1>8, <4>1 DEF In
    <3>3. CASE ~(k = l /\ j = i)
      BY <1>4, <1>7, <3>1, <3>3 DEF In
    <3> QED
      BY <3>2, <3>3
  <2>2. ASSUME NEW c, In(q, c), c # s[1] PROVE In(r, c)
    <3>1. PICK k \in Manager, j \in Index : \E y \in 1 .. Len(q[k][j]) : q[k][j][y] = c
      BY <2>2 DEF In
    <3>2. CASE k = l /\ j = i
      <4>1. PICK y \in 1 .. Len(s) : s[y] = c
        BY <3>1, <3>2
      <4>2. y # 1 /\ y - 1 \in 1 .. Len(u) /\ (y - 1) + 1 = y
        BY <1>1, <1>5, <2>2, <4>1
      <4>3. u[y - 1] = c
        BY <1>5, <4>1, <4>2
      <4> QED
        BY <1>4, <4>2, <4>3 DEF In
    <3>3. CASE ~(k = l /\ j = i)
      BY <1>4, <3>1, <3>3 DEF In
    <3> QED
      BY <3>2, <3>3
  <2> QED
    BY <2>1, <2>2
<1>10. Apart(r)
  <2> SUFFICES ASSUME NEW k \in Manager, NEW k2 \in Manager, NEW j \in Index, NEW j2 \in Index,
                      NEW x \in 1 .. Len(r[k][j]), NEW x2 \in 1 .. Len(r[k2][j2]),
                      r[k][j][x] = r[k2][j2][x2]
               PROVE  k = k2 /\ j = j2 /\ x = x2
    BY DEF Apart
  <2>1. CASE k = l /\ j = i /\ k2 = l /\ j2 = i
    <3>1. x \in 1 .. Len(u) /\ x2 \in 1 .. Len(u) /\ u[x] = u[x2]
      BY <1>4, <2>1
    <3>2. x + 1 = x2 + 1
      BY <1>5, <1>6, <3>1
    <3> QED
      BY <2>1, <3>1, <3>2
  <2>2. CASE ~(k = l /\ j = i) /\ ~(k2 = l /\ j2 = i)
    <3>1. r[k][j] = q[k][j] /\ r[k2][j2] = q[k2][j2]
      BY <1>4, <2>2
    <3> QED
      BY <3>1 DEF Good, Apart
  <2>3. CASE k = l /\ j = i /\ ~(k2 = l /\ j2 = i)
    <3>1. x \in 1 .. Len(u) /\ x2 \in 1 .. Len(q[k2][j2]) /\ u[x] = q[k2][j2][x2]
      BY <1>4, <2>3
    <3> QED
      BY <1>5, <1>6, <2>3, <3>1
  <2>4. CASE ~(k = l /\ j = i) /\ k2 = l /\ j2 = i
    <3>1. x2 \in 1 .. Len(u) /\ x \in 1 .. Len(q[k][j]) /\ u[x2] = q[k][j][x]
      BY <1>4, <2>4
    <3> QED
      BY <1>5, <1>6, <2>4, <3>1
  <2> QED
    BY <2>1, <2>2, <2>3, <2>4
<1>11. Holds(n, r)
  <2> SUFFICES ASSUME NEW k \in Manager, NEW j \in Index
               PROVE  Ends(n.heads[k][j], n.lasts[k][j], r[k][j]) /\ Path(n.next, r[k][j])
    BY <1>3, <1>4 DEF Holds, Popped
  <2>1. CASE ~(k = l /\ j = i)
    <3>1. Ends(n.heads[k][j], n.lasts[k][j], r[k][j]) /\ Path(m.next, q[k][j]) /\ r[k][j] = q[k][j]
      BY <1>3, <1>4, <2>1 DEF Good, Holds, Popped
    <3>2. /\ Len(q[k][j]) \in Nat /\ (q[k][j] # <<>> => Len(q[k][j]) >= 1)
          /\ \A x \in 1 .. Len(q[k][j]) : q[k][j][x] \in Chunk
      BY <1>1, QueueType
    <3>3. \A x \in 1 .. Len(q[k][j]) : n.next[q[k][j][x]] = m.next[q[k][j][x]]
      BY <1>2, <1>3, <1>7, <2>1, <3>2 DEF Popped
    <3>4. ASSUME NEW x \in 1 .. Len(q[k][j]) - 1 PROVE n.next[q[k][j][x]] = q[k][j][x + 1]
      <4>1. x \in 1 .. Len(q[k][j])
        BY <3>2
      <4> QED
        BY <3>1, <3>3, <4>1 DEF Path
    <3>5. q[k][j] # <<>> => n.next[q[k][j][Len(q[k][j])]] = Null
      BY <3>1, <3>2, <3>3 DEF Path
    <3> QED
      BY <3>1, <3>4, <3>5 DEF Path
  <2>2. CASE k = l /\ j = i
    <3>1. \A x \in 1 .. Len(u) : u[x] \in Chunk /\ n.next[u[x]] = m.next[u[x]]
      BY <1>1, <1>2, <1>3, <1>5, <1>8 DEF Popped
    <3>2. CASE u = <<>>
      <4>1. Len(s) = 1 /\ m.next[s[1]] = Null
        BY <1>1, <1>2, <1>5, <3>2
      <4>2. n.heads[l][i] = Null /\ n.lasts[l][i] = Null
        BY <1>2, <1>3, <4>1 DEF Popped
      <4> QED
        BY <1>4, <1>5, <2>2, <3>2, <4>2 DEF Ends, Path
    <3>3. CASE u # <<>>
      <4>1. /\ Len(u) \in Nat /\ Len(u) >= 1 /\ Len(s) = Len(u) + 1
            /\ 1 \in 1 .. Len(u) /\ Len(u) \in 1 .. Len(u) /\ 1 \in 1 .. Len(s) - 1
        BY <1>1, <1>5, <3>3
      <4>2. u[1] = s[1 + 1] /\ u[Len(u)] = s[Len(u) + 1] /\ m.next[s[1]] = s[1 + 1]
        BY <1>2, <1>5, <4>1
      <4>a. u[Len(u)] = s[Len(s)] /\ m.next[s[1]] = u[1]
        BY <4>1, <4>2
      <4>b. u[1] # Null
        BY <3>1, <4>1, MemoryLinkedListAssumption
      <4>3. n.heads[l][i] = u[1] /\ n.lasts[l][i] = u[Len(u)]
        BY <1>2, <1>3, <4>a, <4>b DEF Popped
      <4>4. n.next[u[Len(u)]] = Null
        BY <1>2, <3>1, <4>1, <4>a
      <4>5. ASSUME NEW x \in 1 .. Len(u) - 1 PROVE n.next[u[x]] = u[x + 1]
        <5>1. x \in 1 .. Len(u) /\ x + 1 \in 1 .. Len(u) /\ x + 1 \in 1 .. Len(s) - 1
          BY <4>1
        <5>2. u[x] = s[x + 1] /\ u[x + 1] = s[(x + 1) + 1] /\ m.next[s[x + 1]] = s[(x + 1) + 1]
          BY <1>2, <1>5, <5>1
        <5> QED
          BY <3>1, <5>1, <5>2
      <4> QED
        BY <1>4, <2>2, <3>3, <4>3, <4>4, <4>5 DEF Ends, Path
    <3> QED
      BY <3>2, <3>3
  <2> QED
    BY <2>1, <2>2
<1>12. Loose(n, r)
  <2> SUFFICES ASSUME NEW c \in Chunk, ~In(r, c) PROVE n.next[c] = Null
    BY DEF Loose
  <2>1. ~In(q, c) \/ c = s[1]
    BY <1>9
  <2> QED
    BY <1>2, <1>3, <2>1 DEF Popped, Good, Loose
<1> QED
  BY <1>2, <1>9, <1>10, <1>11, <1>12 DEF Good, Removed, n
-----------------------------------------------------------------------------
(* SwapLists.                                                              *)

Swapped(q, r, a, b, i) ==
  /\ r \in Queues
  /\ r[a][i] = q[b][i] /\ r[b][i] = q[a][i]
  /\ \A k \in Manager, j \in Index : ~(k \in {a, b} /\ j = i) => r[k][j] = q[k][j]

\* One entry of a table is replaced.
LEMMA TableExcept ==
  ASSUME NEW T, NEW h \in [Manager -> [Index -> T]],
         NEW a \in Manager, NEW i \in Index, NEW x \in T
  PROVE  /\ [h EXCEPT ![a][i] = x] \in [Manager -> [Index -> T]]
         /\ [h EXCEPT ![a][i] = x][a][i] = x
         /\ \A k \in Manager, j \in Index :
              ~(k = a /\ j = i) => [h EXCEPT ![a][i] = x][k][j] = h[k][j]
OBVIOUS

\* Two entries of a table are replaced.
Exchanged(T, h, g, a, b, i, x, y) ==
  /\ g \in [Manager -> [Index -> T]]
  /\ g[a][i] = x /\ g[b][i] = y
  /\ \A k \in Manager, j \in Index : ~(k \in {a, b} /\ j = i) => g[k][j] = h[k][j]

LEMMA SwapTable ==
  ASSUME NEW T, NEW h \in [Manager -> [Index -> T]],
         NEW a \in Manager, NEW b \in Manager \ {a}, NEW i \in Index, NEW x \in T, NEW y \in T
  PROVE  Exchanged(T, h, [h EXCEPT ![a][i] = x, ![b][i] = y], a, b, i, x, y)
<1> DEFINE f == [h EXCEPT ![a][i] = x]
           g == [f EXCEPT ![b][i] = y]
<1>1. /\ f \in [Manager -> [Index -> T]] /\ f[a][i] = x
      /\ \A k \in Manager, j \in Index : ~(k = a /\ j = i) => f[k][j] = h[k][j]
  BY TableExcept
<1>2. Exchanged(T, h, g, a, b, i, x, y)
  <2> HIDE DEF f
  <2>1. /\ g \in [Manager -> [Index -> T]] /\ g[b][i] = y
        /\ \A k \in Manager, j \in Index : ~(k = b /\ j = i) => g[k][j] = f[k][j]
    BY <1>1, TableExcept
  <2> HIDE DEF g
  <2>2. g[a][i] = x /\ g[b][i] = y
    BY <1>1, <2>1
  <2>3. \A k \in Manager, j \in Index : ~(k \in {a, b} /\ j = i) => g[k][j] = h[k][j]
    BY <1>1, <2>1
  <2> QED
    BY <2>1, <2>2, <2>3 DEF Exchanged
<1> QED
  BY <1>2

LEMMA SwapGood ==
  ASSUME NEW m, NEW q, Good(m, q), NEW a \in Manager, NEW b \in Manager \ {a}, NEW i \in Index,
         NEW r, Swapped(q, r, a, b, i)
  PROVE  Good(SwapLists(m, a, b, i), r) /\ \A c : In(r, c) <=> In(q, c)
<1> DEFINE other(k, j) == IF j = i /\ k = a THEN b ELSE IF j = i /\ k = b THEN a ELSE k
           n == SwapLists(m, a, b, i)
<1>1. /\ \A k \in Manager, j \in Index : other(k, j) \in Manager /\ r[k][j] = q[other(k, j)][j]
      /\ \A k, k2 \in Manager, j \in Index : other(k, j) = other(k2, j) => k = k2
      /\ \A k \in Manager, j \in Index : \E k2 \in Manager : k = other(k2, j)
  BY DEF Swapped
<1>2. /\ n \in Mem /\ n.next = m.next
      /\ \A k \in Manager, j \in Index :
           n.heads[k][j] = m.heads[other(k, j)][j] /\ n.lasts[k][j] = m.lasts[other(k, j)][j]
  <2>1. /\ m.heads \in PointerTable /\ m.lasts \in PointerTable
        /\ m.next \in [Chunk -> Chunk \cup {Null}]
        /\ m = [heads |-> m.heads, lasts |-> m.lasts, next |-> m.next]
    BY DEF Good, Holds, Mem
  <2> DEFINE h == [m.heads EXCEPT ![a][i] = m.heads[b][i], ![b][i] = m.heads[a][i]]
             p == [m.lasts EXCEPT ![a][i] = m.lasts[b][i], ![b][i] = m.lasts[a][i]]
  <2>2. n = [heads |-> h, lasts |-> p, next |-> m.next]
    <3>1. n = [m EXCEPT !.heads = h, !.lasts = p]
      BY DEF SwapLists
    <3> HIDE DEF h, p, n
    <3> QED
      BY <2>1, <3>1
  <2>3. h \in PointerTable /\ \A k \in Manager, j \in Index : h[k][j] = m.heads[other(k, j)][j]
    <3>1. Exchanged(Chunk \cup {Null}, m.heads, h, a, b, i, m.heads[b][i], m.heads[a][i])
      <4>1. /\ m.heads \in [Manager -> [Index -> Chunk \cup {Null}]]
            /\ m.heads[a][i] \in Chunk \cup {Null} /\ m.heads[b][i] \in Chunk \cup {Null}
        BY <2>1 DEF PointerTable
      <4> QED
        BY <4>1, SwapTable
    <3> HIDE DEF h
    <3> QED
      BY <3>1 DEF Exchanged, PointerTable
  <2>4. p \in PointerTable /\ \A k \in Manager, j \in Index : p[k][j] = m.lasts[other(k, j)][j]
    <3>1. Exchanged(Chunk \cup {Null}, m.lasts, p, a, b, i, m.lasts[b][i], m.lasts[a][i])
      <4>1. /\ m.lasts \in [Manager -> [Index -> Chunk \cup {Null}]]
            /\ m.lasts[a][i] \in Chunk \cup {Null} /\ m.lasts[b][i] \in Chunk \cup {Null}
        BY <2>1 DEF PointerTable
      <4> QED
        BY <4>1, SwapTable
    <3> HIDE DEF p
    <3> QED
      BY <3>1 DEF Exchanged, PointerTable
  <2> HIDE DEF n, h, p
  <2> QED
    BY <2>1, <2>2, <2>3, <2>4 DEF Mem
<1> HIDE DEF other, n
<1>3. \A c : In(r, c) <=> In(q, c)
  <2>1. ASSUME NEW c, In(r, c) PROVE In(q, c)
    <3>1. PICK k \in Manager, j \in Index : \E x \in 1 .. Len(r[k][j]) : r[k][j][x] = c
      BY <2>1 DEF In
    <3>2. PICK k2 \in Manager : r[k][j] = q[k2][j]
      BY <1>1
    <3> QED
      BY <3>1, <3>2 DEF In
  <2>2. ASSUME NEW c, In(q, c) PROVE In(r, c)
    <3>1. PICK k \in Manager, j \in Index : \E x \in 1 .. Len(q[k][j]) : q[k][j][x] = c
      BY <2>2 DEF In
    <3>2. PICK k2 \in Manager : k = other(k2, j)
      BY <1>1
    <3>3. r[k2][j] = q[k][j]
      BY <1>1, <3>2
    <3> QED
      BY <3>1, <3>3 DEF In
  <2> QED
    BY <2>1, <2>2
<1>4. Holds(n, r)
  BY <1>1, <1>2 DEF Good, Holds, Swapped
<1>5. Apart(r)
  <2> SUFFICES ASSUME NEW k \in Manager, NEW k2 \in Manager, NEW j \in Index, NEW j2 \in Index,
                      NEW x \in 1 .. Len(r[k][j]), NEW x2 \in 1 .. Len(r[k2][j2]),
                      r[k][j][x] = r[k2][j2][x2]
               PROVE  k = k2 /\ j = j2 /\ x = x2
    BY DEF Apart
  <2>1. /\ r[k][j] = q[other(k, j)][j] /\ r[k2][j2] = q[other(k2, j2)][j2]
        /\ other(k, j) \in Manager /\ other(k2, j2) \in Manager
    BY <1>1
  <2>2. other(k, j) = other(k2, j2) /\ j = j2 /\ x = x2
    BY <2>1 DEF Good, Apart
  <2> QED
    BY <1>1, <2>2
<1>6. Loose(n, r)
  BY <1>2, <1>3 DEF Good, Loose
<1> QED
  BY <1>3, <1>4, <1>5, <1>6 DEF Good, n

-----------------------------------------------------------------------------
(* Join.                                                                   *)

\* The last index of a set.
Top(S) == CHOOSE i \in S : \A j \in S : j <= i

LEMMA TopIs ==
  ASSUME NEW S \in SUBSET Index, S # {}
  PROVE  Top(S) \in S
<1> DEFINE E == {n \in Nat : \A T \in SUBSET Index :
                   Cardinality(T) = n + 1 => \E i \in T : \A j \in T : j <= i}
<1>1. 0 \in E
  <2> SUFFICES ASSUME NEW T \in SUBSET Index, Cardinality(T) = 1
               PROVE  \E i \in T : \A j \in T : j <= i
    OBVIOUS
  <2>1. PICK x : T = {x}
    BY FS_Subset, FS_Singleton, MemoryLinkedListAssumption
  <2> QED
    BY <2>1, MemoryLinkedListAssumption
<1>2. ASSUME NEW n \in Nat, n \in E PROVE n + 1 \in E
  <2> SUFFICES ASSUME NEW T \in SUBSET Index, Cardinality(T) = (n + 1) + 1
               PROVE  \E i \in T : \A j \in T : j <= i
    OBVIOUS
  <2>1. IsFiniteSet(T)
    BY FS_Subset, MemoryLinkedListAssumption
  <2>2. PICK x \in T : TRUE
    BY FS_EmptySet
  <2>3. T \ {x} \in SUBSET Index /\ Cardinality(T \ {x}) = n + 1
    <3>1. Cardinality(T \ {x}) = Cardinality(T) - 1
      BY <2>1, <2>2, FS_RemoveElement
    <3> QED
      BY <3>1
  <2>4. PICK y \in T \ {x} : \A j \in T \ {x} : j <= y
    BY <1>2, <2>3
  <2>5. x \in Nat /\ y \in Nat /\ \A j \in T : j \in Nat
    BY MemoryLinkedListAssumption
  <2>6. CASE x <= y
    BY <2>4, <2>5, <2>6
  <2>7. CASE ~(x <= y)
    <3>1. \A j \in T : j <= x
      BY <2>4, <2>5, <2>7
    <3> QED
      BY <3>1
  <2> QED
    BY <2>6, <2>7
<1> HIDE DEF E
<1>3. Nat \subseteq E
  BY <1>1, <1>2, Induction
<1>4. IsFiniteSet(S) /\ Cardinality(S) \in Nat /\ Cardinality(S) # 0
  BY FS_Subset, FS_CardinalityType, FS_EmptySet, MemoryLinkedListAssumption
<1>5. Cardinality(S) - 1 \in E /\ Cardinality(S) = (Cardinality(S) - 1) + 1
  BY <1>3, <1>4
<1>6. \E i \in S : \A j \in S : j <= i
  BY <1>5 DEF E
<1> QED
  BY <1>6 DEF Top

JoinTurn(p, to, from, i) == IF p.heads[from][i] = Null THEN p ELSE JoinClass(p, to, from, i)

JoinBody(m, to, from, w, S) ==
  IF S = {} THEN m ELSE JoinTurn(w[S \ {Top(S)}], to, from, Top(S))

\* The recursive function of JoinLists.
IsJoinWalk(m, to, from, w) ==
  /\ w = [S \in SUBSET Index |-> JoinBody(m, to, from, w, S)]
  /\ JoinLists(m, to, from) = w[Index]

LEMMA JoinWalk ==
  ASSUME NEW m, NEW to, NEW from
  PROVE  \E w : IsJoinWalk(m, to, from, w)
<1> DEFINE Body(w, S) == JoinBody(m, to, from, w, S)
           D(n) == {S \in SUBSET Index : Cardinality(S) <= n}
           E == {n \in Nat : \E w : w = [S \in D(n) |-> Body(w, S)]}
<1>a. \A S \in SUBSET Index : IsFiniteSet(S) /\ Cardinality(S) \in Nat /\ (Cardinality(S) = 0 => S = {})
  BY FS_Subset, FS_CardinalityType, FS_EmptySet, MemoryLinkedListAssumption
<1>b. \A S \in SUBSET Index : S # {} =>
        S \ {Top(S)} \in SUBSET Index /\ Cardinality(S \ {Top(S)}) = Cardinality(S) - 1
  BY <1>a, TopIs, FS_RemoveElement
<1>1. 0 \in E
  <2> DEFINE w == [S \in D(0) |-> m]
  <2>1. \A S \in D(0) : S = {}
    BY <1>a
  <2>2. \A S \in D(0) : Body(w, S) = m
    BY <2>1 DEF JoinBody
  <2>3. w = [S \in D(0) |-> Body(w, S)]
    BY <2>2
  <2> HIDE DEF w
  <2> QED
    BY <2>3
<1>2. ASSUME NEW n \in Nat, n \in E PROVE n + 1 \in E
  <2>1. PICK f : f = [S \in D(n) |-> Body(f, S)]
    BY <1>2
  <2> DEFINE g == [S \in D(n + 1) |-> IF S \in D(n) THEN f[S] ELSE Body(f, S)]
  <2>2. \A S \in D(n + 1) : S # {} => S \ {Top(S)} \in D(n) /\ S \ {Top(S)} \in D(n + 1)
    BY <1>a, <1>b
  <2>3. \A S \in D(n + 1) : S # {} => g[S \ {Top(S)}] = f[S \ {Top(S)}]
    BY <2>2
  <2>4. \A S \in D(n + 1) : Body(g, S) = Body(f, S)
    <3> HIDE DEF g
    <3> QED
      BY <2>3 DEF JoinBody
  <2>5. \A S \in D(n + 1) : g[S] = Body(f, S)
    <3> HIDE DEF D, Body
    <3>1. \A S \in D(n) : f[S] = Body(f, S)
      BY <2>1
    <3> QED
      BY <3>1
  <2>6. g = [S \in D(n + 1) |-> Body(g, S)]
    <3> HIDE DEF D, Body
    <3> QED
      BY <2>4, <2>5
  <2> HIDE DEF g
  <2> QED
    BY <2>6
<1>3. D(Cardinality(Index)) = SUBSET Index
  BY <1>a, FS_Subset, MemoryLinkedListAssumption
<1>4. \E w : w = [S \in SUBSET Index |-> Body(w, S)]
  <2>1. Cardinality(Index) \in E
    <3> HIDE DEF E
    <3> QED
      BY <1>1, <1>2, <1>a, Induction
  <2> HIDE DEF D
  <2> QED
    BY <1>3, <2>1
<1> DEFINE Is(w) == w = [S \in SUBSET Index |-> Body(w, S)]
<1>5. JoinLists(m, to, from) = (CHOOSE w : Is(w))[Index]
  BY DEF JoinLists, JoinBody, JoinTurn, Top
<1>6. Is(CHOOSE w : Is(w))
  BY <1>4
<1> HIDE DEF Is
<1>7. \E w : Is(w) /\ JoinLists(m, to, from) = w[Index]
  BY <1>5, <1>6
<1> QED
  BY <1>7 DEF Is, IsJoinWalk

LEMMA EmptyFields ==
  ASSUME NEW m \in Mem, NEW l \in Manager, NEW i \in Index
  PROVE  Emptied(m, [m EXCEPT !.heads[l][i] = Null, !.lasts[l][i] = Null], l, i)
<1> DEFINE h == [m.heads EXCEPT ![l][i] = Null]
           p == [m.lasts EXCEPT ![l][i] = Null]
           n == [m EXCEPT !.heads[l][i] = Null, !.lasts[l][i] = Null]
<1>a. m.heads \in PointerTable /\ m.lasts \in PointerTable /\ Null \in Chunk \cup {Null}
  BY DEF Mem
<1>1. n.heads = h /\ n.lasts = p /\ n.next = m.next /\ n = [heads |-> h, lasts |-> p, next |-> m.next]
  <2>1. n = [m EXCEPT !.heads = h, !.lasts = p]
    OBVIOUS
  <2> HIDE DEF n, h, p
  <2> QED
    BY <2>1 DEF Mem
<1>2. /\ h \in PointerTable /\ h[l][i] = Null
      /\ \A k \in Manager, j \in Index : ~(k = l /\ j = i) => h[k][j] = m.heads[k][j]
  BY <1>a DEF PointerTable
<1>3. /\ p \in PointerTable /\ p[l][i] = Null
      /\ \A k \in Manager, j \in Index : ~(k = l /\ j = i) => p[k][j] = m.lasts[k][j]
  BY <1>a DEF PointerTable
<1> HIDE DEF n, h, p
<1>4. n \in Mem
  BY <1>1, <1>2, <1>3 DEF Mem
<1>5. Emptied(m, n, l, i)
  BY <1>1, <1>2, <1>3, <1>4 DEF Emptied
<1> QED
  BY <1>5 DEF n

\* The queues of the classes of S are joined.
JoinedOn(q, r, to, from, S) ==
  /\ r \in Queues
  /\ \A i \in S : r[to][i] = q[to][i] \o q[from][i] /\ r[from][i] = <<>>
  /\ \A l \in Manager, i \in Index : ~(l \in {to, from} /\ i \in S) => r[l][i] = q[l][i]

Same(q, r) == \A c : In(r, c) <=> In(q, c)

LEMMA JoinTurnGood ==
  ASSUME NEW p, NEW q, Good(p, q), NEW to \in Manager, NEW from \in Manager \ {to}, NEW i \in Index
  PROVE  \E r : Good(JoinTurn(p, to, from, i), r) /\ JoinedOn(q, r, to, from, {i}) /\ Same(q, r)
<1>1. /\ p \in Mem /\ q \in Queues
      /\ q[from][i] = <<>> <=> p.heads[from][i] = Null
      /\ q[from][i] # <<>> => p.heads[from][i] = q[from][i][1] /\ p.heads[from][i] \in Chunk
      /\ q[from][i] # <<>> => p.lasts[from][i] = q[from][i][Len(q[from][i])] /\ p.lasts[from][i] \in Chunk
      /\ p.heads[to][i] # Null => p.lasts[to][i] \in Chunk
      /\ q[to][i] \in Seq(Chunk) /\ q[from][i] \in Seq(Chunk)
  BY QueueEnds, QueueType DEF Good
<1>2. CASE q[from][i] = <<>>
  <2>1. JoinTurn(p, to, from, i) = p
    BY <1>1, <1>2 DEF JoinTurn
  <2>2. q[to][i] \o <<>> = q[to][i]
    BY <1>1, ConcatEmptySeq
  <2>3. JoinedOn(q, q, to, from, {i}) /\ Same(q, q)
    BY <1>1, <1>2, <2>2 DEF JoinedOn, Same
  <2> QED
    BY <2>1, <2>3
<1>3. CASE q[from][i] # <<>>
  <2> DEFINE s == q[from][i]
             a == append(p, to, i, p.heads[from][i], p.lasts[from][i])
             m == [p EXCEPT !.heads[from][i] = Null, !.lasts[from][i] = Null]
             n == [a EXCEPT !.heads[from][i] = Null, !.lasts[from][i] = Null]
             e == [q EXCEPT ![from][i] = <<>>]
             u == e[to][i] \o s
             r == [e EXCEPT ![to][i] = u]
  <2>1. JoinTurn(p, to, from, i) = n
    BY <1>1, <1>3 DEF JoinTurn, JoinClass
  <2>2. Appended(p, a, to, i, s[1], s[Len(s)])
    BY <1>1, <1>3, AppendFields
  <2>3. Emptied(p, m, from, i)
    BY <1>1, EmptyFields
  <2> HIDE DEF a, m
  <2>4. Emptied(a, n, from, i)
    BY <2>2, EmptyFields DEF Appended
  <2> HIDE DEF n
  <2>5. Appended(m, n, to, i, s[1], s[Len(s)])
    BY <2>2, <2>3, <2>4 DEF Appended, Emptied
  <2>6. Replaced(q, e, from, i, <<>>)
    BY <1>1, QueueExcept, EmptySeq
  <2> HIDE DEF e
  <2>7. /\ Holds(m, e) /\ Apart(e) /\ Ready(m, e, s)
        /\ \A c : In(q, c) <=> In(e, c) \/ \E k \in 1 .. Len(s) : s[k] = c
    BY <1>3, <2>3, <2>6, EmptyHolds DEF Good
  <2>8. e \in Queues /\ e[to][i] = q[to][i] /\ e[to][i] \in Seq(Chunk)
    BY <1>1, <2>6 DEF Replaced
  <2>9. Joined(e[to][i], s, u) /\ u \in Seq(Chunk)
    BY <1>1, <2>8, Concat DEF Joined
  <2> HIDE DEF u
  <2>10. Replaced(e, r, to, i, u)
    BY <2>8, <2>9, QueueExcept
  <2> HIDE DEF r, s
  <2>11. Holds(n, r) /\ Apart(r) /\ Kept(m, n, e) /\ Added(e, r, s)
    BY <2>5, <2>7, <2>9, <2>10, AppendHolds
  <2>12. Same(q, r)
    BY <2>7, <2>11 DEF Same, Added
  <2>13. Good(n, r)
    <3>1. ASSUME NEW c \in Chunk, ~In(r, c) PROVE n.next[c] = Null
      <4>1. ~In(q, c) /\ ~In(e, c)
        BY <2>7, <2>11, <3>1 DEF Added
      <4> QED
        BY <2>3, <2>11, <4>1 DEF Kept, Emptied, Good, Loose
    <3> QED
      BY <2>11, <3>1 DEF Good, Loose
  <2>14. JoinedOn(q, r, to, from, {i})
    <3>1. u = q[to][i] \o s
      BY <2>8 DEF u
    <3> QED
      BY <2>6, <2>10, <3>1 DEF JoinedOn, Replaced, s
  <2> QED
    BY <2>1, <2>12, <2>13, <2>14
<1> QED
  BY <1>2, <1>3

\* Join moves every queue of one manager to the end of the other's.
LEMMA JoinGood ==
  ASSUME NEW m, NEW q, Good(m, q), NEW to \in Manager, NEW from \in Manager \ {to}
  PROVE  \E r : Good(JoinLists(m, to, from), r) /\ JoinedOn(q, r, to, from, Index) /\ Same(q, r)
<1>b. PICK w : IsJoinWalk(m, to, from, w)
  BY JoinWalk
<1>1. /\ w = [S \in SUBSET Index |-> JoinBody(m, to, from, w, S)]
      /\ JoinLists(m, to, from) = w[Index]
  BY <1>b DEF IsJoinWalk
<1> DEFINE Claim(S) == \E r : Good(w[S], r) /\ JoinedOn(q, r, to, from, S) /\ Same(q, r)
           E == {n \in Nat : \A S \in SUBSET Index : Cardinality(S) = n => Claim(S)}
<1>2. \A S \in SUBSET Index : w[S] = JoinBody(m, to, from, w, S)
  <2> DEFINE B(S) == JoinBody(m, to, from, w, S)
  <2>1. w = [S \in SUBSET Index |-> B(S)]
    BY <1>1
  <2> HIDE DEF B
  <2>2. \A S \in SUBSET Index : w[S] = B(S)
    BY <2>1
  <2> QED
    BY <2>2 DEF B
<1>a. \A S \in SUBSET Index : IsFiniteSet(S) /\ Cardinality(S) \in Nat /\ (Cardinality(S) = 0 <=> S = {})
  BY FS_Subset, FS_CardinalityType, FS_EmptySet, MemoryLinkedListAssumption
<1>3. 0 \in E
  <2>1. w[{}] = m
    BY <1>2 DEF JoinBody
  <2>2. JoinedOn(q, q, to, from, {}) /\ Same(q, q)
    BY DEF JoinedOn, Same, Good, Holds
  <2>3. Claim({})
    BY <2>1, <2>2
  <2> HIDE DEF Claim
  <2> QED
    BY <1>a, <2>3
<1>4. ASSUME NEW n \in Nat, n \in E PROVE n + 1 \in E
  <2> SUFFICES ASSUME NEW S \in SUBSET Index, Cardinality(S) = n + 1 PROVE Claim(S)
    OBVIOUS
  <2> DEFINE i == Top(S)
             R == S \ {i}
  <2>1. S # {} /\ i \in S /\ R \in SUBSET Index /\ Cardinality(R) = n
    <3>1. S # {}
      BY <1>a
    <3>2. i \in S
      BY <3>1, TopIs
    <3>3. Cardinality(R) = Cardinality(S) - 1
      BY <1>a, <3>2, FS_RemoveElement
    <3> QED
      BY <3>1, <3>2, <3>3
  <2>2. w[S] = JoinTurn(w[R], to, from, i)
    BY <1>2, <2>1 DEF JoinBody
  <2>3. PICK r : Good(w[R], r) /\ JoinedOn(q, r, to, from, R) /\ Same(q, r)
    BY <1>4, <2>1
  <2>4. PICK t : Good(w[S], t) /\ JoinedOn(r, t, to, from, {i}) /\ Same(r, t)
    BY <2>1, <2>2, <2>3, JoinTurnGood
  <2>5. JoinedOn(q, t, to, from, S)
    <3>1. i \in Index /\ i \notin R /\ S = R \cup {i}
      BY <2>1
    <3>2. /\ \A j \in R : r[to][j] = q[to][j] \o q[from][j] /\ r[from][j] = <<>>
          /\ \A l \in Manager, j \in Index : ~(l \in {to, from} /\ j \in R) => r[l][j] = q[l][j]
      BY <2>3 DEF JoinedOn
    <3>3. /\ t \in Queues
          /\ t[to][i] = r[to][i] \o r[from][i] /\ t[from][i] = <<>>
          /\ \A l \in Manager, j \in Index : ~(l \in {to, from} /\ j = i) => t[l][j] = r[l][j]
      BY <2>4 DEF JoinedOn
    <3>4. t[to][i] = q[to][i] \o q[from][i]
      BY <3>1, <3>2, <3>3
    <3> HIDE DEF i, R
    <3>5. \A j \in S : t[to][j] = q[to][j] \o q[from][j] /\ t[from][j] = <<>>
      BY <2>1, <3>1, <3>2, <3>3, <3>4
    <3>6. \A l \in Manager, j \in Index : ~(l \in {to, from} /\ j \in S) => t[l][j] = q[l][j]
      BY <3>1, <3>2, <3>3
    <3> QED
      BY <3>3, <3>5, <3>6 DEF JoinedOn
  <2>6. Same(q, t)
    BY <2>3, <2>4 DEF Same
  <2> QED
    BY <2>4, <2>5, <2>6
<1>5. Claim(Index)
  <2> HIDE DEF Claim
  <2>1. Nat \subseteq E
    <3> HIDE DEF E
    <3> QED
      BY <1>3, <1>4, Induction
  <2> QED
    BY <1>a, <2>1
<1> QED
  BY <1>1, <1>5

-----------------------------------------------------------------------------
(* CommonMemoryPool's refill.                                              *)

RefillTurn(p, from, to, i) ==
  IF Empty(p, from, i) THEN p ELSE push(pop(p, from, i), to, i, p.heads[from][i])

RefillBody(m, from, to, i, w, k) ==
  IF k = 0 THEN m ELSE RefillTurn(w[k - 1], from, to, i)

\* The recursive function of RefillLists.
IsRefillWalk(m, from, to, i, n, w) ==
  /\ w = [k \in 0 .. n |-> RefillBody(m, from, to, i, w, k)]
  /\ RefillLists(m, from, to, i, n) = w[n]

LEMMA RefillWalk ==
  ASSUME NEW m, NEW from, NEW to, NEW i, NEW n \in Nat
  PROVE  \E w : IsRefillWalk(m, from, to, i, n, w)
<1> DEFINE Body(w, k) == RefillBody(m, from, to, i, w, k)
           E == {x \in Nat : \E w : w = [k \in 0 .. x |-> Body(w, k)]}
<1>1. 0 \in E
  <2> DEFINE w == [k \in 0 .. 0 |-> m]
  <2>1. \A k \in 0 .. 0 : Body(w, k) = m
    BY DEF RefillBody
  <2> HIDE DEF Body
  <2>2. w = [k \in 0 .. 0 |-> Body(w, k)]
    BY <2>1
  <2> HIDE DEF w
  <2> QED
    BY <2>2
<1>2. ASSUME NEW x \in Nat, x \in E PROVE x + 1 \in E
  <2>1. PICK f : f = [k \in 0 .. x |-> Body(f, k)]
    BY <1>2
  <2> DEFINE g == [k \in 0 .. x + 1 |-> IF k \in 0 .. x THEN f[k] ELSE Body(f, k)]
  <2>2. \A k \in 0 .. x + 1 : k # 0 => g[k - 1] = f[k - 1]
    OBVIOUS
  <2>3. \A k \in 0 .. x + 1 : Body(g, k) = Body(f, k)
    <3> HIDE DEF g
    <3> QED
      BY <2>2 DEF RefillBody
  <2> HIDE DEF Body
  <2>4. \A k \in 0 .. x + 1 : g[k] = Body(f, k)
    <3>1. \A k \in 0 .. x : f[k] = Body(f, k)
      BY <2>1
    <3> QED
      BY <3>1
  <2>5. g = [k \in 0 .. x + 1 |-> Body(g, k)]
    BY <2>3, <2>4
  <2> HIDE DEF g
  <2> QED
    BY <2>5
<1>3. \E w : w = [k \in 0 .. n |-> Body(w, k)]
  <2>1. n \in E
    <3> HIDE DEF E
    <3> QED
      BY <1>1, <1>2, Induction
  <2> QED
    BY <2>1
<1> DEFINE Is(w) == w = [k \in 0 .. n |-> Body(w, k)]
<1>4. RefillLists(m, from, to, i, n) = (CHOOSE w : Is(w))[n]
  BY DEF RefillLists, RefillBody, RefillTurn
<1>5. Is(CHOOSE w : Is(w))
  BY <1>3
<1> HIDE DEF Is
<1>6. \E w : Is(w) /\ RefillLists(m, from, to, i, n) = w[n]
  BY <1>4, <1>5
<1> QED
  BY <1>6 DEF Is, IsRefillWalk

\* The first j chunks of one queue have moved to the end of another.
Refilled(q, r, from, to, i, j) ==
  /\ r \in Queues /\ j \in 0 .. Len(q[from][i])
  /\ r[from][i] = SubSeq(q[from][i], j + 1, Len(q[from][i]))
  /\ r[to][i] = q[to][i] \o SubSeq(q[from][i], 1, j)
  /\ \A l \in Manager, k \in Index : ~(l \in {to, from} /\ k = i) => r[l][k] = q[l][k]

LEMMA RefillTurnGood ==
  ASSUME NEW p, NEW q \in Queues, NEW r, Good(p, r),
         NEW to \in Manager, NEW from \in Manager \ {to}, NEW i \in Index,
         NEW j, Refilled(q, r, from, to, i, j)
  PROVE  \E t : /\ Good(RefillTurn(p, from, to, i), t) /\ Same(r, t)
                /\ Refilled(q, t, from, to, i, IF j < Len(q[from][i]) THEN j + 1 ELSE j)
<1> DEFINE f == q[from][i]
           g == q[to][i]
<1>1. /\ f \in Seq(Chunk) /\ g \in Seq(Chunk) /\ Len(f) \in Nat
      /\ r \in Queues /\ j \in 0 .. Len(f)
      /\ r[from][i] = SubSeq(f, j + 1, Len(f))
      /\ r[to][i] = g \o SubSeq(f, 1, j)
  BY QueueType DEF Refilled
<1> HIDE DEF f, g
<1>2. /\ Empty(p, from, i) <=> r[from][i] = <<>>
      /\ r[from][i] # <<>> => p.heads[from][i] = r[from][i][1]
  BY QueueEnds DEF Good, Empty
<1>3. CASE j = Len(f)
  <2>1. r[from][i] = <<>>
    BY <1>1, <1>3, SubSeqEmpty
  <2>2. RefillTurn(p, from, to, i) = p
    BY <1>2, <2>1 DEF RefillTurn
  <2>3. Same(r, r) /\ ~(j < Len(f))
    BY <1>1, <1>3 DEF Same
  <2> QED
    BY <2>2, <2>3 DEF f
<1>4. CASE j < Len(f)
  <2> DEFINE s == SubSeq(f, j + 1, Len(f))
             u == SubSeq(f, (j + 1) + 1, Len(f))
             v == g \o SubSeq(f, 1, j + 1)
             e == [r EXCEPT ![from][i] = u]
             t == [e EXCEPT ![to][i] = v]
             c == f[j + 1]
  <2>1. /\ s \in Seq(Chunk) /\ Len(s) = Len(f) - j
        /\ \A k \in 1 .. Len(f) - j : s[k] = f[j + k]
    <3>1. \A k \in j + 1 .. Len(f) : f[k] \in Chunk
      BY <1>1, ElementOfSeq
    <3>2. /\ s \in Seq(Chunk) /\ Len(s) = IF j + 1 <= Len(f) THEN Len(f) - (j + 1) + 1 ELSE 0
          /\ \A k \in 1 .. Len(f) - (j + 1) + 1 : s[k] = f[(j + 1) + k - 1]
      BY <1>1, <3>1, SubSeqProperties
    <3> HIDE DEF s
    <3>3. ASSUME NEW k \in 1 .. Len(f) - j PROVE s[k] = f[j + k]
      <4>1. k \in 1 .. Len(f) - (j + 1) + 1 /\ (j + 1) + k - 1 = j + k
        BY <1>1
      <4> QED
        BY <3>2, <4>1
    <3> QED
      BY <1>1, <1>4, <3>2, <3>3
  <2>2. /\ u \in Seq(Chunk) /\ Len(u) = Len(f) - (j + 1)
        /\ \A k \in 1 .. Len(f) - (j + 1) : u[k] = f[(j + 1) + k]
    <3>1. \A k \in (j + 1) + 1 .. Len(f) : f[k] \in Chunk
      BY <1>1, ElementOfSeq
    <3>2. /\ u \in Seq(Chunk)
          /\ Len(u) = IF (j + 1) + 1 <= Len(f) THEN Len(f) - ((j + 1) + 1) + 1 ELSE 0
          /\ \A k \in 1 .. Len(f) - ((j + 1) + 1) + 1 : u[k] = f[((j + 1) + 1) + k - 1]
      BY <1>1, <3>1, SubSeqProperties
    <3> HIDE DEF u
    <3>3. ASSUME NEW k \in 1 .. Len(f) - (j + 1) PROVE u[k] = f[(j + 1) + k]
      <4>1. k \in 1 .. Len(f) - ((j + 1) + 1) + 1 /\ ((j + 1) + 1) + k - 1 = (j + 1) + k
        BY <1>1
      <4> QED
        BY <3>2, <4>1
    <3>4. Len(u) = Len(f) - (j + 1)
      BY <1>1, <1>4, <3>2
    <3> QED
      BY <3>2, <3>3, <3>4
  <2>3. s # <<>> /\ s[1] = c /\ c \in Chunk
    <3>1. Len(s) # 0 /\ s[1] = f[j + 1] /\ j + 1 \in 1 .. Len(f)
      BY <1>1, <1>4, <2>1
    <3> QED
      BY <1>1, <3>1, ElementOfSeq, EmptySeq
  <2>4. Rest(s, u)
    <3> HIDE DEF s, u
    <3>1. ASSUME NEW k \in 1 .. Len(u) PROVE u[k] = s[k + 1]
      <4>1. k \in 1 .. Len(f) - (j + 1) /\ k + 1 \in 1 .. Len(f) - j /\ (j + 1) + k = j + (k + 1)
        BY <1>1, <2>2
      <4> QED
        BY <2>1, <2>2, <4>1
    <3> QED
      BY <1>1, <2>1, <2>2, <3>1 DEF Rest
  <2>5. Joined(r[to][i], <<c>>, v) /\ v \in Seq(Chunk)
    <3> DEFINE a == SubSeq(f, 1, j)
               one == <<c>>
    <3>1. SubSeq(f, 1, j + 1) = a \o one
      <4>1. 1 \in 1 .. Len(f) /\ j + 1 \in 1 .. Len(f) /\ (j + 1) - 1 = j
        BY <1>1, <1>4
      <4> QED
        BY <1>1, <4>1, SubSeqRecursiveSecond
    <3>2. a \in Seq(Chunk) /\ one \in Seq(Chunk)
      <4>1. \A k \in 1 .. j : f[k] \in Chunk
        BY <1>1, ElementOfSeq
      <4> QED
        BY <1>1, <2>3, <4>1, SubSeqProperties
    <3>3. r[to][i] = g \o a
      BY <1>1
    <3>4. Joined(r[to][i], one, v) /\ v \in Seq(Chunk)
      <4>1. v = g \o (a \o one)
        BY <3>1
      <4> HIDE DEF a, one, v
      <4>2. v = (g \o a) \o one
        <5>1. g \in Seq(Chunk)
          BY <1>1
        <5>2. (g \o a) \o one = g \o (a \o one)
          BY <3>2, <5>1, ConcatAssociative
        <5> QED
          BY <4>1, <5>2
      <4>3. g \o a \in Seq(Chunk)
        BY <1>1, <3>2, ConcatProperties
      <4>4. Joined(g \o a, one, (g \o a) \o one)
        BY <3>2, <4>3, Concat
      <4> QED
        BY <3>3, <4>2, <4>4 DEF Joined
    <3> QED
      BY <3>4
  <2> HIDE DEF c, u, v
  <2>6. Replaced(r, e, from, i, u)
    BY <1>1, <2>2, QueueExcept
  <2> HIDE DEF e
  <2>7. e \in Queues /\ e[to][i] = r[to][i]
    BY <2>6 DEF Replaced
  <2>8. Replaced(e, t, to, i, v)
    BY <2>5, <2>7, QueueExcept
  <2> HIDE DEF t
  <2>9. /\ p.heads[from][i] = c
        /\ Good(pop(p, from, i), e)
        /\ Removed(r, e, c)
    <3>1. r[from][i] = s /\ r[from][i] # <<>> /\ Rest(r[from][i], u)
      BY <1>1, <2>3, <2>4
    <3> HIDE DEF s
    <3>2. /\ p.heads[from][i] = r[from][i][1]
          /\ Good(pop(p, from, i), e)
          /\ Removed(r, e, r[from][i][1])
      BY <2>6, <3>1, PopGood
    <3> QED
      BY <2>3, <3>1, <3>2
  <2>10. /\ Good(push(pop(p, from, i), to, i, c), t)
         /\ \A d : In(t, d) <=> In(e, d) \/ d = c
    <3>1. ~In(e, c) /\ Joined(e[to][i], <<c>>, v)
      BY <2>5, <2>7, <2>9 DEF Removed
    <3> QED
      BY <2>3, <2>8, <2>9, <3>1, PushGood
  <2>11. In(r, c)
    <3>1. 1 \in 1 .. Len(r[from][i]) /\ r[from][i][1] = c
      BY <1>1, <1>4, <2>1, <2>3
    <3> QED
      BY <3>1 DEF In
  <2>12. Same(r, t)
    BY <2>9, <2>10, <2>11 DEF Same, Removed
  <2>13. Refilled(q, t, from, to, i, j + 1)
    <3>1. t \in Queues /\ j + 1 \in 0 .. Len(f)
      BY <1>1, <1>4, <2>8 DEF Replaced
    <3>2. t[from][i] = u /\ t[to][i] = v
      BY <2>6, <2>8 DEF Replaced
    <3>3. \A l \in Manager, k \in Index : ~(l \in {to, from} /\ k = i) => t[l][k] = q[l][k]
      BY <2>6, <2>8 DEF Replaced, Refilled
    <3> QED
      BY <3>1, <3>2, <3>3 DEF Refilled, u, v, f, g
  <2>14. RefillTurn(p, from, to, i) = push(pop(p, from, i), to, i, c)
    BY <1>1, <1>2, <2>3, <2>9 DEF RefillTurn
  <2> QED
    BY <1>4, <2>10, <2>12, <2>13, <2>14 DEF f
<1> QED
  BY <1>1, <1>3, <1>4

\* The refill moves as many chunks as asked for, or all there are, in order.
LEMMA RefillGood ==
  ASSUME NEW m, NEW q, Good(m, q), NEW to \in Manager, NEW from \in Manager \ {to},
         NEW i \in Index, NEW n \in Nat
  PROVE  \E r : /\ Good(RefillLists(m, from, to, i, n), r) /\ Same(q, r)
                /\ Refilled(q, r, from, to, i,
                            IF n <= Len(q[from][i]) THEN n ELSE Len(q[from][i]))
<1>1. PICK w : IsRefillWalk(m, from, to, i, n, w)
  BY RefillWalk
<1> DEFINE f == q[from][i]
           j(k) == IF k <= Len(f) THEN k ELSE Len(f)
           Claim(k) == \E r : Good(w[k], r) /\ Same(q, r) /\ Refilled(q, r, from, to, i, j(k))
           E == {k \in Nat : k <= n => Claim(k)}
<1>2. \A k \in 0 .. n : w[k] = IF k = 0 THEN m ELSE RefillTurn(w[k - 1], from, to, i)
  <2> DEFINE B(k) == RefillBody(m, from, to, i, w, k)
  <2>1. w = [k \in 0 .. n |-> B(k)]
    BY <1>1 DEF IsRefillWalk
  <2> HIDE DEF B
  <2>2. \A k \in 0 .. n : w[k] = B(k)
    BY <2>1
  <2> QED
    BY <2>2 DEF B, RefillBody
<1>a. q \in Queues /\ f \in Seq(Chunk) /\ Len(f) \in Nat /\ q[to][i] \in Seq(Chunk)
  BY QueueType DEF Good, Holds
<1>3. 0 \in E
  <2>1. w[0] = m /\ j(0) = 0
    BY <1>2, <1>a
  <2>2. Same(q, q)
    BY DEF Same
  <2>3. SubSeq(f, 0 + 1, Len(f)) = f /\ SubSeq(f, 1, 0) = <<>> /\ q[to][i] \o <<>> = q[to][i]
    BY <1>a, SubSeqFull, SubSeqEmpty, ConcatEmptySeq
  <2>4. Refilled(q, q, from, to, i, 0)
    BY <1>a, <2>3 DEF Refilled
  <2> HIDE DEF j
  <2> QED
    BY <2>1, <2>2, <2>4
<1>4. ASSUME NEW k \in Nat, k \in E PROVE k + 1 \in E
  <2> SUFFICES ASSUME k + 1 <= n PROVE Claim(k + 1)
    OBVIOUS
  <2>1. PICK r : Good(w[k], r) /\ Same(q, r) /\ Refilled(q, r, from, to, i, j(k))
    BY <1>4
  <2>2. w[k + 1] = RefillTurn(w[k], from, to, i)
    BY <1>2
  <2>3. j(k + 1) = IF j(k) < Len(f) THEN j(k) + 1 ELSE j(k)
    BY <1>a
  <2> HIDE DEF j
  <2>4. PICK t : Good(w[k + 1], t) /\ Same(r, t) /\ Refilled(q, t, from, to, i, j(k + 1))
    BY <1>a, <2>1, <2>2, <2>3, RefillTurnGood
  <2> QED
    BY <2>1, <2>4 DEF Same
<1>5. Claim(n)
  <2>1. n \in E
    <3> HIDE DEF E
    <3> QED
      BY <1>3, <1>4, Induction
  <2> QED
    BY <2>1
<1> QED
  BY <1>1, <1>5 DEF IsRefillWalk

-----------------------------------------------------------------------------
(* allocateMemoryLinkedList and the append of its batch.                   *)

\* What the headers of a batch change of the pointers.
Chained(m, n, t) ==
  /\ n \in Mem /\ n.heads = m.heads /\ n.lasts = m.lasts
  /\ \A k \in 1 .. Len(t) : n.next[t[k]] = IF k = Len(t) THEN Null ELSE t[k + 1]
  /\ \A c \in Chunk : (\A k \in 1 .. Len(t) : t[k] # c) => n.next[c] = m.next[c]

Distinct(t) == \A j, k \in 1 .. Len(t) : t[j] = t[k] => j = k

LEMMA LinkedFields ==
  ASSUME NEW m \in Mem, NEW t \in Seq(Chunk), Distinct(t)
  PROVE  Chained(m, Linked(m, t), t)
<1> DEFINE at(c) == CHOOSE k \in 1 .. Len(t) : t[k] = c
           new(c) == IF \E k \in 1 .. Len(t) : t[k] = c
                     THEN IF at(c) = Len(t) THEN Null ELSE t[at(c) + 1]
                     ELSE m.next[c]
           x == [c \in Chunk |-> new(c)]
           n == [heads |-> m.heads, lasts |-> m.lasts, next |-> x]
<1>1. Len(t) \in Nat /\ \A k \in 1 .. Len(t) : t[k] \in Chunk
  BY LenProperties, ElementOfSeq
<1>2. /\ m.heads \in PointerTable /\ m.lasts \in PointerTable
      /\ m.next \in [Chunk -> Chunk \cup {Null}]
  BY DEF Mem
<1>3. Linked(m, t) = n
  <2>1. Linked(m, t) = [m EXCEPT !.next = x]
    BY DEF Linked
  <2> HIDE DEF x
  <2> QED
    BY <2>1 DEF Mem
<1>4. \A k \in 1 .. Len(t) : at(t[k]) = k
  BY DEF Distinct
<1>5. \A k \in 1 .. Len(t) : new(t[k]) = IF k = Len(t) THEN Null ELSE t[k + 1]
  <2> HIDE DEF at
  <2> QED
    BY <1>4
<1>6. \A c \in Chunk : (\A k \in 1 .. Len(t) : t[k] # c) => new(c) = m.next[c]
  <2> HIDE DEF at
  <2> QED
    OBVIOUS
<1>7. \A c \in Chunk : new(c) \in Chunk \cup {Null}
  <2> SUFFICES ASSUME NEW c \in Chunk PROVE new(c) \in Chunk \cup {Null}
    OBVIOUS
  <2>1. CASE \E k \in 1 .. Len(t) : t[k] = c
    <3>1. PICK k \in 1 .. Len(t) : t[k] = c
      BY <2>1
    <3>2. k # Len(t) => k + 1 \in 1 .. Len(t)
      BY <1>1
    <3> HIDE DEF new
    <3> QED
      BY <1>1, <1>5, <3>1, <3>2
  <2>2. CASE ~\E k \in 1 .. Len(t) : t[k] = c
    BY <1>2, <2>2
  <2> QED
    BY <2>1, <2>2
<1> HIDE DEF new
<1>8. /\ x \in [Chunk -> Chunk \cup {Null}]
      /\ \A c \in Chunk : x[c] = new(c)
  BY <1>7
<1> HIDE DEF x
<1>9. Chained(m, n, t)
  BY <1>1, <1>2, <1>5, <1>6, <1>8 DEF Chained, Mem
<1> QED
  BY <1>3, <1>9

LEMMA AllocateGood ==
  ASSUME NEW m, NEW q, Good(m, q), NEW l \in Manager, NEW i \in Index,
         NEW n \in Nat \ {0}, NEW t \in [1 .. n -> Chunk],
         \A j, k \in 1 .. n : t[j] = t[k] => j = k,
         \A k \in 1 .. n : ~In(q, t[k])
  PROVE  \E r : /\ Good(append(Linked(m, t), l, i, t[1], t[n]), r)
                /\ Replaced(q, r, l, i, q[l][i] \o t)
                /\ Added(q, r, t)
<1> DEFINE p == Linked(m, t)
           o == append(p, l, i, t[1], t[n])
           u == q[l][i] \o t
           r == [q EXCEPT ![l][i] = u]
<1>1. t \in Seq(Chunk) /\ Len(t) = n /\ t # <<>> /\ \A k \in 1 .. n : t[k] \in Chunk
  <2>1. t \in Seq(Chunk) /\ DOMAIN t = 1 .. n
    BY SeqDef
  <2>2. Len(t) = n
    BY <2>1, LenProperties
  <2> QED
    BY <2>1, <2>2, EmptySeq
<1>2. /\ m \in Mem /\ q \in Queues /\ q[l][i] \in Seq(Chunk)
      /\ m.heads[l][i] # Null => m.lasts[l][i] \in Chunk
  BY QueueEnds, QueueType DEF Good
<1>3. Chained(m, p, t)
  BY <1>1, <1>2, LinkedFields DEF Distinct
<1>4. Joined(q[l][i], t, u) /\ u \in Seq(Chunk)
  BY <1>1, <1>2, Concat DEF Joined
<1> HIDE DEF p, u
<1>5. Replaced(q, r, l, i, u)
  BY <1>2, <1>4, QueueExcept
<1> HIDE DEF r
<1>6. Appended(p, o, l, i, t[1], t[Len(t)])
  <2>1. p \in Mem /\ (p.heads[l][i] # Null => p.lasts[l][i] \in Chunk)
    BY <1>2, <1>3 DEF Chained
  <2>2. t[1] \in Chunk /\ t[n] \in Chunk
    BY <1>1
  <2> QED
    BY <1>1, <2>1, <2>2, AppendFields
<1> HIDE DEF o
<1>7. Holds(p, q)
  <2> SUFFICES ASSUME NEW k \in Manager, NEW j \in Index
               PROVE  Path(p.next, q[k][j])
    BY <1>3 DEF Good, Holds, Chained
  <2>1. /\ Path(m.next, q[k][j])
        /\ Len(q[k][j]) \in Nat /\ (q[k][j] # <<>> => Len(q[k][j]) >= 1)
        /\ \A x \in 1 .. Len(q[k][j]) : q[k][j][x] \in Chunk
    BY <1>2, QueueType DEF Good, Holds
  <2>2. \A x \in 1 .. Len(q[k][j]) : p.next[q[k][j][x]] = m.next[q[k][j][x]]
    <3>1. \A x \in 1 .. Len(q[k][j]) : In(q, q[k][j][x])
      BY DEF In
    <3> QED
      BY <1>1, <1>3, <2>1, <3>1 DEF Chained
  <2> QED
    BY <2>1, <2>2 DEF Path
<1>8. Ready(p, q, t)
  BY <1>1, <1>3 DEF Ready, Chained, Path
<1>9. Holds(o, r) /\ Apart(r) /\ Added(q, r, t) /\ Kept(p, o, q)
  <2>1. Apart(q)
    BY DEF Good
  <2> QED
    BY <1>4, <1>5, <1>6, <1>7, <1>8, <2>1, AppendHolds
<1>10. Loose(o, r)
  <2> SUFFICES ASSUME NEW c \in Chunk, ~In(r, c) PROVE o.next[c] = Null
    BY DEF Loose
  <2>1. ~In(q, c) /\ \A k \in 1 .. Len(t) : t[k] # c
    BY <1>9 DEF Added
  <2>2. o.next[c] = p.next[c] /\ p.next[c] = m.next[c] /\ m.next[c] = Null
    BY <1>3, <1>9, <2>1 DEF Kept, Chained, Good, Loose
  <2> QED
    BY <2>2
<1>11. Good(o, r)
  BY <1>9, <1>10 DEF Good
<1> QED
  BY <1>5, <1>9, <1>11 DEF o, p, u

-----------------------------------------------------------------------------
(* Chain reads the queues back from the pointers.                          *)

WalkBody(m, l, i, w, k) ==
  IF k = 0 THEN (IF m.heads[l][i] = Null THEN <<>> ELSE <<m.heads[l][i]>>)
  ELSE LET s == w[k - 1]
       IN  IF s = <<>> \/ m.next[s[Len(s)]] = Null THEN s
           ELSE Append(s, m.next[s[Len(s)]])

Steps == Cardinality(Chunk)

IsWalk(m, l, i, w) == w = [k \in 0 .. Steps |-> WalkBody(m, l, i, w, k)]

\* A queue is no longer than there are chunks.
LEMMA ShortQueue ==
  ASSUME NEW s \in Seq(Chunk), Distinct(s)
  PROVE  Len(s) <= Steps /\ Steps \in Nat
<1>1. Len(s) \in Nat /\ s \in [1 .. Len(s) -> Chunk]
  BY LenProperties
<1>2. s \in Injection(1 .. Len(s), Chunk)
  BY <1>1 DEF Distinct, Injection, IsInjective
<1>3. IsFiniteSet(Chunk) /\ Steps \in Nat
  BY FS_CardinalityType, MemoryLinkedListAssumption DEF Steps
<1>4. Cardinality(1 .. Len(s)) <= Steps
  BY <1>2, <1>3, FS_Injection DEF Steps, ExistsInjection
<1>5. Cardinality(1 .. Len(s)) = Len(s)
  <2>1. Cardinality(1 .. Len(s)) = IF 1 > Len(s) THEN 0 ELSE Len(s) - 1 + 1
    BY <1>1, FS_Interval
  <2> QED
    BY <1>1, <2>1
<1> QED
  BY <1>3, <1>4, <1>5

Prefix(s, k) == SubSeq(s, 1, IF k <= Len(s) THEN k ELSE Len(s))

LEMMA PrefixFacts ==
  ASSUME NEW s \in Seq(Chunk), NEW k \in Nat
  PROVE  /\ Prefix(s, k) \in Seq(Chunk)
         /\ k >= Len(s) => Prefix(s, k) = s
         /\ k = 0 => Prefix(s, k) = <<>>
         /\ k <= Len(s) => Len(Prefix(s, k)) = k
         /\ k < Len(s) => Prefix(s, k + 1) = Append(Prefix(s, k), s[k + 1])
         /\ k \in 1 .. Len(s) => Prefix(s, k) # <<>> /\ Prefix(s, k)[k] = s[k]
<1>1. Len(s) \in Nat /\ \A x \in 1 .. Len(s) : s[x] \in Chunk
  BY LenProperties, ElementOfSeq
<1> DEFINE n == IF k <= Len(s) THEN k ELSE Len(s)
           p == SubSeq(s, 1, n)
<1>2. n \in Nat /\ n <= Len(s) /\ (k <= Len(s) => n = k) /\ (k >= Len(s) => n = Len(s))
  BY <1>1
<1>3. p = Prefix(s, k)
  BY DEF Prefix
<1> HIDE DEF n
<1>4. p \in Seq(Chunk) /\ Len(p) = n /\ \A x \in 1 .. n : p[x] = s[x]
  <2>1. \A x \in 1 .. n : s[x] \in Chunk
    BY <1>1, <1>2
  <2>2. /\ p \in Seq(Chunk) /\ Len(p) = IF 1 <= n THEN n - 1 + 1 ELSE 0
        /\ \A x \in 1 .. n - 1 + 1 : p[x] = s[1 + x - 1]
    BY <1>2, <2>1, SubSeqProperties
  <2> HIDE DEF p
  <2>3. ASSUME NEW x \in 1 .. n PROVE p[x] = s[x]
    <3>1. x \in 1 .. n - 1 + 1 /\ 1 + x - 1 = x
      BY <1>2
    <3> QED
      BY <2>2, <3>1
  <2> QED
    BY <1>2, <2>2, <2>3
<1>5. k >= Len(s) => p = s
  BY <1>2, SubSeqFull
<1>6. k = 0 => p = <<>>
  BY <1>1, <1>2, SubSeqEmpty
<1>7. k < Len(s) => Prefix(s, k + 1) = Append(p, s[k + 1])
  <2> SUFFICES ASSUME k < Len(s) PROVE Prefix(s, k + 1) = Append(p, s[k + 1])
    OBVIOUS
  <2>1. k + 1 \in 1 .. Len(s) /\ (k + 1) - 1 = n /\ 1 \in 1 .. Len(s) /\ k + 1 <= Len(s) /\ k + 1 \in 1 .. Len(s)
    BY <1>1, <1>2
  <2>2. Prefix(s, k + 1) = SubSeq(s, 1, k + 1)
    BY <2>1 DEF Prefix
  <2>3. SubSeq(s, 1, k + 1) = SubSeq(s, 1, (k + 1) - 1) \o <<s[k + 1]>>
    BY <2>1, SubSeqRecursiveSecond
  <2>4. Append(p, s[k + 1]) = p \o <<s[k + 1]>>
    <3> HIDE DEF p
    <3> QED
      BY <1>1, <1>4, <2>1, AppendIsConcat
  <2> QED
    BY <2>1, <2>2, <2>3, <2>4
<1>8. k \in 1 .. Len(s) => p # <<>> /\ p[k] = s[k]
  <2> HIDE DEF p
  <2> QED
    BY <1>1, <1>2, <1>4, EmptySeq
<1> HIDE DEF p
<1> QED
  BY <1>1, <1>2, <1>3, <1>4, <1>5, <1>6, <1>7, <1>8

\* Each turn of the walk extends the prefix by one chunk.
LEMMA WalkTurn ==
  ASSUME NEW m, NEW q, Holds(m, q), NEW l \in Manager, NEW i \in Index,
         NEW w, NEW k \in Nat, k # 0 => w[k - 1] = Prefix(q[l][i], k)
  PROVE  WalkBody(m, l, i, w, k) = Prefix(q[l][i], k + 1)
<1> DEFINE s == q[l][i]
<1>1. /\ s \in Seq(Chunk) /\ Len(s) \in Nat /\ (s # <<>> => Len(s) >= 1) /\ (s = <<>> => Len(s) = 0)
      /\ \A x \in 1 .. Len(s) : s[x] \in Chunk
      /\ s = <<>> <=> m.heads[l][i] = Null
      /\ s # <<>> => m.heads[l][i] = s[1]
      /\ Path(m.next, s)
  BY QueueType, QueueEnds, EmptySeq DEF Holds
<1> HIDE DEF s
<1>2. CASE k = 0 /\ s = <<>>
  <2>1. Prefix(s, k + 1) = s
    <3>1. k + 1 \in Nat /\ k + 1 >= Len(s)
      BY <1>1, <1>2
    <3> QED
      BY <1>1, <3>1, PrefixFacts
  <2> QED
    BY <1>1, <1>2, <2>1 DEF WalkBody, s
<1>3. CASE k = 0 /\ s # <<>>
  <2>1. Prefix(s, k + 1) = Append(<<>>, s[1])
    <3>1. 0 \in Nat /\ 0 < Len(s) /\ 0 + 1 = 1
      BY <1>1, <1>3
    <3>2. Prefix(s, 0) = <<>> /\ Prefix(s, 0 + 1) = Append(Prefix(s, 0), s[0 + 1])
      BY <1>1, <3>1, PrefixFacts
    <3> QED
      BY <1>3, <3>1, <3>2
  <2>2. Append(<<>>, s[1]) = <<s[1]>>
    OBVIOUS
  <2> QED
    BY <1>1, <1>3, <2>1, <2>2 DEF WalkBody, s
<1>4. CASE k # 0
  <2> DEFINE v == w[k - 1]
  <2>1. v = Prefix(s, k)
    BY <1>4 DEF s
  <2>2. WalkBody(m, l, i, w, k) = IF v = <<>> \/ m.next[v[Len(v)]] = Null THEN v
                                  ELSE Append(v, m.next[v[Len(v)]])
    BY <1>4 DEF WalkBody
  <2> HIDE DEF v
  <2>3. CASE s = <<>>
    <3>1. Prefix(s, k) = s /\ Prefix(s, k + 1) = s
      <4>1. k + 1 \in Nat /\ k + 1 >= Len(s) /\ k >= Len(s)
        BY <1>1, <2>3
      <4> QED
        BY <1>1, <4>1, PrefixFacts
    <3> QED
      BY <2>1, <2>2, <2>3, <3>1 DEF s
  <2>4. CASE s # <<>> /\ k >= Len(s)
    <3>1. Prefix(s, k) = s /\ Prefix(s, k + 1) = s
      BY <1>1, <2>4, PrefixFacts
    <3>2. m.next[s[Len(s)]] = Null
      BY <1>1, <2>4 DEF Path
    <3> QED
      BY <2>1, <2>2, <3>1, <3>2 DEF s
  <2>5. CASE k < Len(s)
    <3>1. /\ v # <<>> /\ Len(v) = k /\ v[k] = s[k]
          /\ Prefix(s, k + 1) = Append(v, s[k + 1])
      <4>1. k \in 1 .. Len(s) /\ k <= Len(s)
        BY <1>1, <1>4, <2>5
      <4> QED
        BY <1>1, <2>1, <2>5, <4>1, PrefixFacts
    <3>2. m.next[s[k]] = s[k + 1] /\ s[k + 1] # Null
      <4>1. k \in 1 .. Len(s) - 1 /\ k + 1 \in 1 .. Len(s)
        BY <1>1, <1>4, <2>5
      <4> QED
        BY <1>1, <4>1, MemoryLinkedListAssumption DEF Path
    <3> QED
      BY <2>2, <3>1, <3>2 DEF s
  <2> QED
    BY <1>1, <2>3, <2>4, <2>5
<1> QED
  BY <1>2, <1>3, <1>4

LEMMA ChainIs ==
  ASSUME NEW m, NEW q, Holds(m, q), Apart(q), NEW l \in Manager, NEW i \in Index
  PROVE  ChainOf(m, l, i) = q[l][i]
<1> DEFINE s == q[l][i]
           d == [k \in 0 .. Steps |-> Prefix(s, k + 1)]
           w == CHOOSE x : IsWalk(m, l, i, x)
<1>1. s \in Seq(Chunk) /\ Len(s) <= Steps /\ Steps \in Nat /\ Len(s) \in Nat
  <2>1. s \in Seq(Chunk) /\ Distinct(s) /\ Len(s) \in Nat
    BY QueueType DEF Holds, Apart, Distinct
  <2> QED
    BY <2>1, ShortQueue
<1>2. IsWalk(m, l, i, d)
  <2> DEFINE B(k) == WalkBody(m, l, i, d, k)
  <2>1. \A k \in 0 .. Steps : k # 0 => d[k - 1] = Prefix(s, k)
    BY <1>1
  <2>2. ASSUME NEW k \in 0 .. Steps PROVE B(k) = Prefix(s, k + 1)
    <3> HIDE DEF d
    <3> QED
      BY <1>1, <2>1, WalkTurn
  <2> HIDE DEF B, s
  <2>3. d = [k \in 0 .. Steps |-> B(k)]
    BY <2>2
  <2> HIDE DEF d
  <2> QED
    BY <2>3 DEF IsWalk, B
<1>3. IsWalk(m, l, i, w)
  <2> HIDE DEF d
  <2> QED
    BY <1>2
<1>4. ChainOf(m, l, i) = w[Steps]
  BY DEF ChainOf, IsWalk, WalkBody, Steps
<1> HIDE DEF w, s, d
<1>5. \A k \in 0 .. Steps : w[k] = WalkBody(m, l, i, w, k)
  <2> DEFINE B(k) == WalkBody(m, l, i, w, k)
  <2>1. w = [k \in 0 .. Steps |-> B(k)]
    BY <1>3 DEF IsWalk
  <2> HIDE DEF B
  <2>2. \A k \in 0 .. Steps : w[k] = B(k)
    BY <2>1
  <2> QED
    BY <2>2 DEF B
<1> DEFINE E == {k \in Nat : k <= Steps => w[k] = Prefix(s, k + 1)}
<1>6. 0 \in E
  <2>1. WalkBody(m, l, i, w, 0) = Prefix(q[l][i], 0 + 1)
    BY WalkTurn
  <2> QED
    BY <1>1, <1>5, <2>1 DEF s
<1>7. ASSUME NEW k \in Nat, k \in E PROVE k + 1 \in E
  <2> SUFFICES ASSUME k + 1 <= Steps PROVE w[k + 1] = Prefix(s, (k + 1) + 1)
    OBVIOUS
  <2>1. w[(k + 1) - 1] = Prefix(q[l][i], k + 1)
    BY <1>1, <1>7 DEF s
  <2>2. WalkBody(m, l, i, w, k + 1) = Prefix(q[l][i], (k + 1) + 1)
    BY <2>1, WalkTurn
  <2> QED
    BY <1>1, <1>5, <2>2 DEF s
<1>8. w[Steps] = Prefix(s, Steps + 1)
  <2>1. Nat \subseteq E
    <3> HIDE DEF E
    <3> QED
      BY <1>6, <1>7, Induction
  <2> QED
    BY <1>1, <2>1
<1>9. Prefix(s, Steps + 1) = s
  BY <1>1, PrefixFacts
<1> QED
  BY <1>4, <1>8, <1>9 DEF s

-----------------------------------------------------------------------------
(* The queues are those Chain reads; every method has the effect on them   *)
(* that ChunkQueues gives it.                                              *)

LEMMA QueueIs ==
  ASSUME NEW m, NEW q, Good(m, q)
  PROVE  [l \in Manager |-> [i \in Index |-> ChainOf(m, l, i)]] = q
<1>1. q \in [Manager -> [Index -> Seq(Chunk)]] /\ Holds(m, q) /\ Apart(q)
  BY DEF Good, Holds, Queues
<1>2. \A l \in Manager, i \in Index : ChainOf(m, l, i) = q[l][i]
  BY <1>1, ChainIs
<1> DEFINE c(l, i) == ChainOf(m, l, i)
<1>3. \A l \in Manager : [i \in Index |-> c(l, i)] = q[l]
  <2> SUFFICES ASSUME NEW l \in Manager PROVE [i \in Index |-> c(l, i)] = q[l]
    OBVIOUS
  <2>1. q[l] \in [Index -> Seq(Chunk)] /\ \A i \in Index : c(l, i) = q[l][i]
    BY <1>1, <1>2
  <2> HIDE DEF c
  <2> QED
    BY <2>1
<1> DEFINE d(l) == [i \in Index |-> c(l, i)]
<1>4. \A l \in Manager : d(l) = q[l]
  BY <1>3
<1> HIDE DEF c, d
<1>5. [l \in Manager |-> d(l)] = q
  BY <1>1, <1>4
<1> QED
  BY <1>5 DEF c, d

LEMMA QueueNow ==
  ASSUME NEW q, Good(mem, q)
  PROVE  queue = q
BY QueueIs DEF queue, Chain

LEMMA QueueNext ==
  ASSUME NEW q, Good(mem', q)
  PROVE  queue' = q
BY QueueIs DEF queue, Chain

LEMMA TableEqual ==
  ASSUME NEW T, NEW g \in [Manager -> [Index -> T]], NEW h \in [Manager -> [Index -> T]],
         \A l \in Manager, i \in Index : g[l][i] = h[l][i]
  PROVE  g = h
<1>1. \A l \in Manager : g[l] = h[l]
  <2> SUFFICES ASSUME NEW l \in Manager PROVE g[l] = h[l]
    OBVIOUS
  <2>1. g[l] \in [Index -> T] /\ h[l] \in [Index -> T] /\ \A i \in Index : g[l][i] = h[l][i]
    OBVIOUS
  <2> QED
    BY <2>1
<1> QED
  BY <1>1

LEMMA ReplacedIs ==
  ASSUME NEW q \in Queues, NEW l \in Manager, NEW i \in Index, NEW s \in Seq(Chunk),
         NEW r, Replaced(q, r, l, i, s)
  PROVE  r = [q EXCEPT ![l][i] = s]
<1> DEFINE e == [q EXCEPT ![l][i] = s]
<1>1. Replaced(q, e, l, i, s)
  BY QueueExcept
<1> HIDE DEF e
<1>2. \A k \in Manager, j \in Index : r[k][j] = e[k][j]
  BY <1>1 DEF Replaced
<1>3. r = e
  BY <1>1, <1>2, TableEqual DEF Replaced, Queues
<1> QED
  BY <1>3 DEF e

\* A listed chunk has the class of its list.
Sized(q, z) ==
  \A l \in Manager, i \in Index : \A k \in 1 .. Len(q[l][i]) : z[q[l][i][k]] = i

\* The inductive invariant.
LInv ==
  /\ Good(mem, queue)
  /\ size \in [Chunk -> Index \cup {Null}]
  /\ Sized(queue, size)

LEMMA ListedIsIn ==
  \A c : c \in Listed <=> In(queue, c)
<1> SUFFICES ASSUME NEW c PROVE c \in Listed <=> In(queue, c)
  OBVIOUS
<1>1. \A l \in Manager, i \in Index : queue[l][i] = Chain(l, i)
  BY DEF queue
<1>2. c \in Listed <=> \E l \in Manager, i \in Index : \E k \in 1 .. Len(Chain(l, i)) : Chain(l, i)[k] = c
  <2> DEFINE at(l, i) == {Chain(l, i)[k] : k \in 1 .. Len(Chain(l, i))}
  <2>1. Listed = UNION {at(l, i) : l \in Manager, i \in Index}
    BY DEF Listed
  <2>2. \A l \in Manager, i \in Index :
          c \in at(l, i) <=> \E k \in 1 .. Len(Chain(l, i)) : Chain(l, i)[k] = c
    OBVIOUS
  <2> HIDE DEF at
  <2>3. c \in Listed <=> \E l \in Manager, i \in Index : c \in at(l, i)
    BY <2>1
  <2> QED
    BY <2>2, <2>3
<1>3. In(queue, c) <=> \E l \in Manager, i \in Index : \E k \in 1 .. Len(Chain(l, i)) : Chain(l, i)[k] = c
  BY <1>1 DEF In
<1> QED
  BY <1>2, <1>3

\* All chunks of s have class i.
AllOf(z, s, i) == \A k \in 1 .. Len(s) : z[s[k]] = i

LEMMA Joins ==
  ASSUME NEW s \in Seq(Chunk), NEW t \in Seq(Chunk), NEW z, NEW i,
         AllOf(z, s, i), AllOf(z, t, i)
  PROVE  AllOf(z, s \o t, i)
<1> DEFINE u == s \o t
<1>1. Joined(s, t, u)
  BY Concat
<1> HIDE DEF u
<1>2. ASSUME NEW k \in 1 .. Len(u) PROVE z[u[k]] = i
  <2>1. CASE k \in 1 .. Len(s)
    BY <1>1, <2>1 DEF Joined, AllOf
  <2>2. CASE \E j \in 1 .. Len(t) : k = Len(s) + j
    BY <1>1, <2>2 DEF Joined, AllOf
  <2> QED
    BY <1>1, <2>1, <2>2 DEF Joined
<1> QED
  BY <1>2 DEF u, AllOf

LEMMA LInit == Init => LInv /\ Q!Init
<1> SUFFICES ASSUME Init PROVE LInv /\ Q!Init
  OBVIOUS
<1> DEFINE q == [l \in Manager |-> [i \in Index |-> <<>>]]
<1>1. q \in Queues /\ \A l \in Manager, i \in Index : q[l][i] = <<>> /\ Len(q[l][i]) = 0
  BY EmptySeq DEF Queues
<1> HIDE DEF q
<1>2. /\ mem \in Mem
      /\ \A l \in Manager, i \in Index : mem.heads[l][i] = Null /\ mem.lasts[l][i] = Null
      /\ \A c \in Chunk : mem.next[c] = Null
  BY DEF Init, Mem, PointerTable
<1>3. Holds(mem, q)
  BY <1>1, <1>2 DEF Holds, Ends, Path
<1>4. Apart(q) /\ Loose(mem, q)
  BY <1>1, <1>2 DEF Apart, Loose
<1>5. queue = q
  BY <1>3, <1>4, QueueNow DEF Good
<1>6. LInv
  BY <1>1, <1>3, <1>4, <1>5 DEF Good, LInv, Sized, Init
<1>7. Q!Init
  BY <1>5 DEF Q!Init, Init, q
<1> QED
  BY <1>6, <1>7

LEMMA Unfold ==
  ASSUME LInv
  PROVE  /\ Good(mem, queue) /\ queue \in Queues
         /\ \A l \in Manager, i \in Index : queue[l][i] \in Seq(Chunk) /\ Len(queue[l][i]) \in Nat
BY QueueType DEF LInv, Good, Holds

LEMMA AllocateStep ==
  ASSUME LInv, NEW l \in Manager, NEW i \in Index, Allocate(l, i)
  PROVE  LInv' /\ \E batch \in Q!Batches : Q!Allocate(l, i, batch)
<1>0. PICK n \in 1 .. MaxBatch : \E t \in [1 .. n -> Fresh] :
        /\ \A j, k \in 1 .. n : t[j] = t[k] => j = k
        /\ mem' = append(Linked(mem, t), l, i, t[1], t[n])
        /\ size' = [c \in Chunk |-> IF \E k \in 1 .. n : t[k] = c THEN i ELSE size[c]]
  BY DEF Allocate
<1>1. PICK t \in [1 .. n -> Fresh] :
        /\ \A j, k \in 1 .. n : t[j] = t[k] => j = k
        /\ mem' = append(Linked(mem, t), l, i, t[1], t[n])
        /\ size' = [c \in Chunk |-> IF \E k \in 1 .. n : t[k] = c THEN i ELSE size[c]]
  BY <1>0
<1>2. n \in Nat \ {0} /\ t \in [1 .. n -> Chunk] /\ \A k \in 1 .. n : t[k] \in Chunk /\ size[t[k]] = Null
  <2>1. n \in Nat \ {0}
    BY MemoryLinkedListAssumption
  <2> QED
    BY <2>1 DEF Fresh
<1>3. t \in Seq(Chunk) /\ Len(t) = n /\ DOMAIN t = 1 .. n
  <2>1. t \in Seq(Chunk) /\ DOMAIN t = 1 .. n
    BY <1>2, SeqDef
  <2> QED
    BY <1>2, <2>1, LenProperties
<1>4. \A c : In(queue, c) => size[c] # Null
  BY MemoryLinkedListAssumption DEF LInv, Sized, In
<1>5. PICK r : /\ Good(mem', r)
               /\ Replaced(queue, r, l, i, queue[l][i] \o t)
               /\ Added(queue, r, t)
  <2>1. /\ Good(mem, queue)
        /\ \A j, k \in 1 .. n : t[j] = t[k] => j = k
        /\ \A k \in 1 .. n : ~In(queue, t[k])
    BY <1>1, <1>2, <1>4 DEF LInv
  <2> HIDE <1>1
  <2>2. \E r : /\ Good(append(Linked(mem, t), l, i, t[1], t[n]), r)
               /\ Replaced(queue, r, l, i, queue[l][i] \o t)
               /\ Added(queue, r, t)
    BY <1>2, <2>1, AllocateGood
  <2> QED
    BY <1>1, <2>2
<1>6. queue' = r
  BY <1>5, QueueNext
<1>7. size' \in [Chunk -> Index \cup {Null}] /\ \A k \in 1 .. n : size'[t[k]] = i
  BY <1>1, <1>2 DEF LInv
<1>8. \A c : In(queue, c) => size'[c] = size[c]
  <2> SUFFICES ASSUME NEW c, In(queue, c) PROVE size'[c] = size[c]
    OBVIOUS
  <2>1. c \in Chunk
    BY QueueType, Unfold DEF In
  <2>2. \A k \in 1 .. n : t[k] # c
    BY <1>2, <1>4
  <2> QED
    BY <1>1, <2>1, <2>2
<1>9. \A k \in Manager, j \in Index : \A x \in 1 .. Len(queue[k][j]) : size'[queue[k][j][x]] = j
  BY <1>8 DEF In, LInv, Sized
<1>10. Sized(r, size')
  <2> SUFFICES ASSUME NEW k \in Manager, NEW j \in Index
               PROVE  \A x \in 1 .. Len(r[k][j]) : size'[r[k][j][x]] = j
    BY DEF Sized
  <2>1. CASE k = l /\ j = i
    <3>1. AllOf(size', queue[l][i], i) /\ AllOf(size', t, i)
      BY <1>3, <1>7, <1>9 DEF AllOf
    <3>2. AllOf(size', queue[l][i] \o t, i)
      BY <1>3, <3>1, Unfold, Joins
    <3> QED
      BY <1>5, <2>1, <3>2 DEF Replaced, AllOf
  <2>2. CASE ~(k = l /\ j = i)
    BY <1>5, <1>9, <2>2 DEF Replaced
  <2> QED
    BY <2>1, <2>2
<1>11. LInv'
  BY <1>5, <1>6, <1>7, <1>10 DEF LInv
<1>12. t \in Q!Batches
  BY <1>2, <1>3 DEF Q!Batches
<1>13. Q!Allocate(l, i, t)
  <2>1. queue' = [queue EXCEPT ![l][i] = queue[l][i] \o t]
    <3>1. queue \in Queues /\ queue[l][i] \o t \in Seq(Chunk)
      BY <1>3, Unfold, ConcatProperties
    <3> QED
      BY <1>5, <1>6, <3>1, ReplacedIs
  <2> QED
    BY <1>1, <1>2, <1>3, <2>1 DEF Q!Allocate
<1> QED
  BY <1>11, <1>12, <1>13

LEMMA MallocStep ==
  ASSUME LInv, NEW l \in Manager, NEW i \in Index, Malloc(l, i)
  PROVE  LInv' /\ Q!Malloc(l, i)
<1> DEFINE s == queue[l][i]
           u == Tail(s)
           r == [queue EXCEPT ![l][i] = u]
<1>1. mem' = pop(mem, l, i) /\ size' = size /\ mem.heads[l][i] # Null
  BY DEF Malloc, Empty
<1>2. Good(mem, queue) /\ queue \in Queues /\ s \in Seq(Chunk) /\ Len(s) \in Nat
  BY Unfold
<1>3. s # <<>>
  BY <1>1, <1>2, QueueEnds DEF Good
<1>4. Rest(s, u) /\ u \in Seq(Chunk)
  BY <1>2, <1>3, HeadTailProperties DEF Rest
<1> HIDE DEF u
<1>5. Replaced(queue, r, l, i, u)
  BY <1>2, <1>4, QueueExcept
<1> HIDE DEF r
<1>6. Good(mem', r)
  BY <1>1, <1>2, <1>3, <1>4, <1>5, PopGood
<1>7. queue' = r
  BY <1>6, QueueNext
<1>8. Sized(r, size)
  <2> SUFFICES ASSUME NEW k \in Manager, NEW j \in Index, NEW x \in 1 .. Len(r[k][j])
               PROVE  size[r[k][j][x]] = j
    BY DEF Sized
  <2>1. CASE k = l /\ j = i
    <3>1. r[k][j] = u /\ x + 1 \in 1 .. Len(s) /\ u[x] = s[x + 1]
      BY <1>2, <1>4, <1>5, <2>1 DEF Replaced, Rest
    <3> QED
      BY <2>1, <3>1 DEF LInv, Sized
  <2>2. CASE ~(k = l /\ j = i)
    BY <1>5, <2>2 DEF Replaced, LInv, Sized
  <2> QED
    BY <2>1, <2>2
<1>9. LInv'
  BY <1>1, <1>6, <1>7, <1>8 DEF LInv
<1>10. Q!Malloc(l, i)
  BY <1>1, <1>3, <1>7 DEF Q!Malloc, r, u
<1> QED
  BY <1>9, <1>10

LEMMA FreeStep ==
  ASSUME LInv, NEW l \in Manager, NEW c \in Chunk, Free(l, c)
  PROVE  LInv' /\ Q!Free(l, c)
<1> DEFINE i == size[c]
           s == queue[l][i]
           t == <<c>>
           u == s \o t
           r == [queue EXCEPT ![l][i] = u]
<1>1. mem' = push(mem, l, i, c) /\ size' = size /\ i \in Index /\ ~In(queue, c)
  <2>1. size \in [Chunk -> Index \cup {Null}]
    BY DEF LInv
  <2> QED
    BY <2>1, ListedIsIn DEF Free
<1> HIDE DEF i
<1>2. Good(mem, queue) /\ queue \in Queues /\ s \in Seq(Chunk) /\ t \in Seq(Chunk) /\ Len(t) = 1 /\ t[1] = c
  BY <1>1, Unfold
<1> HIDE DEF s, t
<1>3. Joined(s, t, u) /\ u \in Seq(Chunk)
  BY <1>2, Concat DEF Joined
<1>4. u = Append(s, c)
  BY <1>2, AppendIsConcat DEF t
<1> HIDE DEF u
<1>5. Replaced(queue, r, l, i, u)
  BY <1>1, <1>2, <1>3, QueueExcept
<1> HIDE DEF r
<1>6. Good(mem', r)
  <2>1. Joined(queue[l][i], <<c>>, u)
    BY <1>3 DEF s, t
  <2>2. Good(push(mem, l, i, c), r)
    BY <1>1, <1>2, <1>5, <2>1, PushGood
  <2> QED
    BY <1>1, <2>2
<1>7. queue' = r
  BY <1>6, QueueNext
<1>8. Sized(r, size)
  <2> SUFFICES ASSUME NEW k \in Manager, NEW j \in Index
               PROVE  \A x \in 1 .. Len(r[k][j]) : size[r[k][j][x]] = j
    BY DEF Sized
  <2>1. CASE k = l /\ j = i
    <3>1. AllOf(size, s, i) /\ AllOf(size, t, i)
      BY <1>1, <1>2 DEF LInv, Sized, AllOf, s, i
    <3>2. AllOf(size, s \o t, i)
      BY <1>2, <3>1, Joins
    <3> QED
      BY <1>5, <2>1, <3>2 DEF Replaced, AllOf, u
  <2>2. CASE ~(k = l /\ j = i)
    BY <1>5, <2>2 DEF Replaced, LInv, Sized
  <2> QED
    BY <2>1, <2>2
<1>9. LInv'
  BY <1>1, <1>6, <1>7, <1>8 DEF LInv
<1>10. Q!Free(l, c)
  <2>1. ~Q!InQueue(c)
    BY <1>1 DEF Q!InQueue, In
  <2>2. queue' = [queue EXCEPT ![l][i] = Append(s, c)]
    BY <1>4, <1>7 DEF r
  <2> QED
    BY <1>1, <2>1, <2>2, MemoryLinkedListAssumption DEF Q!Free, i, s
<1> QED
  BY <1>9, <1>10

LEMMA SwapStep ==
  ASSUME LInv, NEW a \in Manager, NEW b \in Manager \ {a}, NEW i \in Index, Swap(a, b, i)
  PROVE  LInv' /\ Q!Swap(a, b, i)
<1> DEFINE r == [queue EXCEPT ![a][i] = queue[b][i], ![b][i] = queue[a][i]]
<1>1. mem' = SwapLists(mem, a, b, i) /\ size' = size
  BY DEF Swap
<1>2. /\ Good(mem, queue) /\ queue \in [Manager -> [Index -> Seq(Chunk)]]
      /\ queue[a][i] \in Seq(Chunk) /\ queue[b][i] \in Seq(Chunk)
  BY Unfold DEF Queues
<1>3. Exchanged(Seq(Chunk), queue, r, a, b, i, queue[b][i], queue[a][i])
  BY <1>2, SwapTable
<1> HIDE DEF r
<1>4. Swapped(queue, r, a, b, i)
  BY <1>3 DEF Exchanged, Swapped, Queues
<1>5. Good(mem', r)
  BY <1>1, <1>2, <1>4, SwapGood
<1>6. queue' = r
  BY <1>5, QueueNext
<1>7. Sized(r, size)
  <2> SUFFICES ASSUME NEW k \in Manager, NEW j \in Index, NEW x \in 1 .. Len(r[k][j])
               PROVE  size[r[k][j][x]] = j
    BY DEF Sized
  <2>1. PICK k2 \in Manager : r[k][j] = queue[k2][j]
    BY <1>4 DEF Swapped
  <2> QED
    BY <2>1 DEF LInv, Sized
<1>8. LInv'
  BY <1>1, <1>5, <1>6, <1>7 DEF LInv
<1>9. Q!Swap(a, b, i)
  BY <1>1, <1>6 DEF Q!Swap, r
<1> QED
  BY <1>8, <1>9

LEMMA JoinStep ==
  ASSUME LInv, NEW to \in Manager, NEW from \in Manager \ {to}, Join(to, from)
  PROVE  LInv' /\ Q!Join(to, from)
<1> DEFINE x == [i \in Index |-> queue[to][i] \o queue[from][i]]
           y == [i \in Index |-> <<>>]
           e == [queue EXCEPT ![to] = x, ![from] = y]
<1>1. mem' = JoinLists(mem, to, from) /\ size' = size
  BY DEF Join
<1>2. /\ Good(mem, queue) /\ queue \in [Manager -> [Index -> Seq(Chunk)]]
      /\ \A l \in Manager, i \in Index : queue[l][i] \in Seq(Chunk)
  BY Unfold DEF Queues
<1>3. PICK r : Good(mem', r) /\ JoinedOn(queue, r, to, from, Index)
  <2>1. \E r : /\ Good(JoinLists(mem, to, from), r)
               /\ JoinedOn(queue, r, to, from, Index) /\ Same(queue, r)
    BY <1>2, JoinGood
  <2> QED
    BY <1>1, <2>1
<1>4. queue' = r
  BY <1>3, QueueNext
<1>5. x \in [Index -> Seq(Chunk)] /\ y \in [Index -> Seq(Chunk)]
  BY <1>2, ConcatProperties, EmptySeq
<1>6. r = e
  <2>1. /\ \A i \in Index : r[to][i] = x[i] /\ r[from][i] = y[i]
        /\ \A l \in Manager, i \in Index : ~(l \in {to, from}) => r[l][i] = queue[l][i]
        /\ r \in [Manager -> [Index -> Seq(Chunk)]]
    BY <1>3 DEF JoinedOn, Queues
  <2> HIDE DEF x, y
  <2>2. /\ e \in [Manager -> [Index -> Seq(Chunk)]] /\ e[to] = x /\ e[from] = y
        /\ \A l \in Manager : l \notin {to, from} => e[l] = queue[l]
    BY <1>2, <1>5
  <2> HIDE DEF e
  <2>3. \A l \in Manager, i \in Index : r[l][i] = e[l][i]
    BY <2>1, <2>2
  <2> QED
    BY <2>1, <2>2, <2>3, TableEqual
<1>7. Sized(r, size)
  <2> SUFFICES ASSUME NEW k \in Manager, NEW j \in Index
               PROVE  \A n \in 1 .. Len(r[k][j]) : size[r[k][j][n]] = j
    BY DEF Sized
  <2>0. \A l \in Manager : AllOf(size, queue[l][j], j)
    BY DEF LInv, Sized, AllOf
  <2>1. CASE k = to
    <3>1. r[k][j] = queue[to][j] \o queue[from][j]
      BY <1>3, <2>1 DEF JoinedOn
    <3>2. AllOf(size, queue[to][j] \o queue[from][j], j)
      BY <1>2, <2>0, Joins
    <3> QED
      BY <3>1, <3>2 DEF AllOf
  <2>2. CASE k = from
    <3>1. Len(r[k][j]) = 0
      BY <1>3, <2>2, EmptySeq DEF JoinedOn
    <3> QED
      BY <3>1
  <2>3. CASE k \notin {to, from}
    BY <1>3, <2>0, <2>3 DEF JoinedOn, AllOf
  <2> QED
    BY <2>1, <2>2, <2>3
<1>8. LInv'
  BY <1>1, <1>3, <1>4, <1>7 DEF LInv
<1>9. Q!Join(to, from)
  BY <1>1, <1>4, <1>6 DEF Q!Join
<1> QED
  BY <1>8, <1>9

LEMMA RefillStep ==
  ASSUME LInv, NEW from \in Manager, NEW to \in Manager \ {from}, NEW i \in Index,
         Refill(from, to, i)
  PROVE  LInv' /\ \E n \in 1 .. MaxBatch : Q!Refill(from, to, i, n)
<1>1. PICK n \in 1 .. MaxBatch : mem' = RefillLists(mem, from, to, i, n)
  BY DEF Refill
<1> DEFINE f == queue[from][i]
           g == queue[to][i]
           k == IF n <= Len(f) THEN n ELSE Len(f)
           rest == SubSeq(f, k + 1, Len(f))
           moved == SubSeq(f, 1, k)
           u == g \o moved
           e == [queue EXCEPT ![from][i] = rest, ![to][i] = u]
<1>2. n \in Nat /\ size' = size
  BY MemoryLinkedListAssumption DEF Refill
<1>3. /\ Good(mem, queue) /\ queue \in [Manager -> [Index -> Seq(Chunk)]]
      /\ f \in Seq(Chunk) /\ g \in Seq(Chunk) /\ Len(f) \in Nat
  BY Unfold DEF Queues
<1>4. PICK r : Good(mem', r) /\ Refilled(queue, r, from, to, i, k)
  <2>1. to \in Manager /\ from \in Manager \ {to}
    OBVIOUS
  <2>2. \E r : /\ Good(RefillLists(mem, from, to, i, n), r) /\ Same(queue, r)
               /\ Refilled(queue, r, from, to, i, k)
    BY <1>2, <1>3, <2>1, RefillGood
  <2> QED
    BY <1>1, <2>2
<1>5. queue' = r
  BY <1>4, QueueNext
<1>6. k \in Nat /\ k <= Len(f)
  BY <1>2, <1>3
<1> HIDE DEF f, g, k
<1>7. /\ r \in [Manager -> [Index -> Seq(Chunk)]]
      /\ r[from][i] = rest /\ r[to][i] = u
      /\ \A l \in Manager, j \in Index : ~(l \in {to, from} /\ j = i) => r[l][j] = queue[l][j]
  BY <1>4 DEF Refilled, Queues, f, g
<1>8. /\ rest \in Seq(Chunk) /\ moved \in Seq(Chunk) /\ u \in Seq(Chunk)
      /\ \A x \in 1 .. Len(rest) : \E y \in 1 .. Len(f) : rest[x] = f[y]
      /\ \A x \in 1 .. Len(moved) : \E y \in 1 .. Len(f) : moved[x] = f[y]
  <2>1. \A x \in 1 .. Len(f) : f[x] \in Chunk
    BY <1>3, ElementOfSeq
  <2>2. /\ rest \in Seq(Chunk)
        /\ Len(rest) = IF k + 1 <= Len(f) THEN Len(f) - (k + 1) + 1 ELSE 0
        /\ \A x \in 1 .. Len(f) - (k + 1) + 1 : rest[x] = f[(k + 1) + x - 1]
    <3>1. \A x \in k + 1 .. Len(f) : f[x] \in Chunk
      BY <1>3, <1>6, <2>1
    <3> QED
      BY <1>3, <1>6, <3>1, SubSeqProperties
  <2>3. /\ moved \in Seq(Chunk)
        /\ Len(moved) = IF 1 <= k THEN k - 1 + 1 ELSE 0
        /\ \A x \in 1 .. k - 1 + 1 : moved[x] = f[1 + x - 1]
    <3>1. \A x \in 1 .. k : f[x] \in Chunk
      BY <1>3, <1>6, <2>1
    <3> QED
      BY <1>6, <3>1, SubSeqProperties
  <2>4. u \in Seq(Chunk)
    BY <1>3, <2>3, ConcatProperties
  <2> HIDE DEF rest, moved, u
  <2>5. ASSUME NEW x \in 1 .. Len(rest) PROVE \E y \in 1 .. Len(f) : rest[x] = f[y]
    <3>1. (k + 1) + x - 1 \in 1 .. Len(f) /\ x \in 1 .. Len(f) - (k + 1) + 1
      BY <1>3, <1>6, <2>2
    <3> QED
      BY <2>2, <3>1
  <2>6. ASSUME NEW x \in 1 .. Len(moved) PROVE \E y \in 1 .. Len(f) : moved[x] = f[y]
    <3>1. 1 + x - 1 \in 1 .. Len(f) /\ x \in 1 .. k - 1 + 1
      BY <1>3, <1>6, <2>3
    <3> QED
      BY <2>3, <3>1
  <2> QED
    BY <2>2, <2>3, <2>4, <2>5, <2>6
<1>9. r = e
  <2> HIDE DEF rest, u
  <2>1. Exchanged(Seq(Chunk), queue, e, from, to, i, rest, u)
    BY <1>3, <1>8, SwapTable
  <2> HIDE DEF e
  <2>2. /\ e \in [Manager -> [Index -> Seq(Chunk)]]
        /\ \A l \in Manager, j \in Index : r[l][j] = e[l][j]
    BY <1>7, <2>1 DEF Exchanged
  <2> QED
    BY <1>7, <2>2, TableEqual
<1>10. Sized(r, size)
  <2> SUFFICES ASSUME NEW l \in Manager, NEW j \in Index
               PROVE  \A x \in 1 .. Len(r[l][j]) : size[r[l][j][x]] = j
    BY DEF Sized
  <2>0. AllOf(size, f, i) /\ AllOf(size, g, i)
    BY DEF LInv, Sized, AllOf, f, g
  <2>1. CASE l = from /\ j = i
    <3> HIDE DEF rest
    <3>1. AllOf(size, rest, i)
      BY <1>8, <2>0 DEF AllOf
    <3>2. r[l][j] = rest
      BY <1>7, <2>1
    <3> QED
      BY <2>1, <3>1, <3>2 DEF AllOf
  <2>2. CASE l = to /\ j = i
    <3> HIDE DEF moved
    <3>1. AllOf(size, moved, i)
      BY <1>8, <2>0 DEF AllOf
    <3>2. AllOf(size, u, i)
      BY <1>3, <1>8, <2>0, <3>1, Joins
    <3> HIDE DEF u
    <3>3. r[l][j] = u
      BY <1>7, <2>2
    <3> QED
      BY <2>2, <3>2, <3>3 DEF AllOf
  <2>3. CASE ~(l \in {to, from} /\ j = i)
    <3>1. r[l][j] = queue[l][j]
      <4> HIDE DEF rest, u
      <4> QED
        BY <1>7, <2>3
    <3> QED
      BY <3>1 DEF LInv, Sized
  <2> QED
    BY <2>1, <2>2, <2>3
<1>11. LInv'
  BY <1>2, <1>4, <1>5, <1>10 DEF LInv
<1>12. Q!Refill(from, to, i, n)
  <2>1. queue' = [queue EXCEPT ![from][i] = rest, ![to][i] = @ \o moved]
    BY <1>5, <1>9 DEF g
  <2> QED
    BY <1>2, <2>1 DEF Q!Refill, f, k
<1> QED
  BY <1>11, <1>12

\* An empty batch appended to an empty list leaves the pointers as they are.
LEMMA AllocateNoneStep ==
  ASSUME LInv, NEW l \in Manager, NEW i \in Index, AllocateNone(l, i)
  PROVE  mem' = mem /\ size' = size
<1>1. mem \in Mem /\ mem.heads[l][i] = Null /\ mem.lasts[l][i] = Null
  BY QueueEnds DEF LInv, Good, AllocateNone, Empty
<1>2. append(mem, l, i, Null, Null) = mem
  BY <1>1 DEF append, Mem, PointerTable
<1> QED
  BY <1>2 DEF AllocateNone

LEMMA StepQueues ==
  ASSUME LInv, [Next]_vars
  PROVE  LInv' /\ [Q!Next]_<<queue, size>>
<1>1. CASE UNCHANGED vars
  <2>1. mem' = mem /\ size' = size
    BY <1>1 DEF vars
  <2>2. queue' = queue
    BY <2>1 DEF queue, Chain
  <2>3. LInv'
    BY <2>1, <2>2 DEF LInv
  <2> QED
    BY <2>1, <2>2, <2>3
<1>2. ASSUME NEW l \in Manager, NEW i \in Index, Allocate(l, i) \/ Malloc(l, i)
      PROVE  LInv' /\ Q!Next
  BY <1>2, AllocateStep, MallocStep DEF Q!Next
<1>3. ASSUME NEW l \in Manager, NEW c \in Chunk, Free(l, c)
      PROVE  LInv' /\ Q!Next
  <2>1. size[c] \in Index
    BY <1>3 DEF LInv, Free
  <2> QED
    BY <1>3, <2>1, FreeStep DEF Q!Next
<1>4. ASSUME NEW l \in Manager, NEW m \in Manager \ {l}, NEW i \in Index,
             Swap(l, m, i) \/ Refill(l, m, i)
      PROVE  LInv' /\ Q!Next
  BY <1>4, SwapStep, RefillStep DEF Q!Next
<1>5. ASSUME NEW l \in Manager, NEW m \in Manager \ {l}, Join(l, m)
      PROVE  LInv' /\ [Q!Next]_<<queue, size>>
  <2>1. LInv' /\ Q!Join(l, m)
    BY <1>5, JoinStep
  <2>2. CASE Index # {}
    BY <2>1, <2>2 DEF Q!Next
  <2>3. CASE Index = {}
    <3>1. queue \in [Manager -> [Index -> Seq(Chunk)]] /\ queue' \in [Manager -> [Index -> Seq(Chunk)]]
      BY <2>1 DEF LInv, Good, Holds, Queues
    <3>2. queue' = queue
      BY <2>3, <3>1, TableEqual
    <3> QED
      BY <1>5, <2>1, <3>2 DEF Join
  <2> QED
    BY <2>2, <2>3, <2>1
<1>6. ASSUME NEW l \in Manager, NEW i \in Index, AllocateNone(l, i)
      PROVE  UNCHANGED vars
  BY <1>6, AllocateNoneStep DEF vars
<1> QED
  BY <1>1, <1>2, <1>3, <1>4, <1>5, <1>6 DEF Next

-----------------------------------------------------------------------------
(* The theorems.                                                           *)

\* The inductive invariant: the lists hold the elements of their queues in
\* order, ending in lasts_, no chunk is on two lists or twice on one, chunks on
\* no list point nowhere, and a listed chunk has the class of its list.
THEOREM LInvariant == Spec => []LInv
<1>1. Init => LInv
  BY LInit
<1>2. LInv /\ [Next]_vars => LInv'
  BY StepQueues
<1> QED
  BY <1>1, <1>2, PTL DEF Spec

LEMMA LInvShape == LInv => WellFormed /\ FreeNextIsNull
<1> SUFFICES ASSUME LInv PROVE WellFormed /\ FreeNextIsNull
  OBVIOUS
<1>1. /\ Holds(mem, queue) /\ mem \in Mem
      /\ \A l \in Manager, i \in Index : queue[l][i] = Chain(l, i)
  BY DEF LInv, Good, Holds, queue
<1>2. ASSUME NEW l \in Manager, NEW i \in Index
      PROVE  /\ heads[l][i] = Null <=> lasts[l][i] = Null
             /\ Chain(l, i) # <<>> =>
                  Chain(l, i)[Len(Chain(l, i))] = lasts[l][i] /\ next[lasts[l][i]] = Null
  BY <1>1, QueueEnds DEF Holds, Path, heads, lasts, next
<1>3. WellFormed
  BY <1>1, <1>2 DEF WellFormed, Mem, LInv
<1>4. FreeNextIsNull
  BY ListedIsIn DEF FreeNextIsNull, LInv, Good, Loose, next
<1> QED
  BY <1>3, <1>4

\* Whatever sequence of append, push, pop, Malloc, Free, Swap and Join has been
\* called, every list can be walked from heads_ and ends at lasts_, whose next_
\* is nullptr, and the two are nullptr together.
THEOREM WellFormedAlways == Spec => []WellFormed
BY LInvariant, LInvShape, PTL

\* What pop and Malloc give out has been cut off: SetNext(nullptr) is never
\* forgotten, so a chunk that comes back brings no tail with it.
THEOREM FreeNextIsNullAlways == Spec => []FreeNextIsNull
BY LInvariant, LInvShape, PTL

\* Seen from its callers the manager is a table of FIFO queues: each method does
\* to the chains what its name says of queues, in one step, and nothing else.
THEOREM PointersImplementQueues == Spec => ImplementsQueues
<1>1. Init => Q!Init
  BY LInit
<1>2. LInv /\ [Next]_vars => [Q!Next]_<<queue, size>>
  BY StepQueues
<1> QED
  BY <1>1, <1>2, LInvariant, PTL DEF Spec, ImplementsQueues, Q!Spec
=============================================================================
