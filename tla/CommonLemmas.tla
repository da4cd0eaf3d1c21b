--------------------------- MODULE CommonLemmas ----------------------------
(***************************************************************************)
(* Facts that the proofs of several components use: a scan that returns    *)
(* the first match finds a least element, an index taken modulo the size   *)
(* of a table is within the table, a ring of cells is a queue, a loop that *)
(* ends has a result and keeps what each of its rounds keeps, and so has   *)
(* one that counts.                                                        *)
(***************************************************************************)
EXTENDS Integers, SequenceTheorems, WellFoundedInduction, TLAPS

\* A set of naturals that is not empty has a least element.
LEMMA LeastOf ==
  ASSUME NEW T \in SUBSET Nat, T # {}
  PROVE  \E m \in T : \A k \in T : m <= k
<1>1. PICK m \in T : \A k \in T : ~(<<k, m>> \in OpToRel(<, Nat))
  BY NatLessThanWellFounded, WFMin
<1>2. \A k \in T : ~(k < m)
  BY <1>1 DEF OpToRel
<1> QED BY <1>2

\* A set of naturals that is not empty and has a bound has a greatest element.
LEMMA GreatestOf ==
  ASSUME NEW T \in SUBSET Nat, T # {}, NEW b \in Nat, \A k \in T : k <= b
  PROVE  \E m \in T : \A k \in T : k <= m
<1> DEFINE U == {b - k : k \in T}
<1>1. U \in SUBSET Nat /\ U # {}
  <2>1. \A k \in T : b - k \in Nat
    OBVIOUS
  <2> QED BY <2>1
<1>2. PICK u \in U : \A v \in U : u <= v
  BY <1>1, LeastOf
<1>3. PICK m \in T : u = b - m
  BY <1>2
<1>4. ASSUME NEW k \in T PROVE k <= m
  <2>1. b - k \in U
    OBVIOUS
  <2>2. b - m <= b - k /\ k \in Nat /\ m \in Nat
    BY <1>2, <1>3, <2>1
  <2> QED BY <2>2
<1> QED BY <1>4

\* A remainder stays below the modulus.
LEMMA ModRange ==
  ASSUME NEW a \in Int, NEW n \in Nat, n > 0
  PROVE  a % n \in 0 .. n - 1
OBVIOUS

\* The remainder of a number that is less than one modulus too large or too small.
LEMMA ModSmall ==
  ASSUME NEW n \in Nat \ {0}, NEW a \in 0 .. n - 1
  PROVE  a % n = a
OBVIOUS

LEMMA ModAbove ==
  ASSUME NEW n \in Nat \ {0}, NEW a \in n .. 2 * n - 1
  PROVE  a % n = a - n
OBVIOUS

LEMMA ModBelow ==
  ASSUME NEW n \in Nat \ {0}, NEW a \in -n .. -1
  PROVE  a % n = a + n
OBVIOUS
---------------------------------------------------------------------------
(* A ring of N cells with a head and a tail, read as a sequence: the cells *)
(* from the tail up to the one before the head.                            *)

RingIndex(N)        == 0 .. N - 1
RingNext(N, i)      == (i + 1) % N
RingDist(N, h, t)   == (h - t) % N
RingCell(N, t, i)   == (t + i) % N
RingStore(b, i, k)  == [b EXCEPT ![i] = k]
RingSeq(N, b, h, t) == [i \in 1 .. RingDist(N, h, t) |-> b[RingCell(N, t, i - 1)]]

\* The successor of an index.
LEMMA RingNextIs ==
  ASSUME NEW N \in Nat \ {0}, NEW i \in RingIndex(N)
  PROVE  RingNext(N, i) = (IF i + 1 = N THEN 0 ELSE i + 1) /\ RingNext(N, i) \in RingIndex(N)
<1>1. CASE i + 1 = N
  BY <1>1, ModAbove DEF RingNext, RingIndex
<1>2. CASE i + 1 # N
  <2>1. i + 1 \in 0 .. N - 1
    BY <1>2 DEF RingIndex
  <2> QED BY <1>2, <2>1, ModSmall DEF RingNext, RingIndex
<1> QED BY <1>1, <1>2

\* How far one index is behind another.
LEMMA RingDistIs ==
  ASSUME NEW N \in Nat \ {0}, NEW h \in RingIndex(N), NEW t \in RingIndex(N)
  PROVE  /\ RingDist(N, h, t) = (IF h >= t THEN h - t ELSE h - t + N)
         /\ RingDist(N, h, t) \in RingIndex(N) /\ RingDist(N, h, t) \in Nat
         /\ RingDist(N, h, t) = 0 <=> h = t
<1>1. CASE h >= t
  <2>1. h - t \in 0 .. N - 1
    BY <1>1 DEF RingIndex
  <2> QED BY <1>1, <2>1, ModSmall DEF RingDist, RingIndex
<1>2. CASE h < t
  <2>1. h - t \in -N .. -1
    BY <1>2 DEF RingIndex
  <2> QED BY <1>2, <2>1, ModBelow DEF RingDist, RingIndex
<1> QED BY <1>1, <1>2 DEF RingIndex

\* The cell a number of places after the tail.
LEMMA RingCellIs ==
  ASSUME NEW N \in Nat \ {0}, NEW t \in RingIndex(N), NEW i \in RingIndex(N)
  PROVE  /\ (t + i) % N = (IF t + i < N THEN t + i ELSE (t + i) - N)
         /\ (t + i) % N \in RingIndex(N)
<1>1. CASE t + i < N
  <2>1. t + i \in 0 .. N - 1
    BY <1>1 DEF RingIndex
  <2> QED BY <1>1, <2>1, ModSmall DEF RingIndex
<1>2. CASE t + i >= N
  <2>1. t + i \in N .. 2 * N - 1
    BY <1>2 DEF RingIndex
  <2>2. (t + i) % N = (t + i) - N
    BY <2>1, ModAbove
  <2>3. (t + i) - N \in RingIndex(N) /\ ~(t + i < N)
    BY <1>2, <2>1 DEF RingIndex
  <2> QED BY <2>2, <2>3
<1>3. t + i < N \/ t + i >= N
  BY DEF RingIndex
<1> QED BY <1>1, <1>2, <1>3

\* The cells in use are distinct, and the head is not one of them.
LEMMA RingCellsDiffer ==
  ASSUME NEW N \in Nat \ {0}, NEW h \in RingIndex(N), NEW t \in RingIndex(N)
  PROVE  /\ \A i \in RingIndex(N) : RingCell(N, t, i) \in RingIndex(N)
         /\ \A i, j \in RingIndex(N) : RingCell(N, t, i) = RingCell(N, t, j) => i = j
         /\ RingCell(N, t, 0) = t /\ RingCell(N, t, RingDist(N, h, t)) = h
         /\ \A i \in RingIndex(N) : i + 1 \in RingIndex(N)
                                  => RingCell(N, t, i + 1) = RingNext(N, RingCell(N, t, i))
<1>1. /\ RingDist(N, h, t) = (IF h >= t THEN h - t ELSE h - t + N)
      /\ RingDist(N, h, t) \in RingIndex(N) /\ 0 \in RingIndex(N)
  BY RingDistIs DEF RingIndex
<1>2. \A i \in RingIndex(N) : /\ RingCell(N, t, i) = (IF t + i < N THEN t + i ELSE (t + i) - N)
                       /\ RingCell(N, t, i) \in RingIndex(N)
  BY RingCellIs DEF RingCell
<1>3. \A i, j \in RingIndex(N) : RingCell(N, t, i) = RingCell(N, t, j) => i = j
  BY <1>2 DEF RingIndex
<1>4. RingCell(N, t, 0) = t /\ RingCell(N, t, RingDist(N, h, t)) = h
  BY <1>1, <1>2 DEF RingIndex
<1>5. ASSUME NEW i \in RingIndex(N), i + 1 \in RingIndex(N)
      PROVE  RingCell(N, t, i + 1) = RingNext(N, RingCell(N, t, i))
  <2>1. RingNext(N, RingCell(N, t, i)) = (IF RingCell(N, t, i) + 1 = N THEN 0 ELSE RingCell(N, t, i) + 1)
    BY <1>2, RingNextIs
  <2> QED BY <1>2, <1>5, <2>1 DEF RingIndex
<1> QED BY <1>2, <1>3, <1>4, <1>5

\* The queue is a sequence of as many entries as there are cells in use.
LEMMA RingSeqLen ==
  ASSUME NEW N \in Nat \ {0}, NEW b, NEW h \in RingIndex(N), NEW t \in RingIndex(N)
  PROVE  Len(RingSeq(N, b, h, t)) = RingDist(N, h, t)
<1> DEFINE n == RingDist(N, h, t)
           V == {b[RingCell(N, t, i - 1)] : i \in 1 .. n}
           s == RingSeq(N, b, h, t)
<1>1. n \in Nat
  BY RingDistIs
<1>2. s \in [1 .. n -> V]
  BY <1>1 DEF RingSeq
<1> HIDE DEF n, V, s
<1>3. s \in Seq(V)
  BY <1>1, <1>2, SeqDef
<1>4. Len(s) = n
  BY <1>1, <1>2, <1>3, LenProperties
<1> QED BY <1>4 DEF s, n

LEMMA RingSeqIs ==
  ASSUME NEW N \in Nat \ {0}, NEW S, NEW b, \A x \in RingIndex(N) : b[x] \in S,
         NEW h \in RingIndex(N), NEW t \in RingIndex(N)
  PROVE  RingSeq(N, b, h, t) \in Seq(S)
<1> DEFINE s == RingSeq(N, b, h, t)
           n == RingDist(N, h, t)
<1>1. n \in Nat /\ \A i \in 1 .. n : i - 1 \in RingIndex(N)
  BY RingDistIs DEF RingIndex
<1>2. \A i \in 1 .. n : b[RingCell(N, t, i - 1)] \in S
  BY <1>1, RingCellsDiffer
<1>3. s \in [1 .. n -> S]
  BY <1>2 DEF RingSeq
<1> QED BY <1>1, <1>3, SeqDef

\* Two queues are the same if they are as long and agree cell by cell.
LEMMA RingSeqEqual ==
  ASSUME NEW N \in Nat \ {0}, NEW S, NEW b, \A x \in RingIndex(N) : b[x] \in S,
         NEW h \in RingIndex(N), NEW t \in RingIndex(N),
         NEW s \in Seq(S), Len(s) = RingDist(N, h, t),
         \A i \in 1 .. Len(s) : s[i] = b[RingCell(N, t, i - 1)]
  PROVE  RingSeq(N, b, h, t) = s
<1> DEFINE r == RingSeq(N, b, h, t)
<1>1. r \in Seq(S)
  BY RingSeqIs
<1>2. Len(r) = Len(s) /\ Len(s) \in Nat
  BY RingSeqLen, LenProperties
<1>3. \A i \in 1 .. Len(s) : r[i] = b[RingCell(N, t, i - 1)]
  BY <1>2 DEF RingSeq
<1> HIDE DEF r
<1>4. \A i \in 1 .. Len(r) : r[i] = s[i]
  BY <1>2, <1>3
<1>5. r = s
  BY <1>1, <1>2, <1>4, SeqEqual
<1> QED BY <1>5 DEF r

\* The ring is full when the cell after the head is the tail.
LEMMA RingFullIs ==
  ASSUME NEW N \in Nat \ {0}, NEW h \in RingIndex(N), NEW t \in RingIndex(N)
  PROVE  /\ RingNext(N, h) = t <=> ~(RingDist(N, h, t) < N - 1)
         /\ RingNext(N, h) # t => RingDist(N, RingNext(N, h), t) = RingDist(N, h, t) + 1
<1>1. RingDist(N, h, t) = IF h >= t THEN h - t ELSE h - t + N
  BY RingDistIs
<1>2. RingNext(N, h) = (IF h + 1 = N THEN 0 ELSE h + 1) /\ RingNext(N, h) \in RingIndex(N)
  BY RingNextIs
<1>3. RingDist(N, RingNext(N, h), t) = IF RingNext(N, h) >= t THEN RingNext(N, h) - t
                                  ELSE RingNext(N, h) - t + N
  BY <1>2, RingDistIs
<1> QED BY <1>1, <1>2, <1>3 DEF RingIndex

\* A store at the head that finds room appends.
LEMMA RingSeqPush ==
  ASSUME NEW N \in Nat \ {0}, NEW b, DOMAIN b = RingIndex(N), NEW k,
         NEW h \in RingIndex(N), NEW t \in RingIndex(N), RingNext(N, h) # t
  PROVE  RingSeq(N, RingStore(b, h, k), RingNext(N, h), t) = Append(RingSeq(N, b, h, t), k)
<1> DEFINE c == RingStore(b, h, k)
           q == RingSeq(N, b, h, t)
           n == RingDist(N, h, t)
           S == {b[x] : x \in RingIndex(N)} \cup {k}
<1>0. /\ c[h] = k /\ \A x \in RingIndex(N) : x # h => c[x] = b[x]
      /\ \A x \in RingIndex(N) : b[x] \in S /\ c[x] \in S
  BY DEF RingStore
<1>1. RingNext(N, h) \in RingIndex(N) /\ k \in S
  BY RingNextIs
<1> HIDE DEF c, S
<1>2. RingDist(N, RingNext(N, h), t) = n + 1 /\ n \in Nat /\ n < N - 1
  BY RingFullIs, RingDistIs DEF RingIndex
<1>3. q \in Seq(S) /\ Len(q) = n /\ \A i \in 1 .. n : q[i] = b[RingCell(N, t, i - 1)]
  <2>1. q \in Seq(S)
    BY <1>0, RingSeqIs
  <2>2. Len(q) = n
    BY RingSeqLen
  <2>3. n \in Nat
    BY RingDistIs
  <2>4. \A i \in 1 .. n : q[i] = b[RingCell(N, t, i - 1)]
    BY <2>3 DEF RingSeq
  <2> QED BY <2>1, <2>2, <2>4
<1>4. /\ Append(q, k) \in Seq(S) /\ Len(Append(q, k)) = n + 1
      /\ \A i \in 1 .. n : Append(q, k)[i] = q[i]
      /\ Append(q, k)[n + 1] = k
  <2> HIDE DEF q, n
  <2> QED BY <1>1, <1>3, AppendProperties
<1>5. ASSUME NEW i \in 1 .. n + 1 PROVE Append(q, k)[i] = c[RingCell(N, t, i - 1)]
  <2>1. i - 1 \in RingIndex(N) /\ n \in RingIndex(N)
    BY <1>2 DEF RingIndex
  <2>2. /\ RingCell(N, t, i - 1) \in RingIndex(N) /\ RingCell(N, t, n) = h
        /\ (i - 1 # n => RingCell(N, t, i - 1) # h)
    BY <2>1, RingCellsDiffer
  <2>3. CASE i = n + 1
    <3>1. RingCell(N, t, i - 1) = h /\ c[h] = k
      BY <1>0, <1>2, <2>2, <2>3
    <3> HIDE DEF q, n
    <3> QED BY <1>4, <2>3, <3>1
  <2>4. CASE i # n + 1
    <3>1. i \in 1 .. n /\ i - 1 # n
      BY <1>2, <2>4
    <3>2. c[RingCell(N, t, i - 1)] = b[RingCell(N, t, i - 1)]
      BY <1>0, <2>2, <3>1
    <3> HIDE DEF q, n
    <3> QED BY <1>3, <1>4, <3>1, <3>2
  <2> QED BY <2>3, <2>4
<1>6. RingSeq(N, c, RingNext(N, h), t) = Append(q, k)
  <2> DEFINE s == Append(q, k)
  <2>1. /\ s \in Seq(S) /\ Len(s) = RingDist(N, RingNext(N, h), t)
        /\ \A i \in 1 .. Len(s) : s[i] = c[RingCell(N, t, i - 1)]
    <3>1. Len(s) = n + 1
      BY <1>4
    <3> QED BY <1>2, <1>4, <1>5, <3>1
  <2> HIDE DEF s
  <2>2. RingSeq(N, c, RingNext(N, h), t) = s
    BY <1>0, <1>1, <2>1, RingSeqEqual
  <2> QED BY <2>2 DEF s
<1> QED BY <1>6 DEF c

\* A read at the tail takes the first entry.
LEMMA RingSeqPop ==
  ASSUME NEW N \in Nat \ {0}, NEW b,
         NEW h \in RingIndex(N), NEW t \in RingIndex(N), h # t
  PROVE  /\ RingSeq(N, b, h, t) # <<>> /\ Head(RingSeq(N, b, h, t)) = b[t]
         /\ RingSeq(N, b, h, RingNext(N, t)) = Tail(RingSeq(N, b, h, t))
<1> DEFINE q == RingSeq(N, b, h, t)
           n == RingDist(N, h, t)
           S == {b[x] : x \in RingIndex(N)}
<1>0. \A x \in RingIndex(N) : b[x] \in S
  OBVIOUS
<1> HIDE DEF S
<1>1. /\ n \in RingIndex(N) /\ n # 0 /\ RingNext(N, t) \in RingIndex(N)
      /\ 0 \in RingIndex(N) /\ 1 \in RingIndex(N)
  <2>1. n \in RingIndex(N) /\ n # 0
    BY RingDistIs
  <2>2. RingNext(N, t) \in RingIndex(N)
    BY RingNextIs
  <2> HIDE DEF n
  <2> QED BY <2>1, <2>2 DEF RingIndex
<1>2. RingDist(N, h, RingNext(N, t)) = n - 1
  <2>1. n = IF h >= t THEN h - t ELSE h - t + N
    BY RingDistIs
  <2>2. RingNext(N, t) = IF t + 1 = N THEN 0 ELSE t + 1
    BY RingNextIs
  <2>3. RingDist(N, h, RingNext(N, t)) = IF h >= RingNext(N, t) THEN h - RingNext(N, t)
                                     ELSE h - RingNext(N, t) + N
    BY <1>1, RingDistIs
  <2> QED BY <2>1, <2>2, <2>3 DEF RingIndex
<1>3. q \in Seq(S) /\ Len(q) = n /\ \A i \in 1 .. n : q[i] = b[RingCell(N, t, i - 1)]
  <2>1. q \in Seq(S)
    BY <1>0, RingSeqIs
  <2>2. Len(q) = n
    BY RingSeqLen
  <2>3. n \in Nat
    BY RingDistIs
  <2>4. \A i \in 1 .. n : q[i] = b[RingCell(N, t, i - 1)]
    BY <2>3 DEF RingSeq
  <2> QED BY <2>1, <2>2, <2>4
<1>4. q # <<>>
  BY <1>1, <1>3, EmptySeq
<1>5. Head(q) = b[t]
  <2>1. 1 \in 1 .. n /\ RingCell(N, t, 1 - 1) = t
    BY <1>1, RingCellsDiffer DEF RingIndex
  <2>2. q[1] = b[t]
    BY <1>3, <2>1
  <2> QED BY <1>3, <2>2
<1>6. /\ Tail(q) \in Seq(S) /\ Len(Tail(q)) = n - 1
      /\ \A i \in 1 .. n - 1 : Tail(q)[i] = q[i + 1]
  <2> HIDE DEF q, n
  <2> QED BY <1>3, <1>4, HeadTailProperties
<1>7. ASSUME NEW i \in 1 .. n - 1 PROVE Tail(q)[i] = b[RingCell(N, RingNext(N, t), i - 1)]
  <2>1. i \in RingIndex(N) /\ i - 1 \in RingIndex(N) /\ i + 1 \in 1 .. n /\ (i + 1) - 1 = i
    BY <1>1 DEF RingIndex
  <2>2. RingCell(N, RingNext(N, t), i - 1) = RingCell(N, t, i)
    <3>1. RingNext(N, t) = IF t + 1 = N THEN 0 ELSE t + 1
      BY RingNextIs
    <3>2. RingCell(N, t, i) = IF t + i < N THEN t + i ELSE (t + i) - N
      BY <2>1, RingCellIs DEF RingCell
    <3>3. RingCell(N, RingNext(N, t), i - 1) = IF RingNext(N, t) + (i - 1) < N
                                   THEN RingNext(N, t) + (i - 1) ELSE (RingNext(N, t) + (i - 1)) - N
      BY <1>1, <2>1, RingCellIs DEF RingCell
    <3> QED BY <2>1, <3>1, <3>2, <3>3 DEF RingIndex
  <2>3. Tail(q)[i] = q[i + 1] /\ q[i + 1] = b[RingCell(N, t, (i + 1) - 1)]
    BY <1>3, <1>6, <2>1
  <2> QED BY <2>1, <2>2, <2>3
<1>8. RingSeq(N, b, h, RingNext(N, t)) = Tail(q)
  <2> DEFINE s == Tail(q)
  <2>1. /\ s \in Seq(S) /\ Len(s) = RingDist(N, h, RingNext(N, t))
        /\ \A i \in 1 .. Len(s) : s[i] = b[RingCell(N, RingNext(N, t), i - 1)]
    <3>1. Len(s) = n - 1
      BY <1>6
    <3> QED BY <1>2, <1>6, <1>7, <3>1
  <2> HIDE DEF s
  <2>2. RingSeq(N, b, h, RingNext(N, t)) = s
    BY <1>0, <1>1, <2>1, RingSeqEqual
  <2> QED BY <2>2 DEF s
<1> QED BY <1>4, <1>5, <1>8

\* What is stored in the cell that was read is not part of the queue any more.
LEMMA RingSeqForgets ==
  ASSUME NEW N \in Nat \ {0}, NEW b, DOMAIN b = RingIndex(N), NEW k,
         NEW h \in RingIndex(N), NEW t \in RingIndex(N), h # t
  PROVE  RingSeq(N, RingStore(b, t, k), h, RingNext(N, t)) = Tail(RingSeq(N, b, h, t))
<1> DEFINE u == RingNext(N, t)
           n == RingDist(N, h, u)
           c == RingStore(b, t, k)
<1>1. \A x \in RingIndex(N) : x # t => c[x] = b[x]
  BY DEF RingStore
<1>2. u \in RingIndex(N) /\ u = (IF t + 1 = N THEN 0 ELSE t + 1)
  BY RingNextIs
<1>3. n \in Nat /\ n < N - 1
  <2>1. n = IF h >= u THEN h - u ELSE h - u + N
    BY <1>2, RingDistIs
  <2> HIDE DEF n, u
  <2> QED BY <1>2, <2>1 DEF RingIndex
<1>4. ASSUME NEW i \in 1 .. n PROVE c[RingCell(N, u, i - 1)] = b[RingCell(N, u, i - 1)]
  <2> DEFINE x == RingCell(N, u, i - 1)
  <2>1. i - 1 \in RingIndex(N)
    <3> HIDE DEF n
    <3> QED BY <1>3 DEF RingIndex
  <2>2. x \in RingIndex(N) /\ x = IF u + (i - 1) < N THEN u + (i - 1) ELSE (u + (i - 1)) - N
    BY <1>2, <2>1, RingCellIs DEF RingCell
  <2>3. x # t
    <3> HIDE DEF n, u, x
    <3> QED BY <1>2, <1>3, <2>2 DEF RingIndex
  <2> HIDE DEF c, x
  <2>4. c[x] = b[x]
    BY <1>1, <2>2, <2>3
  <2> QED BY <2>4 DEF x
<1>5. RingSeq(N, c, h, u) = RingSeq(N, b, h, u)
  <2> HIDE DEF c, u
  <2> QED BY <1>4 DEF RingSeq
<1>6. RingSeq(N, b, h, u) = Tail(RingSeq(N, b, h, t))
  BY RingSeqPop
<1> QED BY <1>5, <1>6

---------------------------------------------------------------------------
(* A loop, as the recursive function of the state it starts in: G, where   *)
(* it goes on; step, one round of it; m, what every round makes smaller.   *)

LoopFunction(S, G, step, f) == f = [s \in S |-> IF s \in G THEN f[step[s]] ELSE s]

\* A loop that ends has a result.
LEMMA LoopEnds ==
  ASSUME NEW S, NEW G \in SUBSET S, NEW step \in [S -> S], NEW m \in [S -> Nat],
         \A s \in G : m[step[s]] < m[s]
  PROVE  \E f : LoopFunction(S, G, step, f)
<1> DEFINE Closed(Q) ==
             /\ \A s \in S \ G : <<s, s>> \in Q
             /\ \A s \in G, t \in S : <<step[s], t>> \in Q => <<s, t>> \in Q
           R == {p \in S \X S : \A Q \in SUBSET (S \X S) : Closed(Q) => p \in Q}
           One(s) == \E t \in S : <<s, t>> \in R /\ \A u \in S : <<s, u>> \in R => u = t
           Bad == {s \in S : ~One(s)}
<1>1. Closed(R) /\ R \in SUBSET (S \X S)
  OBVIOUS
<1>2. ASSUME NEW Q \in SUBSET (S \X S), Closed(Q) PROVE R \subseteq Q
  BY <1>2
<1>3. ASSUME NEW s \in S, NEW t \in S, Closed(R \ {<<s, t>>}) PROVE <<s, t>> \notin R
  <2>1. R \ {<<s, t>>} \in SUBSET (S \X S)
    BY <1>1
  <2>2. R \subseteq R \ {<<s, t>>}
    BY <1>2, <1>3, <2>1
  <2> QED BY <2>2
<1> HIDE DEF R
<1>4. Bad = {}
  <2> SUFFICES ASSUME Bad # {} PROVE FALSE
    OBVIOUS
  <2>0. Bad \in SUBSET S
    OBVIOUS
  <2> DEFINE T == {m[s] : s \in Bad}
  <2>1. T \in SUBSET Nat /\ T # {}
    <3> HIDE DEF Bad
    <3> QED BY <2>0
  <2>2. PICK k \in T : \A j \in T : k <= j
    BY <2>1, LeastOf
  <2>3. PICK s \in Bad : m[s] = k
    BY <2>2
  <2>4. \A r \in S : m[r] < m[s] => One(r)
    <3>1. \A r \in Bad : m[s] <= m[r] /\ m[r] \in Nat /\ m[s] \in Nat
      <4> HIDE DEF Bad
      <4> QED BY <2>0, <2>2, <2>3
    <3>2. \A a, b \in Nat : a <= b => ~(b < a)
      OBVIOUS
    <3> HIDE DEF One
    <3> QED BY <3>1, <3>2
  <2>5. CASE s \notin G
    <3>1. <<s, s>> \in R
      BY <1>1, <2>5
    <3>2. ASSUME NEW u \in S, <<s, u>> \in R PROVE u = s
      <4> SUFFICES ASSUME u # s PROVE FALSE
        OBVIOUS
      <4>1. Closed(R \ {<<s, u>>})
        BY <1>1, <2>5
      <4> QED BY <1>3, <3>2, <4>1
    <3> QED BY <3>1, <3>2
  <2>6. CASE s \in G
    <3>1. step[s] \in S /\ One(step[s])
      BY <2>4, <2>6
    <3>2. PICK t \in S : <<step[s], t>> \in R /\ \A u \in S : <<step[s], u>> \in R => u = t
      BY <3>1
    <3>3. <<s, t>> \in R
      BY <1>1, <2>6, <3>2
    <3>4. ASSUME NEW u \in S, <<s, u>> \in R PROVE u = t
      <4> SUFFICES ASSUME u # t PROVE FALSE
        OBVIOUS
      <4> DEFINE Q == R \ {<<s, u>>}
      <4>1. \A r \in S \ G : <<r, r>> \in Q
        BY <1>1, <2>6
      <4>2. ASSUME NEW r \in G, NEW v \in S, <<step[r], v>> \in Q PROVE <<r, v>> \in Q
        <5>1. <<step[r], v>> \in R
          BY <4>2
        <5>2. <<r, v>> \in R
          BY <1>1, <5>1
        <5>3. ~(r = s /\ v = u)
          BY <3>2, <5>1
        <5> QED BY <5>2, <5>3
      <4>3. Closed(R \ {<<s, u>>})
        BY <4>1, <4>2
      <4> QED BY <1>3, <3>4, <4>3
    <3>5. \A u \in S : <<s, u>> \in R => u = t
      BY <3>4
    <3>6. One(s)
      BY <3>3, <3>5
    <3> QED BY <3>6
  <2> QED BY <2>5, <2>6
<1> DEFINE f == [s \in S |-> CHOOSE t \in S : <<s, t>> \in R]
<1>5. \A s \in S : One(s)
  BY <1>4
<1>6. \A s \in S : f[s] \in S /\ <<s, f[s]>> \in R /\ \A u \in S : <<s, u>> \in R => u = f[s]
  BY <1>5
<1>7. ASSUME NEW s \in S PROVE f[s] = IF s \in G THEN f[step[s]] ELSE s
  <2>1. CASE s \notin G
    BY <1>1, <1>6, <2>1
  <2>2. CASE s \in G
    <3>1. step[s] \in S
      BY <2>2
    <3>2. <<step[s], f[step[s]]>> \in R /\ f[step[s]] \in S
      BY <1>6, <3>1
    <3> HIDE DEF f
    <3>3. <<s, f[step[s]]>> \in R
      BY <1>1, <2>2, <3>2
    <3> QED BY <1>6, <2>2, <3>2, <3>3
  <2> QED BY <2>1, <2>2
<1>8. f = [s \in S |-> IF s \in G THEN f[step[s]] ELSE s]
  <2>1. f \in [S -> S]
    BY <1>6
  <2> HIDE DEF f
  <2> QED BY <1>7, <2>1
<1> HIDE DEF f
<1> QED BY <1>8 DEF LoopFunction

\* What every round keeps holds at the end, where the loop does not go on.
LEMMA LoopKeeps ==
  ASSUME NEW S, NEW G \in SUBSET S, NEW step, NEW m \in [S -> Nat],
         NEW f, LoopFunction(S, G, step, f), NEW I \in SUBSET S,
         \A s \in I \cap G : step[s] \in I /\ m[step[s]] < m[s]
  PROVE  \A s \in I : f[s] \in I \ G
<1> DEFINE Bad == {s \in I : f[s] \notin I \ G}
           T == {m[s] : s \in Bad}
<1> SUFFICES ASSUME Bad # {} PROVE FALSE
  OBVIOUS
<1>1. T \in SUBSET Nat /\ T # {}
  OBVIOUS
<1>2. PICK k \in T : \A j \in T : k <= j
  BY <1>1, LeastOf
<1>3. PICK s \in Bad : m[s] = k
  BY <1>2
<1>4. s \in I /\ s \in S /\ f[s] = IF s \in G THEN f[step[s]] ELSE s
  BY DEF LoopFunction
<1>5. CASE s \notin G
  BY <1>3, <1>4, <1>5
<1>6. CASE s \in G
  <2>1. step[s] \in I /\ m[step[s]] < m[s] /\ step[s] \in S /\ f[s] = f[step[s]]
    BY <1>4, <1>6
  <2>2. step[s] \in Bad
    BY <1>3, <2>1
  <2>3. k <= m[step[s]] /\ m[step[s]] \in Nat /\ k \in Nat
    BY <1>1, <1>2, <2>1, <2>2
  <2> QED BY <1>3, <2>1, <2>3
<1> QED BY <1>5, <1>6

---------------------------------------------------------------------------
(* Counters. *)

\* What holds at 0 and is passed on holds up to N.
LEMMA UpTo ==
  ASSUME NEW N \in Nat, NEW T, 0 \in T, \A n \in 1 .. N : n - 1 \in T => n \in T
  PROVE  \A n \in 0 .. N : n \in T
<1> DEFINE Bad == {n \in 0 .. N : n \notin T}
<1> SUFFICES ASSUME Bad # {} PROVE FALSE
  OBVIOUS
<1>1. Bad \in SUBSET Nat
  OBVIOUS
<1>2. PICK m \in Bad : \A k \in Bad : m <= k
  BY <1>1, LeastOf
<1>3. m \in 1 .. N /\ m - 1 \in 0 .. N /\ ~(m <= m - 1)
  BY <1>2
<1>4. m - 1 \in T
  BY <1>2, <1>3
<1> QED BY <1>2, <1>3, <1>4

\* A loop that counts to N: f[n] is what n rounds make of base; there is such an f.
Rounds(N, S, base, g, f) ==
  f \in [0 .. N -> S] /\ f[0] = base /\ \A n \in 1 .. N : f[n] = g[<<f[n - 1], n>>]

LEMMA CountedLoop ==
  ASSUME NEW N \in Nat, NEW S, NEW base \in S, NEW g \in [S \X (1 .. N) -> S]
  PROVE  \E f : Rounds(N, S, base, g, f)
<1> DEFINE T == {m \in 0 .. N : \E f : Rounds(m, S, base, g, f)}
<1>1. 0 \in T
  <2> DEFINE h == [n \in 0 .. 0 |-> base]
  <2>1. h \in [0 .. 0 -> S] /\ h[0] = base
    OBVIOUS
  <2> HIDE DEF h
  <2>2. Rounds(0, S, base, g, h)
    BY <2>1 DEF Rounds
  <2> QED BY <2>2
<1>2. ASSUME NEW m \in 1 .. N, m - 1 \in T PROVE m \in T
  <2>1. PICK f : Rounds(m - 1, S, base, g, f)
    BY <1>2
  <2> DEFINE h == [n \in 0 .. m |-> IF n = m THEN g[<<f[m - 1], m>>] ELSE f[n]]
  <2>7. f \in [0 .. m - 1 -> S] /\ f[0] = base /\ \A n \in 1 .. m - 1 : f[n] = g[<<f[n - 1], n>>]
    BY <2>1 DEF Rounds
  <2>2. f[m - 1] \in S /\ g[<<f[m - 1], m>>] \in S
    BY <2>7
  <2>3. \A n \in 0 .. m : n # m => n \in 0 .. m - 1
    OBVIOUS
  <2>4. h \in [0 .. m -> S]
    BY <2>7, <2>2, <2>3
  <2>5. h[0] = base
    BY <2>7
  <2>6. ASSUME NEW n \in 1 .. m PROVE h[n] = g[<<h[n - 1], n>>]
    <3>1. n - 1 \in 0 .. m /\ n - 1 # m /\ h[n - 1] = f[n - 1]
      OBVIOUS
    <3>2. CASE n = m
      BY <3>1, <3>2
    <3>3. CASE n # m
      <4>1. n \in 1 .. m - 1 /\ h[n] = f[n]
        BY <3>3
      <4> QED BY <2>7, <3>1, <4>1
    <3> QED BY <3>2, <3>3
  <2> HIDE DEF h
  <2>8. Rounds(m, S, base, g, h)
    BY <2>4, <2>5, <2>6 DEF Rounds
  <2> QED BY <2>8
<1> HIDE DEF T
<1>3. \A n \in 0 .. N : n \in T
  BY <1>1, <1>2, UpTo
<1>4. N \in T
  BY <1>3
<1> QED BY <1>4 DEF T
=============================================================================
