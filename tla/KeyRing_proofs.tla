--------------------------- MODULE KeyRing_proofs ---------------------------
(***************************************************************************)
(* For every width of the index, a ring is the bounded queue of KeyQueue,  *)
(* whatever the keyboard interrupt does between the steps of appq_take.    *)
(* What has to be known besides the types is that the queue does not run   *)
(* empty under appq_take: the head only moves away from the tail while it  *)
(* is at work, and the head it has read is one the queue still has.        *)
(***************************************************************************)
EXTENDS KeyRing, CommonLemmas

Cells         == [Index -> Key \cup {NoKey}]
Behind(h, t)  == (h - t) % Wrap
Place(t, i)   == (t + i) % Wrap
Ring(b, h, t) == [i \in 1 .. Behind(h, t) |-> b[Place(t, i - 1)]]

Steps ==
  /\ step = "shifted" => head # tail
  /\ step = "loaded" => loaded # tail /\ Behind(loaded, tail) <= Count

IInv == TypeOK /\ Steps
---------------------------------------------------------------------------
(* The indices and the ring are those of a ring of Wrap cells. *)

\* The index and the ring are those of a ring of Wrap cells.
LEMMA Bridge ==
  /\ Wrap \in Nat \ {0} /\ Index = RingIndex(Wrap)
  /\ \A i : After(i) = RingNext(Wrap, i)
  /\ \A h, t : Behind(h, t) = RingDist(Wrap, h, t)
  /\ \A t, i : Place(t, i) = RingCell(Wrap, t, i)
  /\ \A b, h, t : Ring(b, h, t) = RingSeq(Wrap, b, h, t)
BY RingAssumption
   DEF Index, After, Behind, Place, Ring, RingIndex, RingNext, RingDist, RingCell, RingSeq

\* The successor of an index.
LEMMA AfterIs ==
  ASSUME NEW i \in Index
  PROVE  After(i) = (IF i + 1 = Wrap THEN 0 ELSE i + 1) /\ After(i) \in Index
BY RingNextIs, Bridge

\* How far one index is behind another.
LEMMA BehindIs ==
  ASSUME NEW h \in Index, NEW t \in Index
  PROVE  /\ Behind(h, t) = (IF h >= t THEN h - t ELSE h - t + Wrap)
         /\ Behind(h, t) \in Index
         /\ Behind(h, t) = 0 <=> h = t
BY RingDistIs, Bridge

\* The cell a number of places after the tail.
LEMMA PlaceIs ==
  ASSUME NEW t \in Index, NEW i \in Index
  PROVE  /\ (t + i) % Wrap = (IF t + i < Wrap THEN t + i ELSE (t + i) - Wrap)
         /\ (t + i) % Wrap \in Index
BY RingCellIs, Bridge DEF Place, RingCell

\* The cells in use are distinct, and the head is not one of them.
LEMMA PlacesDiffer ==
  ASSUME NEW h \in Index, NEW t \in Index
  PROVE  /\ \A i \in Index : Place(t, i) \in Index
         /\ \A i, j \in Index : Place(t, i) = Place(t, j) => i = j
         /\ Place(t, 0) = t /\ Place(t, Behind(h, t)) = h
         /\ \A i \in Index : i + 1 \in Index => Place(t, i + 1) = After(Place(t, i))
BY RingCellsDiffer, Bridge

\* The queue is a sequence of as many keys as there are cells in use.
LEMMA RingIs ==
  ASSUME NEW b \in Cells, NEW h \in Index, NEW t \in Index
  PROVE  /\ Ring(b, h, t) \in Seq(Key \cup {NoKey}) /\ Len(Ring(b, h, t)) = Behind(h, t)
         /\ DOMAIN Ring(b, h, t) = 1 .. Behind(h, t)
         /\ Behind(h, t) \in Nat
         /\ \A i \in 1 .. Behind(h, t) : Ring(b, h, t)[i] = b[Place(t, i - 1)]
<1>1. Ring(b, h, t) \in Seq(Key \cup {NoKey})
  <2>1. \A x \in RingIndex(Wrap) : b[x] \in Key \cup {NoKey}
    BY Bridge DEF Cells
  <2> QED BY <2>1, Bridge, RingSeqIs
<1>2. Len(Ring(b, h, t)) = Behind(h, t)
  BY Bridge, RingSeqLen
<1>3. Behind(h, t) \in Nat
  BY BehindIs DEF Index
<1> QED BY <1>1, <1>2, <1>3 DEF Ring

\* Two queues are the same if they are as long and agree cell by cell.
LEMMA RingEqual ==
  ASSUME NEW b \in Cells, NEW h \in Index, NEW t \in Index,
         NEW n, Behind(h, t) = n,
         NEW s \in Seq(Key \cup {NoKey}), Len(s) = n,
         \A i \in 1 .. n : s[i] = b[Place(t, i - 1)]
  PROVE  Ring(b, h, t) = s
<1> DEFINE S == Key \cup {NoKey}
<1>1. s \in Seq(S) /\ Len(s) = RingDist(Wrap, h, t) /\ \A x \in RingIndex(Wrap) : b[x] \in S
  BY Bridge DEF Cells
<1>2. \A i \in 1 .. Len(s) : s[i] = b[RingCell(Wrap, t, i - 1)]
  BY Bridge
<1> HIDE DEF S
<1>3. RingSeq(Wrap, b, h, t) = s
  BY <1>1, <1>2, Bridge, RingSeqEqual
<1> QED BY <1>3, Bridge

\* The ring is full when the cell after the head is the tail.
LEMMA FullIs ==
  ASSUME NEW h \in Index, NEW t \in Index
  PROVE  /\ After(h) = t <=> ~(Behind(h, t) < Wrap - 1)
         /\ After(h) # t => Behind(After(h), t) = Behind(h, t) + 1
BY RingFullIs, Bridge

\* A push that finds room appends.
LEMMA RingPush ==
  ASSUME NEW b, DOMAIN b = Index, NEW k, NEW h \in Index, NEW t \in Index, After(h) # t
  PROVE  Ring(RingStore(b, h, k), After(h), t) = Append(Ring(b, h, t), k)
BY Bridge, RingSeqPush

\* A pop takes the first key.
LEMMA RingPop ==
  ASSUME NEW b \in Cells, NEW h \in Index, NEW t \in Index, h # t
  PROVE  /\ Ring(b, h, t) # <<>> /\ Head(Ring(b, h, t)) = b[t]
         /\ Ring(b, h, After(t)) = Tail(Ring(b, h, t))
<1>1. Wrap \in Nat \ {0} /\ h \in RingIndex(Wrap) /\ t \in RingIndex(Wrap)
  BY Bridge
<1>2. /\ RingSeq(Wrap, b, h, t) # <<>> /\ Head(RingSeq(Wrap, b, h, t)) = b[t]
      /\ RingSeq(Wrap, b, h, RingNext(Wrap, t)) = Tail(RingSeq(Wrap, b, h, t))
  BY <1>1, RingSeqPop
<1> QED BY <1>2, Bridge

USE RingAssumption

\* The predecessor, as appq_take computes it.
LEMMA BeforeIs ==
  ASSUME NEW i \in Index
  PROVE  (i - 1) % Wrap = (IF i = 0 THEN Wrap - 1 ELSE i - 1) /\ (i - 1) % Wrap \in Index
<1>1. CASE i = 0
  BY <1>1, ModBelow DEF Index
<1>2. CASE i # 0
  BY <1>2, ModSmall DEF Index
<1> QED BY <1>1, <1>2
---------------------------------------------------------------------------
(* The invariant. *)

LEMMA InitIInv == Init => IInv
BY DEF Init, IInv, TypeOK, Steps, Index

\* A push keeps the types, and moves the head by one or not at all.
LEMMA PushKeeps == ASSUME IInv, NEW k \in Key, Push(k) PROVE IInv'
<1>0. TypeOK /\ After(head) \in Index /\ tail' = tail /\ loaded' = loaded /\ step' = step
  BY AfterIs DEF IInv, TypeOK, Push
<1>1. TypeOK'
  BY <1>0 DEF Push, TypeOK
<1>2. CASE After(head) = tail
  BY <1>0, <1>1, <1>2 DEF Push, IInv, Steps, Count
<1>3. CASE After(head) # tail
  <2>1. head' = After(head)
    BY <1>3 DEF Push
  <2>2. /\ Count = Behind(head, tail) /\ Count' = Behind(After(head), tail)
    BY <1>0, <2>1 DEF Count, Behind
  <2>3. head \in Index /\ tail \in Index
    BY <1>0 DEF TypeOK
  <2>4. Count = IF head >= tail THEN head - tail ELSE head - tail + Wrap
    BY <2>2, <2>3, BehindIs
  <2>5. Count' = IF After(head) >= tail THEN After(head) - tail ELSE After(head) - tail + Wrap
    BY <1>0, <2>2, <2>3, BehindIs
  <2>6. After(head) = IF head + 1 = Wrap THEN 0 ELSE head + 1
    BY <2>3, AfterIs
  <2>7. Count' = Count + 1 /\ Count \in Nat
    BY <1>3, <2>3, <2>4, <2>5, <2>6 DEF Index
  <2>8. Behind(loaded, tail)' = Behind(loaded, tail) /\ Behind(loaded, tail) \in Nat
    BY <1>0, BehindIs DEF Behind, TypeOK, Index
  <2> QED BY <1>0, <1>1, <1>3, <2>1, <2>7, <2>8 DEF IInv, Steps
<1> QED BY <1>2, <1>3

LEMMA NextKeeps == IInv /\ [Next]_vars => IInv'
<1> SUFFICES ASSUME IInv, [Next]_vars PROVE IInv'
  OBVIOUS
<1>0. TypeOK
  BY DEF IInv
<1>1. ASSUME NEW k \in Key, Push(k) PROVE IInv'
  BY <1>1, PushKeeps
<1>2. CASE Pop
  <2>1. After(tail) \in Index /\ buf[tail] \in Key \cup {NoKey}
    BY <1>0, AfterIs DEF TypeOK
  <2> QED BY <1>0, <1>2, <2>1 DEF Pop, IInv, TypeOK, Steps
<1>3. ASSUME NEW K \in Codes, TakeShift(K) PROVE IInv'
  <2>1. TypeOK'
    <3>1. \A c \in Index : After(c) \in Index
      BY AfterIs
    <3> QED BY <1>0, <1>3, <3>1 DEF TakeShift, TypeOK
  <2>2. Count \in Nat /\ Count # 0
    BY <1>0, <1>3, BehindIs DEF TakeShift, Found, Count, Behind, TypeOK, Index
  <2>3. head # tail
    BY <1>0, <2>2, BehindIs DEF Count, Behind, TypeOK
  <2> QED BY <1>3, <2>1, <2>3 DEF TakeShift, IInv, Steps
<1>4. CASE TakeLoad
  <2>1. Behind(loaded, tail)' = Count' /\ Count' = Count /\ Count \in Nat
    BY <1>0, <1>4, BehindIs DEF TakeLoad, TypeOK, Count, Behind, Index
  <2>2. TypeOK'
    BY <1>0, <1>4 DEF TakeLoad, TypeOK
  <2> QED BY <1>4, <2>1, <2>2 DEF TakeLoad, IInv, Steps
<1>5. CASE TakeStore
  <2>1. (loaded - 1) % Wrap \in Index /\ 0 \in Index
    BY <1>0, BeforeIs DEF TypeOK, Index
  <2> QED BY <1>0, <1>5, <2>1 DEF TakeStore, IInv, TypeOK, Steps
<1>6. CASE UNCHANGED vars
  BY <1>6 DEF vars, IInv, TypeOK, Steps, Count, Behind
<1> QED BY <1>1, <1>2, <1>3, <1>4, <1>5, <1>6 DEF Next

LEMMA SpecIInv == Spec => []IInv
BY InitIInv, NextKeeps, PTL DEF Spec

\* The indices of the ring stay indices and its cells hold keys, for every width.
THEOREM Typed == Spec => []TypeOK
BY SpecIInv, PTL DEF IInv
---------------------------------------------------------------------------
(* What the steps do to the queue. *)

\* The store of a head read earlier cuts the queue off there, less one.
LEMMA RingCut ==
  ASSUME NEW b \in Cells, NEW h \in Index, NEW t \in Index, NEW l \in Index,
         l # t, Behind(l, t) <= Behind(h, t)
  PROVE  Ring(b, (l - 1) % Wrap, t) = SubSeq(Ring(b, h, t), 1, Behind(l, t) - 1)
<1> DEFINE q == Ring(b, h, t)
           n == Behind(h, t)
           m == Behind(l, t) - 1
           S == Key \cup {NoKey}
<1>1. n \in Nat /\ m \in Nat /\ m < n /\ (l - 1) % Wrap \in Index
  <2>1. n \in Index /\ Behind(l, t) \in Index /\ Behind(l, t) # 0 /\ (l - 1) % Wrap \in Index
    BY BehindIs, BeforeIs
  <2> QED BY <2>1 DEF Index
<1>2. Behind((l - 1) % Wrap, t) = m
  <2>1. Behind(l, t) = IF l >= t THEN l - t ELSE l - t + Wrap
    BY BehindIs
  <2>2. (l - 1) % Wrap = IF l = 0 THEN Wrap - 1 ELSE l - 1
    BY BeforeIs
  <2>3. Behind((l - 1) % Wrap, t) = IF (l - 1) % Wrap >= t THEN ((l - 1) % Wrap) - t
                                    ELSE ((l - 1) % Wrap) - t + Wrap
    BY <1>1, BehindIs
  <2> QED BY <2>1, <2>2, <2>3 DEF Index
<1>3. q \in Seq(S) /\ Len(q) = n /\ \A i \in 1 .. n : q[i] = b[Place(t, i - 1)]
  <2>1. q \in Seq(S)
    BY RingIs
  <2>2. Len(q) = n
    BY RingIs
  <2>3. \A i \in 1 .. n : q[i] = b[Place(t, i - 1)]
    BY <1>1 DEF Ring
  <2> QED BY <2>1, <2>2, <2>3
<1>4. /\ SubSeq(q, 1, m) \in Seq(S) /\ Len(SubSeq(q, 1, m)) = m
      /\ \A i \in 1 .. m : SubSeq(q, 1, m)[i] = q[i]
  <2> HIDE DEF q, n, m, S
  <2> QED BY <1>1, <1>3, SubSeqProperties
<1>5. \A i \in 1 .. m : SubSeq(q, 1, m)[i] = b[Place(t, i - 1)]
  BY <1>1, <1>3, <1>4
<1>6. Ring(b, (l - 1) % Wrap, t) = SubSeq(q, 1, m)
  <2> DEFINE s == SubSeq(q, 1, m)
  <2>1. s \in Seq(S) /\ Len(s) = m /\ \A i \in 1 .. m : s[i] = b[Place(t, i - 1)]
    BY <1>4, <1>5
  <2> HIDE DEF m, s
  <2>2. Ring(b, (l - 1) % Wrap, t) = s
    BY <1>1, <1>2, <2>1, RingEqual
  <2> QED BY <2>2 DEF s
<1> QED BY <1>6
---------------------------------------------------------------------------
(* Every step of the ring is a step of the queue. *)

\* The queue the ring stands for, and the length appq_take has read of it.
Keys   == Ring(buf, head, tail)
Length == IF step = "loaded" THEN Behind(loaded, tail) ELSE 0

LEMMA MapIs ==
  /\ Keys = [i \in 1 .. Count |-> buf[Cell(i - 1)]]
  /\ Length = IF step = "loaded" THEN (loaded - tail) % Wrap ELSE 0
BY DEF Keys, Length, Ring, Behind, Place, Count, Cell

LEMMA InitMaps == Init => Queue!Init
<1> SUFFICES ASSUME Init PROVE Queue!Init
  OBVIOUS
<1>1. head \in Index /\ tail \in Index /\ buf \in Cells /\ head = tail
  BY DEF Init, Index, Cells
<1>2. Len(Keys) = 0 /\ Keys \in Seq(Key \cup {NoKey})
  BY <1>1, BehindIs, RingIs DEF Keys
<1>3. Keys = <<>>
  BY <1>2, EmptySeq
<1> QED BY <1>3, MapIs DEF Init, Queue!Init

LEMMA PushMaps == ASSUME IInv, NEW k \in Key, Push(k) PROVE Queue!Push(k)
<1>1. buf \in Cells /\ head \in Index /\ tail \in Index /\ tail' = tail
  BY DEF IInv, TypeOK, Cells, Push
<1>2. Len(Keys) = Behind(head, tail)
  BY <1>1, RingIs DEF Keys
<1>3. After(head) = tail <=> ~(Len(Keys) < Wrap - 1)
  BY <1>1, <1>2, FullIs
<1>4. CASE After(head) = tail
  BY <1>3, <1>4, MapIs DEF Push, Queue!Push, Count, Cell
<1>5. CASE After(head) # tail
  <2>1. buf' = [buf EXCEPT ![head] = k] /\ head' = After(head)
    BY <1>5 DEF Push
  <2>2. Keys' = Append(Keys, k)
    <3>1. DOMAIN buf = Index
      BY <1>1 DEF Cells
    <3>2. Ring(RingStore(buf, head, k), After(head), tail) = Append(Ring(buf, head, tail), k)
      BY <1>1, <1>5, <3>1, RingPush
    <3> QED BY <1>1, <2>1, <3>2 DEF Keys, RingStore
  <2>3. Length' = Length
    BY <1>1 DEF Length, Push
  <2>4. [i \in 1 .. Count |-> buf[Cell(i - 1)]]' = Append([i \in 1 .. Count |-> buf[Cell(i - 1)]], k)
    BY <2>2 DEF Keys, Ring, Behind, Place, Count, Cell
  <2> QED BY <1>3, <1>5, <2>3, <2>4, MapIs DEF Queue!Push, Push
<1> QED BY <1>4, <1>5

LEMMA PopMaps == ASSUME IInv, Pop PROVE Queue!Pop
<1>1. buf \in Cells /\ head \in Index /\ tail \in Index /\ head # tail
  BY DEF IInv, TypeOK, Cells, Pop
<1>2. Keys # <<>> /\ Head(Keys) = buf[tail] /\ Ring(buf, head, After(tail)) = Tail(Keys)
  BY <1>1, RingPop DEF Keys
<1>3. Keys' = Tail(Keys)
  BY <1>2 DEF Pop, Keys
<1>4. [i \in 1 .. Count |-> buf[Cell(i - 1)]]' = Keys'
  BY DEF Keys, Ring, Behind, Place, Count, Cell
<1> QED BY <1>2, <1>3, <1>4, MapIs DEF Pop, Queue!Pop

\* The first key appq_take finds is the first of the queue, counted from one.
LEMMA FirstIs ==
  ASSUME IInv, NEW K, Found(K) # {}
  PROVE  First(K) \in 0 .. Count - 1 /\ Queue!Places(K) # {} /\ Queue!First(K) = First(K) + 1
<1> DEFINE P == Queue!Places(K)
<1>1. Count \in Nat
  BY BehindIs DEF IInv, TypeOK, Count, Behind, Index
<1>2. First(K) \in Found(K) /\ \A j \in Found(K) : First(K) <= j
  <2>1. Found(K) \in SUBSET Nat
    BY <1>1 DEF Found
  <2>2. \E m \in Found(K) : \A j \in Found(K) : m <= j
    BY <2>1, LeastOf
  <2> QED BY <2>2 DEF First
<1>3. First(K) \in 0 .. Count - 1
  BY <1>2 DEF Found
<1>4. P = {i \in 1 .. Count : buf[Cell(i - 1)] \in K}
  BY DEF Queue!Places
<1>5. \A i : i \in P <=> i \in 1 .. Count /\ i - 1 \in Found(K)
  BY <1>1, <1>4 DEF Found
<1> HIDE DEF P
<1>6. First(K) + 1 \in P /\ \A j \in P : First(K) + 1 <= j
  <2>1. First(K) + 1 \in 1 .. Count /\ (First(K) + 1) - 1 = First(K)
    BY <1>1, <1>3
  <2>2. \A j \in P : j \in Int /\ First(K) <= j - 1
    BY <1>1, <1>2, <1>5
  <2> QED BY <1>2, <1>3, <1>5, <2>1, <2>2
<1>7. \A j \in P : j \in Int
  BY <1>5
<1>8. Queue!First(K) = First(K) + 1
  <2>1. Queue!First(K) = CHOOSE i \in P : \A j \in P : i <= j
    BY DEF Queue!First, P
  <2>2. Queue!First(K) \in P /\ \A j \in P : Queue!First(K) <= j
    BY <1>6, <2>1
  <2> QED BY <1>3, <1>6, <1>7, <2>2
<1> QED BY <1>3, <1>6, <1>8 DEF P

\* appq_take moves every key after the one it takes a cell towards the tail.
LEMMA ShiftMoves ==
  ASSUME IInv, NEW K, TakeShift(K)
  PROVE  Keys' = [i \in DOMAIN Keys |->
                    IF First(K) + 1 <= i /\ i < Len(Keys) THEN Keys[i + 1] ELSE Keys[i]]
<1> DEFINE f   == First(K)
           n   == Behind(head, tail)
           gap == {Place(tail, i) : i \in f .. n - 2}
<1>1. /\ buf \in Cells /\ head \in Index /\ tail \in Index /\ Found(K) # {}
      /\ head' = head /\ tail' = tail
  BY DEF IInv, TypeOK, Cells, TakeShift
<1>2. f \in 0 .. n - 1 /\ n \in Index
  BY <1>1, FirstIs, BehindIs DEF Count, Behind
<1>3. DOMAIN Keys = 1 .. n /\ Len(Keys) = n
  BY <1>1, RingIs DEF Keys
<1>4. \A i \in 1 .. n : Keys[i] = buf[Place(tail, i - 1)]
  BY <1>1, RingIs DEF Keys
<1>5. \A x \in Index : buf'[x] = IF x \in gap THEN buf[After(x)] ELSE buf[x]
  BY DEF TakeShift, Count, Behind, Place, Cell
<1>6. ASSUME NEW i \in 1 .. n
      PROVE  buf'[Place(tail, i - 1)] = IF f + 1 <= i /\ i < n THEN Keys[i + 1] ELSE Keys[i]
  <2> DEFINE x == Place(tail, i - 1)
  <2> HIDE DEF f, n
  <2>1. i \in Int /\ i - 1 \in Index
    BY <1>2 DEF Index
  <2>2. x \in Index
    BY <1>1, <2>1, PlacesDiffer
  <2>3. x \in gap <=> f + 1 <= i /\ i < n
    <3>1. \A j \in f .. n - 2 : j \in Index
      BY <1>2 DEF Index
    <3>2. x \in gap <=> \E j \in f .. n - 2 : j = i - 1
      BY <1>1, <2>1, <3>1, PlacesDiffer
    <3> HIDE DEF x, gap
    <3> QED BY <1>2, <2>1, <3>2 DEF Index
  <2>4. buf'[x] = IF x \in gap THEN buf[After(x)] ELSE buf[x]
    BY <1>5, <2>2
  <2>5. CASE f + 1 <= i /\ i < n
    <3>1. i \in Index /\ (i - 1) + 1 = i /\ i + 1 \in 1 .. n /\ (i + 1) - 1 = i
      BY <1>2, <2>1, <2>5 DEF Index
    <3>2. After(x) = Place(tail, i)
      BY <1>1, <2>1, <3>1, PlacesDiffer
    <3>3. Keys[i + 1] = buf[Place(tail, i)]
      BY <1>4, <3>1
    <3> HIDE DEF gap
    <3> QED BY <2>3, <2>4, <2>5, <3>2, <3>3
  <2>6. CASE ~(f + 1 <= i /\ i < n)
    <3> HIDE DEF gap
    <3> QED BY <1>4, <2>3, <2>4, <2>6
  <2> QED BY <2>5, <2>6
<1>7. Keys' = [i \in 1 .. n |-> buf'[Place(tail, i - 1)]]
  BY <1>1 DEF Keys, Ring
<1> HIDE DEF f, n
<1>8. Keys' = [i \in 1 .. n |-> IF f + 1 <= i /\ i < n THEN Keys[i + 1] ELSE Keys[i]]
  BY <1>6, <1>7
<1> QED BY <1>3, <1>8 DEF f

LEMMA ShiftMaps == ASSUME IInv, NEW K \in Codes, TakeShift(K) PROVE Queue!TakeShift(K)
<1>1. Queue!Places(K) # {} /\ Queue!First(K) = First(K) + 1
  BY FirstIs DEF TakeShift
<1>2. Queue!TakeShift(K) <=>
        /\ step = "idle" /\ Queue!Places(K) # {}
        /\ Keys' = [i \in DOMAIN Keys |-> IF Queue!First(K) <= i /\ i < Len(Keys)
                                          THEN Keys[i + 1] ELSE Keys[i]]
        /\ step' = "shifted"
        /\ UNCHANGED <<got, Length>>
  BY DEF Queue!TakeShift, Keys, Length, Ring, Behind, Place, Count, Cell
<1>3. UNCHANGED <<got, Length>> /\ step = "idle" /\ step' = "shifted"
  BY DEF TakeShift, Length
<1> QED BY <1>1, <1>2, <1>3, ShiftMoves

LEMMA LoadMaps == ASSUME IInv, TakeLoad PROVE Queue!TakeLoad
<1>1. buf \in Cells /\ head \in Index /\ tail \in Index
  BY DEF IInv, TypeOK, Cells
<1>2. Len(Keys) = Behind(head, tail)
  BY <1>1, RingIs DEF Keys
<1> QED BY <1>2, MapIs DEF TakeLoad, Queue!TakeLoad, Behind, Count, Cell

LEMMA StoreMaps == ASSUME IInv, TakeStore PROVE Queue!TakeStore
<1>1. /\ buf \in Cells /\ head \in Index /\ tail \in Index /\ loaded \in Index
      /\ loaded # tail /\ Behind(loaded, tail) <= Behind(head, tail)
  BY DEF IInv, TypeOK, Cells, Steps, TakeStore, Count, Behind
<1>2. Ring(buf, (loaded - 1) % Wrap, tail) = SubSeq(Keys, 1, Behind(loaded, tail) - 1)
  BY <1>1, RingCut DEF Keys
<1>3. [i \in 1 .. Count |-> buf[Cell(i - 1)]]' = Ring(buf, (loaded - 1) % Wrap, tail)
  BY DEF TakeStore, Ring, Behind, Place, Count, Cell
<1> QED BY <1>2, <1>3, MapIs DEF TakeStore, Queue!TakeStore, Behind

LEMMA NextMaps == IInv /\ [Next]_vars => [Queue!Next]_(Queue!vars)
<1> SUFFICES ASSUME IInv, [Next]_vars PROVE [Queue!Next]_(Queue!vars)
  OBVIOUS
<1>1. ASSUME NEW k \in Key, Push(k) PROVE Queue!Next
  BY <1>1, PushMaps DEF Queue!Next
<1>2. ASSUME Pop PROVE Queue!Next
  BY <1>2, PopMaps DEF Queue!Next
<1>3. ASSUME NEW K \in Codes, TakeShift(K) PROVE Queue!Next
  BY <1>3, ShiftMaps DEF Queue!Next
<1>4. ASSUME TakeLoad PROVE Queue!Next
  BY <1>4, LoadMaps DEF Queue!Next
<1>5. ASSUME TakeStore PROVE Queue!Next
  BY <1>5, StoreMaps DEF Queue!Next
<1>6. ASSUME UNCHANGED vars PROVE UNCHANGED Queue!vars
  BY <1>6 DEF vars, Queue!vars, Count, Cell
<1> QED BY <1>1, <1>2, <1>3, <1>4, <1>5, <1>6 DEF Next

\* Every behaviour of a ring, with the keyboard interrupt between any two steps
\* of appq_take, is one of the bounded queue.
THEOREM Implements == Spec => QueueSpec
BY InitMaps, NextMaps, SpecIInv, PTL DEF Spec, QueueSpec, Queue!Spec
=============================================================================
