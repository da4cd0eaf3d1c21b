------------------------- MODULE Keyboard_proofs --------------------------
(***************************************************************************)
(* From the key to the program that reads it: the two queues between the   *)
(* keyboard interrupt and the main thread, and the controller in front of  *)
(* them, which the keyboard shares with the mouse.                         *)
(*                                                                         *)
(* A queue stays in order while a hotkey leaves its middle because no step *)
(* of appq_take moves a key before an older one, and because a key typed   *)
(* meanwhile is younger than all there are.  The head that appq_take       *)
(* stores is one the queue still has: nobody else takes from the queue     *)
(* between two of its steps.                                               *)
(*                                                                         *)
(* The packets of the mouse and the modifier keys are right because of     *)
(* what the bytes still on their way say: the invariants relate the        *)
(* drivers' state to the whole queue of bytes in front of it.              *)
(***************************************************************************)
EXTENDS KeyInput, Ps2, SequenceTheorems, CommonLemmas, TLAPS

\* In order, nothing older than what was taken last or younger than the last typed.
Sorted(q, last, top) == InOrder(q, last) /\ \A i \in DOMAIN q : q[i].n <= top

Typed ==
  /\ kbd \in Seq(KeyRec) /\ appq \in Seq(KeyRec)
  /\ typed \in 0 .. MaxKeys /\ onAt \in Nat /\ shellGot \in 0 .. typed /\ appGot \in 0 .. typed

\* appq_take between its steps: the gap it closed and the head it read are real.
Taking ==
  /\ step \in {"idle", "shifted", "loaded"}
  /\ step # "idle" => pc = "take"
  /\ step = "shifted" => Len(appq) >= 1
  /\ step = "loaded" => count \in 1 .. Len(appq)

IInv ==
  /\ Typed /\ Taking
  /\ Sorted(kbd, shellGot, typed) /\ Sorted(appq, appGot, typed)
  /\ SwitcherKeysStayOut

---------------------------------------------------------------------------
(* What the operations of a queue do to its order. *)

\* The elements of a queue are keys; their numbers are numbers.
LEMMA KeysAre ==
  ASSUME NEW q \in Seq(KeyRec)
  PROVE  /\ Len(q) \in Nat /\ DOMAIN q = 1 .. Len(q)
         /\ \A i \in 1 .. Len(q) : q[i] \in KeyRec /\ q[i].n \in Nat
<1>1. Len(q) \in Nat /\ DOMAIN q = 1 .. Len(q) /\ \A i \in 1 .. Len(q) : q[i] \in KeyRec
  BY LenProperties, ElementOfSeq
<1>2. \A k \in KeyRec : k.n \in Nat
  BY KeyAssumption DEF KeyRec
<1> QED BY <1>1, <1>2

\* A key that arrives goes behind the others, or is lost.
LEMMA PushSorted ==
  ASSUME NEW q \in Seq(KeyRec), NEW last \in Nat, NEW top \in Nat, NEW k \in KeyRec,
         Sorted(q, last, top), last <= top, k.n = top + 1
  PROVE  /\ Append(q, k) \in Seq(KeyRec) /\ Len(Append(q, k)) = Len(q) + 1
         /\ Sorted(Append(q, k), last, top + 1)
         /\ Sorted(q, last, top + 1)
<1> DEFINE a == Append(q, k)
           n == Len(q)
<1>1. n \in Nat /\ DOMAIN q = 1 .. n /\ \A i \in 1 .. n : q[i].n \in Nat
  BY KeysAre
<1>2. /\ a \in Seq(KeyRec) /\ Len(a) = n + 1 /\ DOMAIN a = 1 .. n + 1
      /\ \A i \in 1 .. n : a[i] = q[i]
      /\ a[n + 1] = k
  BY <1>1, AppendProperties, KeysAre
<1> HIDE DEF a, n
<1>3. Sorted(q, last, top + 1)
  BY <1>1 DEF Sorted
<1>4. \A i \in 1 .. n : last <= a[i].n /\ a[i].n <= top /\ a[i].n \in Nat
  BY <1>1, <1>2 DEF Sorted, InOrder
<1>5. \A i, j \in 1 .. n : i < j => a[i].n <= a[j].n
  BY <1>1, <1>2 DEF Sorted, InOrder
<1>6. \A i \in 1 .. n + 1 : i \in 1 .. n \/ i = n + 1
  BY <1>1
<1>7. a[n + 1].n = top + 1
  BY <1>2
<1>8. \A i \in 1 .. n + 1 : last <= a[i].n /\ a[i].n <= top + 1
  BY <1>4, <1>6, <1>7
<1>9. \A i, j \in 1 .. n + 1 : i < j => a[i].n <= a[j].n
  BY <1>1, <1>4, <1>5, <1>6, <1>7
<1>10. Sorted(a, last, top + 1)
  BY <1>2, <1>8, <1>9 DEF Sorted, InOrder
<1> QED BY <1>2, <1>3, <1>10 DEF a, n

\* The front leaves; what stays is not older.
LEMMA PopSorted ==
  ASSUME NEW q \in Seq(KeyRec), NEW last \in Nat, NEW top \in Nat,
         Sorted(q, last, top), q # <<>>
  PROVE  /\ Tail(q) \in Seq(KeyRec) /\ Head(q).n \in last .. top
         /\ Sorted(Tail(q), Head(q).n, top)
         /\ \A i \in DOMAIN Tail(q) : \E j \in DOMAIN q : Tail(q)[i] = q[j]
<1> DEFINE t == Tail(q)
           n == Len(q)
<1>1. n \in Nat /\ DOMAIN q = 1 .. n /\ n >= 1 /\ \A i \in 1 .. n : q[i].n \in Nat
  BY KeysAre, EmptySeq
<1>2. /\ t \in Seq(KeyRec) /\ DOMAIN t = 1 .. n - 1 /\ Head(q) = q[1]
      /\ \A i \in 1 .. n - 1 : t[i] = q[i + 1]
  BY <1>1, HeadTailProperties, KeysAre
<1> HIDE DEF t, n
<1>3. q[1].n \in last .. top
  BY <1>1 DEF Sorted, InOrder
<1>4. \A i \in 1 .. n - 1 : i + 1 \in 1 .. n /\ 1 < i + 1
  BY <1>1
<1>4a. /\ \A i, j \in 1 .. n : i < j => q[i].n <= q[j].n
       /\ \A i \in 1 .. n : q[i].n <= top
  BY <1>1 DEF Sorted, InOrder
<1>5. ASSUME NEW i \in 1 .. n - 1, NEW j \in 1 .. n - 1, i < j PROVE t[i].n <= t[j].n
  <2>1. i + 1 \in 1 .. n /\ j + 1 \in 1 .. n /\ i + 1 < j + 1
    BY <1>1, <1>5
  <2> QED BY <1>2, <1>4a, <2>1
<1>6. ASSUME NEW i \in 1 .. n - 1 PROVE q[1].n <= t[i].n /\ t[i].n <= top
  <2>1. 1 \in 1 .. n /\ i + 1 \in 1 .. n /\ 1 < i + 1
    BY <1>1
  <2> QED BY <1>2, <1>4a, <2>1
<1>7. Sorted(t, q[1].n, top)
  BY <1>2, <1>5, <1>6 DEF Sorted, InOrder
<1>8. \A i \in DOMAIN t : \E j \in DOMAIN q : t[i] = q[j]
  BY <1>1, <1>2, <1>4
<1> QED BY <1>2, <1>3, <1>7, <1>8 DEF t

\* appq_take closes the gap: each cell from it on takes over its successor.
Closed(q, f) == [i \in DOMAIN q |-> IF f <= i /\ i < Len(q) THEN q[i + 1] ELSE q[i]]

LEMMA ShiftSorted ==
  ASSUME NEW q \in Seq(KeyRec), NEW last, NEW top, NEW f \in Int, Sorted(q, last, top)
  PROVE  /\ Closed(q, f) \in Seq(KeyRec) /\ Len(Closed(q, f)) = Len(q)
         /\ Sorted(Closed(q, f), last, top)
<1> DEFINE n == Len(q)
           s == [i \in 1 .. n |-> IF f <= i /\ i < n THEN q[i + 1] ELSE q[i]]
           From(i) == IF f <= i /\ i < n THEN i + 1 ELSE i
<1>1. n \in Nat /\ DOMAIN q = 1 .. n /\ \A i \in 1 .. n : q[i] \in KeyRec /\ q[i].n \in Nat
  BY KeysAre
<1> HIDE DEF n
<1>2. \A i \in 1 .. n : From(i) \in 1 .. n /\ s[i] = q[From(i)]
  BY <1>1
<1>3. \A i, j \in 1 .. n : i < j => From(i) < From(j) \/ From(i) = From(j)
  BY <1>1
<1>4. s \in [1 .. n -> KeyRec]
  BY <1>1
<1>5. s \in Seq(KeyRec) /\ DOMAIN s = 1 .. n
  BY <1>1, <1>4, SeqDef
<1>6. Len(s) = n
  BY <1>1, <1>5, LenProperties
<1> HIDE DEF s, From
<1>7. \A i, j \in 1 .. n : i < j => s[i].n <= s[j].n
  <2> SUFFICES ASSUME NEW i \in 1 .. n, NEW j \in 1 .. n, i < j PROVE s[i].n <= s[j].n
    OBVIOUS
  <2>1. CASE From(i) < From(j)
    BY <1>1, <1>2, <2>1 DEF Sorted, InOrder
  <2>2. CASE From(i) = From(j)
    BY SMTT(30), <1>1, <1>2, <2>2
  <2> QED BY <1>3, <2>1, <2>2
<1>8. Sorted(s, last, top)
  BY <1>1, <1>2, <1>5, <1>7 DEF Sorted, InOrder
<1>9. Closed(q, f) = s
  BY <1>1 DEF Closed, s, n
<1> QED BY <1>5, <1>6, <1>8, <1>9 DEF n

\* appq_take stores the head: the queue keeps the beginning.
LEMMA CutSorted ==
  ASSUME NEW q \in Seq(KeyRec), NEW last, NEW top, NEW c \in 0 .. Len(q), Sorted(q, last, top)
  PROVE  SubSeq(q, 1, c) \in Seq(KeyRec) /\ Sorted(SubSeq(q, 1, c), last, top)
<1> DEFINE s == SubSeq(q, 1, c)
<1>1. Len(q) \in Nat /\ DOMAIN q = 1 .. Len(q) /\ \A i \in 1 .. Len(q) : q[i] \in KeyRec
  BY KeysAre
<1>2. s = [i \in 1 .. c |-> q[i]]
  BY <1>1
<1>3. s \in [1 .. c -> KeyRec]
  <2>1. \A i \in 1 .. c : i \in 1 .. Len(q)
    BY <1>1
  <2> QED BY <1>1, <1>2, <2>1
<1>4. s \in Seq(KeyRec)
  BY <1>1, <1>3, SeqDef
<1>5. DOMAIN s = 1 .. c /\ \A i \in 1 .. c : s[i] = q[i] /\ i \in 1 .. Len(q)
  <2>1. \A i \in 1 .. c : i \in 1 .. Len(q)
    BY <1>1
  <2> QED BY <1>2, <2>1
<1> HIDE DEF s
<1>6. Sorted(s, last, top)
  BY <1>1, <1>5 DEF Sorted, InOrder
<1> QED BY <1>4, <1>6 DEF s

---------------------------------------------------------------------------
(* The steps.  Most leave the queues and the registers alone. *)

\* What a step of the desktop or of the loops may change.
Aside == UNCHANGED <<kbd, appq, regs, typed, shellGot, appGot>>

\* Opening the switcher marks the moment; all that is in the shell's queue is older.
LEMMA SwitcherMarks ==
  ASSUME IInv, kbd' = kbd, typed' = typed,
         \/ \E on \in BOOLEAN : Switcher(on)
         \/ UNCHANGED <<switcherOn, onAt>>
  PROVE  SwitcherKeysStayOut' /\ onAt' \in Nat
<1>0. typed \in Nat /\ onAt \in Nat /\ \A i \in DOMAIN kbd : kbd[i].n <= typed
  BY KeyAssumption DEF IInv, Typed, Sorted
<1>1. CASE UNCHANGED <<switcherOn, onAt>>
  BY <1>0, <1>1 DEF IInv, SwitcherKeysStayOut
<1>2. ASSUME NEW on \in BOOLEAN, Switcher(on) PROVE SwitcherKeysStayOut' /\ onAt' \in Nat
  <2>1. switcherOn' = on /\ onAt' = IF on /\ ~switcherOn THEN typed ELSE onAt
    BY <1>2 DEF Switcher
  <2>2. CASE on /\ ~switcherOn
    BY <1>0, <2>1, <2>2 DEF SwitcherKeysStayOut
  <2>3. CASE on /\ switcherOn
    BY <1>0, <2>1, <2>3 DEF IInv, SwitcherKeysStayOut
  <2>4. CASE ~on
    BY <1>0, <2>1, <2>4 DEF SwitcherKeysStayOut
  <2> QED BY <2>2, <2>3, <2>4
<1> QED BY <1>1, <1>2

LEMMA AsideKeeps ==
  ASSUME IInv, Aside, step = "idle" \/ pc' = pc,
         \/ \E on \in BOOLEAN : Switcher(on)
         \/ UNCHANGED <<switcherOn, onAt>>
  PROVE  IInv'
<1>1. SwitcherKeysStayOut' /\ onAt' \in Nat
  BY SwitcherMarks DEF Aside
<1>2. Typed'
  BY <1>1 DEF IInv, Typed, Aside
<1>3. Taking'
  BY DEF IInv, Taking, Aside, regs
<1>4. Sorted(kbd, shellGot, typed)' /\ Sorted(appq, appGot, typed)'
  BY DEF IInv, Aside, Sorted, InOrder
<1> QED BY <1>1, <1>2, <1>3, <1>4 DEF IInv

\* kbd_route: the key is younger than all there are, and while the switcher is on
\* it does not go to the shell.
LEMMA TypeKeeps ==
  ASSUME IInv, NEW kind \in Kind, Type(kind)
  PROVE  IInv'
<1> DEFINE k == [kind |-> kind, n |-> typed + 1]
<1>1. /\ kbd \in Seq(KeyRec) /\ appq \in Seq(KeyRec) /\ typed \in Nat /\ typed < MaxKeys
      /\ typed' = typed + 1 /\ shellGot \in 0 .. typed /\ appGot \in 0 .. typed
      /\ MaxKeys \in Nat
  BY KeyAssumption DEF IInv, Typed, Type
<1>2. k \in KeyRec /\ k.n = typed + 1
  BY <1>1, KeyAssumption DEF KeyRec
<1>3. /\ UNCHANGED <<key, step, count, switcherOn, onAt, shellGot, appGot>>
      /\ pc' = IF pc = "asleep" THEN ret ELSE pc
  BY DEF Type, Kbd!Push, Apps!Push, desk, Wake
<1>4. \/ ToApps /\ (appq' = Append(appq, k) \/ appq' = appq) /\ kbd' = kbd
      \/ ~ToApps /\ (kbd' = Append(kbd, k) \/ kbd' = kbd) /\ appq' = appq
  BY DEF Type, Kbd!Push, Apps!Push
<1> HIDE DEF k
<1>5. /\ Append(kbd, k) \in Seq(KeyRec) /\ Sorted(Append(kbd, k), shellGot, typed + 1)
      /\ Sorted(kbd, shellGot, typed + 1)
  BY <1>1, <1>2, PushSorted DEF IInv
<1>6. /\ Append(appq, k) \in Seq(KeyRec) /\ Sorted(Append(appq, k), appGot, typed + 1)
      /\ Sorted(appq, appGot, typed + 1) /\ Len(Append(appq, k)) = Len(appq) + 1
  BY <1>1, <1>2, PushSorted DEF IInv
<1>7. Typed'
  <2>1. kbd' \in Seq(KeyRec) /\ appq' \in Seq(KeyRec)
    BY <1>1, <1>4, <1>5, <1>6
  <2>2. /\ typed' \in 0 .. MaxKeys /\ shellGot' \in 0 .. typed' /\ appGot' \in 0 .. typed'
        /\ onAt' \in Nat
    BY <1>1, <1>3 DEF IInv, Typed
  <2> QED BY <2>1, <2>2 DEF Typed
<1>8. Taking'
  <2>1. appq' = appq \/ Len(appq') = Len(appq) + 1
    BY <1>4, <1>6
  <2>2. Len(appq) \in Nat
    BY <1>1, KeysAre
  <2> QED BY <1>3, <2>1, <2>2 DEF IInv, Taking
<1>9. Sorted(kbd', shellGot, typed + 1) /\ Sorted(appq', appGot, typed + 1)
  BY <1>4, <1>5, <1>6
<1>10. Sorted(kbd, shellGot, typed)' /\ Sorted(appq, appGot, typed)'
  BY <1>1, <1>3, <1>9 DEF Sorted, InOrder
<1>11. SwitcherKeysStayOut'
  BY <1>3, <1>4 DEF IInv, SwitcherKeysStayOut, ToApps
<1> QED BY <1>7, <1>8, <1>10, <1>11 DEF IInv

\* keyboard_getraw takes the front of the shell's queue, ...
LEMMA ShellPopKeeps == ASSUME IInv, ShellPop PROVE IInv'
<1>1. CASE UNCHANGED <<kbd, regs, shellGot>>
  <2>1. Aside /\ UNCHANGED <<switcherOn, onAt>> /\ pc = "pop"
    BY <1>1 DEF ShellPop, Aside, desk
  <2>2. step = "idle"
    BY <2>1 DEF IInv, Taking
  <2> QED BY <2>1, <2>2, AsideKeeps
<1>2. CASE Kbd!Pop /\ shellGot' = Head(kbd).n
  <2>1. /\ step = "idle" /\ step' = "idle" /\ kbd # <<>> /\ kbd' = Tail(kbd)
        /\ UNCHANGED <<appq, typed, appGot, switcherOn, onAt>>
    BY <1>2 DEF ShellPop, Kbd!Pop, desk
  <2>2. /\ kbd \in Seq(KeyRec) /\ typed \in Nat /\ shellGot \in Nat /\ typed \in 0 .. MaxKeys
    BY KeyAssumption DEF IInv, Typed
  <2>3. /\ Tail(kbd) \in Seq(KeyRec) /\ Head(kbd).n \in shellGot .. typed
        /\ Sorted(Tail(kbd), Head(kbd).n, typed)
        /\ \A i \in DOMAIN Tail(kbd) : \E j \in DOMAIN kbd : Tail(kbd)[i] = kbd[j]
    BY <2>1, <2>2, PopSorted DEF IInv
  <2>4. Typed'
    BY <1>2, <2>1, <2>2, <2>3 DEF IInv, Typed
  <2>5. Taking'
    BY <2>1 DEF Taking
  <2>6. Sorted(kbd, shellGot, typed)' /\ Sorted(appq, appGot, typed)'
    BY <1>2, <2>1, <2>3 DEF IInv, Sorted, InOrder
  <2>7. SwitcherKeysStayOut'
    BY <2>1, <2>3 DEF IInv, SwitcherKeysStayOut
  <2> QED BY <2>4, <2>5, <2>6, <2>7 DEF IInv
<1> QED BY <1>1, <1>2 DEF ShellPop

\* ... and the loop of a modal app that of the apps' queue.
LEMMA AppPopKeeps == ASSUME IInv, AppPop PROVE IInv'
<1>1. CASE UNCHANGED <<appq, regs, appGot>>
  <2>1. Aside /\ UNCHANGED <<switcherOn, onAt>> /\ pc = "apppop"
    BY <1>1 DEF AppPop, Aside, desk
  <2>2. step = "idle"
    BY <2>1 DEF IInv, Taking
  <2> QED BY <2>1, <2>2, AsideKeeps
<1>2. CASE Apps!Pop /\ appGot' = Head(appq).n
  <2>1. /\ step = "idle" /\ step' = "idle" /\ appq # <<>> /\ appq' = Tail(appq)
        /\ UNCHANGED <<kbd, typed, shellGot, switcherOn, onAt>>
    BY <1>2 DEF AppPop, Apps!Pop, desk
  <2>2. appq \in Seq(KeyRec) /\ typed \in Nat /\ appGot \in Nat /\ typed \in 0 .. MaxKeys
    BY KeyAssumption DEF IInv, Typed
  <2>3. /\ Tail(appq) \in Seq(KeyRec) /\ Head(appq).n \in appGot .. typed
        /\ Sorted(Tail(appq), Head(appq).n, typed)
    BY <2>1, <2>2, PopSorted DEF IInv
  <2>4. Typed'
    BY <1>2, <2>1, <2>2, <2>3 DEF IInv, Typed
  <2>5. Taking'
    BY <2>1 DEF Taking
  <2>6. Sorted(kbd, shellGot, typed)' /\ Sorted(appq, appGot, typed)'
    BY <1>2, <2>1, <2>3 DEF IInv, Sorted, InOrder
  <2>7. SwitcherKeysStayOut'
    BY <2>1 DEF IInv, SwitcherKeysStayOut
  <2> QED BY <2>4, <2>5, <2>6, <2>7 DEF IInv
<1> QED BY <1>1, <1>2 DEF AppPop

\* gui_poll finds a hotkey and closes the gap it leaves.
LEMMA PollKeeps == ASSUME IInv, Poll PROVE IInv'
<1>0. step = "idle" /\ UNCHANGED <<kbd, typed, shellGot, appGot, switcherOn, onAt>>
  BY DEF IInv, Taking, Poll, desk
<1>1. CASE UNCHANGED <<appq, regs>>
  <2>1. Aside
    BY <1>0, <1>1 DEF Aside
  <2> QED BY <1>0, <2>1, AsideKeeps
<1>2. CASE Apps!TakeShift(OfKind(Hotkeys[hot])) /\ pc' = "take"
  <2> DEFINE K == OfKind(Hotkeys[hot])
             f == Apps!First(K)
  <2>1. /\ Apps!Places(K) # {} /\ step' = "shifted"
        /\ appq' = Closed(appq, f)
    BY <1>2 DEF Apps!TakeShift, Closed
  <2> HIDE DEF K
  <2>2. /\ appq \in Seq(KeyRec) /\ Len(appq) \in Nat /\ DOMAIN appq = 1 .. Len(appq)
        /\ Sorted(appq, appGot, typed)
    BY KeysAre DEF IInv, Typed
  <2>3. f \in DOMAIN appq
    <3> DEFINE P == Apps!Places(K)
    <3>1. P \in SUBSET Nat /\ P \subseteq DOMAIN appq
      BY <2>2 DEF Apps!Places
    <3>2. f = CHOOSE i \in P : \A j \in P : i <= j
      BY DEF Apps!First
    <3> HIDE DEF P
    <3>3. PICK m \in P : \A j \in P : m <= j
      BY <2>1, <3>1, LeastOf DEF P
    <3> QED BY <3>1, <3>2, <3>3
  <2> HIDE DEF f
  <2>4. f \in Int /\ Len(appq) >= 1
    BY <2>2, <2>3
  <2>5. appq' \in Seq(KeyRec) /\ Len(appq') = Len(appq) /\ Sorted(appq', appGot, typed)
    BY <2>1, <2>2, <2>4, ShiftSorted
  <2>6. Typed'
    BY <1>0, <2>5 DEF IInv, Typed
  <2>7. Taking'
    BY <1>2, <2>1, <2>4, <2>5 DEF Taking
  <2>8. Sorted(kbd, shellGot, typed)' /\ Sorted(appq, appGot, typed)'
    BY <1>0, <2>5 DEF IInv, Sorted, InOrder
  <2>9. SwitcherKeysStayOut'
    BY <1>0 DEF IInv, SwitcherKeysStayOut
  <2> QED BY <2>6, <2>7, <2>8, <2>9 DEF IInv
<1> QED BY <1>1, <1>2 DEF Poll

\* Then it reads the head and stores it less one.
LEMMA TakeKeeps == ASSUME IInv, Take PROVE IInv'
<1>0. UNCHANGED <<kbd, typed, shellGot, appGot, switcherOn, onAt>> /\ pc = "take"
  BY DEF Take, desk
<1>1. /\ appq \in Seq(KeyRec) /\ Len(appq) \in Nat /\ Sorted(appq, appGot, typed)
  BY KeysAre DEF IInv, Typed
<1>2. SwitcherKeysStayOut' /\ Sorted(kbd, shellGot, typed)'
  BY <1>0 DEF IInv, SwitcherKeysStayOut, Sorted, InOrder
<1>3. CASE Apps!TakeLoad
  <2>1. step = "shifted" /\ step' = "loaded" /\ count' = Len(appq) /\ appq' = appq /\ pc' = pc
    BY <1>3 DEF Apps!TakeLoad, Take
  <2>2. Taking'
    BY <1>0, <1>1, <2>1 DEF IInv, Taking
  <2>3. Typed' /\ Sorted(appq, appGot, typed)'
    BY <1>0, <2>1 DEF IInv, Typed, Sorted, InOrder
  <2> QED BY <1>2, <2>2, <2>3 DEF IInv
<1>4. CASE Apps!TakeStore
  <2>1. step = "loaded" /\ step' = "idle" /\ appq' = SubSeq(appq, 1, count - 1)
    BY <1>4 DEF Apps!TakeStore
  <2>2. count - 1 \in 0 .. Len(appq)
    BY <1>1, <2>1 DEF IInv, Taking
  <2>3. appq' \in Seq(KeyRec) /\ Sorted(appq', appGot, typed)
    BY <1>1, <2>1, <2>2, CutSorted
  <2>4. Taking'
    BY <2>1 DEF Taking
  <2>5. Typed' /\ Sorted(appq, appGot, typed)'
    BY <1>0, <2>3 DEF IInv, Typed, Sorted, InOrder
  <2> QED BY <1>2, <2>4, <2>5 DEF IInv
<1> QED BY <1>3, <1>4 DEF Take

LEMMA InitIInv == Init => IInv
<1> SUFFICES ASSUME Init PROVE IInv
  OBVIOUS
<1>1. kbd \in Seq(KeyRec) /\ appq \in Seq(KeyRec) /\ DOMAIN kbd = {} /\ DOMAIN appq = {}
  BY EmptySeq DEF Init
<1>2. MaxKeys \in Nat
  BY KeyAssumption
<1> QED BY <1>1, <1>2 DEF Init, IInv, Typed, Taking, Sorted, InOrder, SwitcherKeysStayOut

LEMMA NextKeeps == IInv /\ [Next]_vars => IInv'
<1> SUFFICES ASSUME IInv, [Next]_vars PROVE IInv'
  OBVIOUS
<1>1. ASSUME NEW kind \in Kind, Type(kind) PROVE IInv'
  BY <1>1, TypeKeeps
<1>2. CASE AltT \/ Timer
  <2>1. Aside /\ UNCHANGED <<switcherOn, onAt>> /\ pc' = IF pc = "asleep" THEN ret ELSE pc
    BY <1>2 DEF AltT, Timer, Aside, desk, Wake
  <2>2. step = "idle" \/ pc' = pc
    BY <2>1 DEF IInv, Taking
  <2> QED BY <2>1, <2>2, AsideKeeps
<1>3. CASE GetRaw \/ AppAlive \/ AppKey
  <2>1. Aside /\ UNCHANGED <<switcherOn, onAt>> /\ pc # "take"
    BY <1>3 DEF GetRaw, AppAlive, AppKey, Aside, desk
  <2>2. step = "idle"
    BY <2>1 DEF IInv, Taking
  <2> QED BY <2>1, <2>2, AsideKeeps
<1>4. CASE ShellKey \/ HotKey \/ Frame
  <2>1. Aside /\ pc # "take"
    BY <1>4 DEF ShellKey, HotKey, Frame, Aside
  <2>2. step = "idle"
    BY <2>1 DEF IInv, Taking
  <2>3. \/ \E on \in BOOLEAN : Switcher(on)
        \/ UNCHANGED <<switcherOn, onAt>>
    <3>1. ASSUME NEW kind, SwitcherKey(kind) PROVE \E on \in BOOLEAN : Switcher(on)
      <4>1. Switcher(kind = "tab") /\ (kind = "tab") \in BOOLEAN
        BY <3>1 DEF SwitcherKey
      <4> QED BY <4>1
    <3>2. CASE OpenSwitcher
      BY <3>2 DEF OpenSwitcher
    <3>3. CASE ShellKey
      BY <3>1, <3>2, <3>3 DEF ShellKey, LineKey, EditorKey, desk
    <3>4. CASE HotKey
      BY <3>1, <3>2, <3>4 DEF HotKey
    <3>5. CASE Frame
      BY <3>5 DEF Frame
    <3> QED BY <1>4, <3>3, <3>4, <3>5
  <2> QED BY <2>1, <2>2, <2>3, AsideKeeps
<1>5. CASE UNCHANGED vars
  <2>1. Aside /\ UNCHANGED <<switcherOn, onAt>> /\ pc' = pc
    BY <1>5 DEF vars, Aside, desk
  <2> QED BY <2>1, AsideKeeps
<1> QED BY <1>1, <1>2, <1>3, <1>4, <1>5, ShellPopKeeps, AppPopKeeps, PollKeeps, TakeKeeps
        DEF Next, Main

LEMMA SpecIInv == Spec => []IInv
BY InitIInv, NextKeeps, PTL DEF Spec

---------------------------------------------------------------------------
(* The theorems. *)

\* What the shell and the apps read comes in the order it was typed, with the
\* keyboard interrupt between any two steps of app_hotkeys.
THEOREM OrderKept == Spec => []KeysInOrder
<1>1. IInv => KeysInOrder
  BY DEF IInv, Sorted, KeysInOrder
<1> QED BY <1>1, SpecIInv, PTL

\* While the switcher is on, what the shell's queue holds was typed before.
THEOREM SwitcherTakesAll == Spec => []SwitcherKeysStayOut
<1>1. IInv => SwitcherKeysStayOut
  BY DEF IInv
<1> QED BY <1>1, SpecIInv, PTL
---------------------------------------------------------------------------
(* The controller that keyboard and mouse share. *)

BytesOf(s) == [source : {s}, v : Nat, n : Nat]
AnyByte == [source : Source \cup {"bios"}, v : Nat, n : Nat]
ConfigByte == Byte("controller", Typical, 0)

\* The controller answers once, and with the configuration it started with: mouse_init
\* asks before it writes another.
PortTyped ==
  /\ DOMAIN line = Source
  /\ line.keyboard \in Seq(BytesOf("keyboard")) /\ line.mouse \in Seq(BytesOf("mouse"))
  /\ line.controller \in Seq({ConfigByte})
  /\ data \in AnyByte /\ pkt \in Seq(AnyByte)
  /\ data.source = "controller" => data = ConfigByte
  /\ irq1 => data.source \in {"keyboard", "controller"}

InitTyped ==
  /\ cmd \in {"A8", "20", "F6", "F4", "drain", "done"} /\ await \in {"send", "poll", "read"}
  /\ unmasked <=> Done
  /\ Done => await = "poll"
  /\ ~disturbed /\ ~Done => line.keyboard = <<>>
  /\ cmd = "A8" \/ (cmd = "20" /\ await = "send") => line.controller = <<>>
  /\ cmd \in {"A8", "20"} => config = Typical

\* The bytes of a key: one, behind a prefix for the right control key.
ShiftMake == {42, 54}
ShiftCode == {42, 54, 170, 182}
CtrlCode  == {29, 157}
CodeOf(k, make) ==
  LET c == IF k = "lshift" THEN 42 ELSE IF k = "rshift" THEN 54 ELSE 29
  IN  IF make THEN c ELSE c + 128
Coded(k, q, make) ==
  LET p == IF k = "rctrl" THEN Append(q, Byte("keyboard", EXT, 0)) ELSE q
  IN  Append(p, Byte("keyboard", CodeOf(k, make), 0))

LEMMA TouchDoes ==
  ASSUME PortTyped, NEW k \in Key, Touch(k)
  PROVE  /\ held' = (IF k \in held THEN held \ {k} ELSE held \cup {k})
         /\ line' = [line EXCEPT !.keyboard = Coded(k, line.keyboard, k \notin held)]
<1> DEFINE q == line.keyboard
           B == BytesOf("keyboard")
           b(c) == Byte("keyboard", c, 0)
<1>1. /\ "keyboard" \in DOMAIN line /\ q \in Seq(B)
      /\ k \in {"lshift", "rshift", "lctrl", "rctrl"}
  BY Ps2Assumption DEF PortTyped, Source
<1>2. \A c \in Nat : b(c) \in B
  BY DEF Byte, BytesOf
<1>3. \A c \in Nat : Codes("keyboard", <<c>>) = <<b(c)>>
  BY DEF Codes
<1>4. \A c, d \in Nat : Codes("keyboard", <<c, d>>) = <<b(c), b(d)>>
  BY DEF Codes
<1>5. \A c \in Nat : q \o <<b(c)>> = Append(q, b(c))
  BY <1>1, <1>2, AppendIsConcat
<1>6. \A c, d \in Nat : q \o <<b(c), b(d)>> = Append(Append(q, b(c)), b(d))
  <2>1. ASSUME NEW c \in Nat, NEW d \in Nat
        PROVE  q \o <<b(c), b(d)>> = Append(Append(q, b(c)), b(d))
    <3>1. b(c) \in B /\ b(d) \in B
      BY <1>2
    <3> HIDE DEF b, q, B
    <3>2. q \o <<b(c), b(d)>> = Append(Append(q, b(c)), b(d))
      BY <1>1, <3>1
    <3> QED BY <3>2
  <2> QED BY <2>1
<1>7. MakeCode(k) = (CASE k = "lshift" -> <<42>> [] k = "rshift" -> <<54>>
                      [] k = "lctrl" -> <<29>> [] k = "rctrl" -> <<224, 29>>)
  BY DEF MakeCode, EXT
<1>8. BreakCode(k) = (CASE k = "lshift" -> <<170>> [] k = "rshift" -> <<182>>
                      [] k = "lctrl" -> <<157>> [] k = "rctrl" -> <<224, 157>>)
  <2>1. CASE k = "lshift"
    <3>1. MakeCode(k) = <<42>>
      BY <1>7, <2>1
    <3> QED BY <2>1, <3>1 DEF BreakCode, EXT
  <2>2. CASE k = "rshift"
    <3>1. MakeCode(k) = <<54>>
      BY <1>7, <2>2
    <3> QED BY <2>2, <3>1 DEF BreakCode, EXT
  <2>3. CASE k = "lctrl"
    <3>1. MakeCode(k) = <<29>>
      BY <1>7, <2>3
    <3> QED BY <2>3, <3>1 DEF BreakCode, EXT
  <2>4. CASE k = "rctrl"
    <3>1. MakeCode(k) = <<224, 29>>
      BY <1>7, <2>4
    <3> QED BY <2>4, <3>1 DEF BreakCode, EXT
  <2> QED BY <1>1, <2>1, <2>2, <2>3, <2>4
<1>9. /\ held' = (IF k \in held THEN held \ {k} ELSE held \cup {k})
      /\ line' = [line EXCEPT !.keyboard =
                   q \o Codes("keyboard", IF k \in held THEN BreakCode(k) ELSE MakeCode(k))]
  BY <1>1 DEF Touch
<1>10. ASSUME NEW make \in BOOLEAN
       PROVE  q \o Codes("keyboard", IF make THEN MakeCode(k) ELSE BreakCode(k)) = Coded(k, q, make)
  <2> DEFINE c == CodeOf(k, make)
  <2>1. CASE k # "rctrl"
    <3>1. c \in Nat /\ (IF make THEN MakeCode(k) ELSE BreakCode(k)) = <<c>>
      BY <1>1, <1>7, <1>8, <2>1 DEF CodeOf
    <3> HIDE DEF c
    <3>2. q \o Codes("keyboard", <<c>>) = Append(q, b(c))
      BY <1>3, <1>5, <3>1
    <3> QED BY <2>1, <3>1, <3>2 DEF Coded, c
  <2>2. CASE k = "rctrl"
    <3>0. c = (IF make THEN 29 ELSE 157)
      BY <2>2 DEF CodeOf
    <3> HIDE DEF c
    <3>1. c \in Nat /\ 224 \in Nat /\ (IF make THEN MakeCode(k) ELSE BreakCode(k)) = <<224, c>>
      <4>1. CASE make = TRUE
        BY <1>7, <2>2, <3>0, <4>1
      <4>2. CASE make = FALSE
        BY <1>8, <2>2, <3>0, <4>2 DEF CodeOf
      <4> QED BY <4>1, <4>2
    <3>2. q \o Codes("keyboard", <<224, c>>) = Append(Append(q, b(224)), b(c))
      <4>1. Codes("keyboard", <<224, c>>) = <<b(224), b(c)>>
        BY <1>4, <3>1
      <4>2. q \o <<b(224), b(c)>> = Append(Append(q, b(224)), b(c))
        BY <1>6, <3>1
      <4> HIDE DEF b
      <4> QED BY <4>1, <4>2
    <3> QED BY <2>2, <3>1, <3>2 DEF Coded, EXT, c
  <2> QED BY <2>1, <2>2
<1>11. q \o Codes("keyboard", IF k \in held THEN BreakCode(k) ELSE MakeCode(k))
         = Coded(k, q, k \notin held)
  <2>1. CASE k \in held
    BY <2>1, <1>10
  <2>2. CASE k \notin held
    BY <2>2, <1>10
  <2> QED BY <2>1, <2>2
<1> QED BY <1>9, <1>11

\* The byte that comes next from a source.
LEMMA NextByte ==
  ASSUME PortTyped, NEW s \in Source, line[s] # <<>>
  PROVE  /\ Head(line[s]) \in AnyByte /\ Head(line[s]).source = s
         /\ s = "controller" => Head(line[s]) = ConfigByte
         /\ s \in {"keyboard", "mouse"} => Tail(line[s]) \in Seq(BytesOf(s))
         /\ s = "controller" => Tail(line[s]) \in Seq({ConfigByte})
<1>1. CASE s = "controller"
  <2>1. Head(line[s]) \in {ConfigByte} /\ Tail(line[s]) \in Seq({ConfigByte})
    BY <1>1, HeadTailProperties DEF PortTyped
  <2>2. ConfigByte \in AnyByte /\ ConfigByte.source = "controller"
    BY DEF ConfigByte, AnyByte, Byte, Typical, Source
  <2> QED BY <1>1, <2>1, <2>2
<1>2. CASE s \in {"keyboard", "mouse"}
  <2>1. line[s] \in Seq(BytesOf(s))
    BY <1>2 DEF PortTyped
  <2>2. Head(line[s]) \in BytesOf(s) /\ Tail(line[s]) \in Seq(BytesOf(s))
    BY <2>1, HeadTailProperties
  <2> QED BY <1>2, <2>2 DEF BytesOf, AnyByte, Source
<1> QED BY <1>1, <1>2 DEF Source

LEMMA AnsweredDoes ==
  ASSUME InitTyped, NEW r \in Int, Answered(r), ~Done
  PROVE  /\ cmd' \in {"20", "F6", "F4", "drain", "done"} /\ await' \in {"send", "poll"}
         /\ cmd = "A8" => cmd' = "20" /\ await' = "send" /\ config' = config
         /\ cmd = "20" => cmd' = "F6" /\ config' = WithMouse(IF r < 0 THEN Typical ELSE r)
         /\ cmd \notin {"A8", "20"} => cmd' \notin {"A8", "20"} /\ config' = config
         /\ cmd' = "done" => cmd = "drain" /\ r < 0 /\ await' = "poll"
         /\ unmasked' <=> Done'
<1>1. CASE cmd = "A8"
  BY <1>1 DEF InitTyped, Answered, Done, To, Retry
<1>2. CASE cmd = "20"
  BY <1>2 DEF InitTyped, Answered, Done, To, Retry
<1>3. CASE cmd = "F6"
  BY <1>3 DEF InitTyped, Answered, Done, To, Retry
<1>4. CASE cmd = "F4"
  BY <1>4 DEF InitTyped, Answered, Done, To, Retry
<1>5. CASE cmd = "drain"
  BY <1>5 DEF InitTyped, Answered, Done, To, Retry
<1> QED BY <1>1, <1>2, <1>3, <1>4, <1>5 DEF InitTyped, Done

LEMMA PortStarts == Ps2Init => PortTyped /\ InitTyped
<1> SUFFICES ASSUME Ps2Init PROVE PortTyped /\ InitTyped
  OBVIOUS
<1>1. data \in AnyByte /\ data.source = "bios"
  BY DEF Ps2Init, AnyByte, Byte
<1>2. line.keyboard = <<>> /\ line.mouse = <<>> /\ line.controller = <<>> /\ DOMAIN line = Source
  BY DEF Ps2Init, Source
<1>3. PortTyped
  <2>1. \A S : <<>> \in Seq(S)
    OBVIOUS
  <2>2. irq1 = FALSE /\ pkt = <<>>
    BY DEF Ps2Init
  <2> QED BY <1>1, <1>2, <2>1, <2>2 DEF PortTyped
<1>4. InitTyped
  BY <1>2 DEF Ps2Init, InitTyped, Done
<1> QED BY <1>3, <1>4

\* What the user does.
LEMMA UserTyped ==
  ASSUME PortTyped, InitTyped,
         (\E k \in Key : Touch(k)) \/ (\E dx, dy \in Delta : MoveMouse(dx, dy))
  PROVE  PortTyped' /\ InitTyped'
<1>1. ASSUME NEW k \in Key, Touch(k) PROVE PortTyped' /\ InitTyped'
  <2> DEFINE q == line.keyboard
             p == IF k = "rctrl" THEN Append(q, Byte("keyboard", EXT, 0)) ELSE q
  <2>1. line' = [line EXCEPT !.keyboard = Coded(k, q, k \notin held)]
    BY <1>1, TouchDoes
  <2>2. CodeOf(k, k \notin held) \in Nat /\ EXT \in Nat
    BY DEF CodeOf, EXT
  <2>3. Byte("keyboard", CodeOf(k, k \notin held), 0) \in BytesOf("keyboard")
        /\ Byte("keyboard", EXT, 0) \in BytesOf("keyboard")
    BY <2>2 DEF Byte, BytesOf
  <2>4. p \in Seq(BytesOf("keyboard"))
    BY <2>3 DEF PortTyped
  <2>5. Coded(k, q, k \notin held) \in Seq(BytesOf("keyboard"))
    BY <2>3, <2>4 DEF Coded
  <2>6. /\ DOMAIN line' = Source /\ line'.keyboard = Coded(k, q, k \notin held)
        /\ line'.mouse = line.mouse /\ line'.controller = line.controller
    BY <2>1 DEF PortTyped, Source
  <2>7. /\ UNCHANGED <<data, full, irq1, irq12, unmasked, config, pkt, cmd, await>>
        /\ disturbed' = (disturbed \/ ~Done)
    BY <1>1 DEF Touch, drivers, init
  <2>8. PortTyped'
    BY <2>5, <2>6, <2>7 DEF PortTyped
  <2>9. InitTyped'
    BY <2>6, <2>7 DEF InitTyped, Done
  <2> QED BY <2>8, <2>9
<1>2. ASSUME NEW dx \in Delta, NEW dy \in Delta, MoveMouse(dx, dy) PROVE PortTyped' /\ InitTyped'
  <2>1. dx \in Nat /\ dy \in Nat
    BY Ps2Assumption
  <2>2. Packet(dx, dy) \in Seq(BytesOf("mouse"))
    <3>1. Byte("mouse", 8, 1) \in BytesOf("mouse") /\ Byte("mouse", dx, 2) \in BytesOf("mouse")
          /\ Byte("mouse", dy, 3) \in BytesOf("mouse")
      BY <2>1 DEF Byte, BytesOf
    <3> QED BY <3>1 DEF Packet
  <2>3. line' = [line EXCEPT !.mouse = @ \o Packet(dx, dy)]
    BY <1>2 DEF MoveMouse
  <2>4. /\ DOMAIN line' = Source /\ line'.mouse = line.mouse \o Packet(dx, dy)
        /\ line'.keyboard = line.keyboard /\ line'.controller = line.controller
    BY <2>3 DEF PortTyped, Source
  <2>5. line'.mouse \in Seq(BytesOf("mouse"))
    BY <2>2, <2>4, ConcatProperties DEF PortTyped
  <2>6. /\ UNCHANGED <<data, full, irq1, irq12, unmasked, config, pkt, cmd, await>>
        /\ disturbed' = (disturbed \/ ~Done)
    BY <1>2 DEF MoveMouse, drivers, init
  <2>7. PortTyped'
    BY <2>4, <2>5, <2>6 DEF PortTyped
  <2>8. InitTyped'
    BY <2>4, <2>6 DEF InitTyped, Done
  <2> QED BY <2>7, <2>8
<1> QED BY <1>1, <1>2

\* A byte is taken off its line, by the buffer or by a handler.
LEMMA TakenTyped ==
  ASSUME PortTyped, NEW s \in Source, line[s] # <<>>,
         data' = Head(line[s]), line' = [line EXCEPT ![s] = Tail(@)],
         irq1' => s \in {"keyboard", "controller"}, pkt' = pkt
  PROVE  PortTyped' /\ \A t \in Source : line'[t] = (IF t = s THEN Tail(line[s]) ELSE line[t])
<1>1. /\ Head(line[s]) \in AnyByte /\ Head(line[s]).source = s
      /\ s = "controller" => Head(line[s]) = ConfigByte
      /\ s \in {"keyboard", "mouse"} => Tail(line[s]) \in Seq(BytesOf(s))
      /\ s = "controller" => Tail(line[s]) \in Seq({ConfigByte})
  BY NextByte
<1>2. DOMAIN line' = Source /\ \A t \in Source : line'[t] = (IF t = s THEN Tail(line[s]) ELSE line[t])
  BY DEF PortTyped
<1>3. /\ line'.keyboard = (IF s = "keyboard" THEN Tail(line[s]) ELSE line.keyboard)
      /\ line'.mouse = (IF s = "mouse" THEN Tail(line[s]) ELSE line.mouse)
      /\ line'.controller = (IF s = "controller" THEN Tail(line[s]) ELSE line.controller)
  BY <1>2 DEF Source
<1>4. PortTyped'
  BY <1>1, <1>2, <1>3 DEF PortTyped
<1> QED BY <1>2, <1>4

LEMMA LoadTyped ==
  ASSUME PortTyped, InitTyped, NEW s \in Source, NEW again \in BOOLEAN,
         Load(s) \/ Extended(s, again)
  PROVE  /\ PortTyped' /\ InitTyped'
         /\ line[s] # <<>> /\ data' = Head(line[s])
         /\ \A t \in Source : line'[t] = (IF t = s THEN Tail(line[s]) ELSE line[t])
<1>1. /\ line[s] # <<>> /\ data' = Head(line[s]) /\ line' = [line EXCEPT ![s] = Tail(@)]
      /\ irq1' => s \in {"keyboard", "controller"}
      /\ UNCHANGED <<pkt, unmasked, config, disturbed, cmd, await>>
  BY DEF Load, Extended, Coming, Raises1, Source, user, drivers, init
<1>2. PortTyped' /\ \A t \in Source : line'[t] = (IF t = s THEN Tail(line[s]) ELSE line[t])
  BY <1>1, TakenTyped
<1>3. InitTyped'
  <2>1. line.keyboard = <<>> => line'.keyboard = <<>>
    BY <1>1, <1>2 DEF Source
  <2>2. line.controller = <<>> => line'.controller = <<>>
    BY <1>1, <1>2 DEF Source
  <2> QED BY <1>1, <2>1, <2>2 DEF InitTyped, Done
<1> QED BY <1>1, <1>2, <1>3

LEMMA HandlerTyped ==
  ASSUME PortTyped, InitTyped, Plain \/ ExtendedEarly \/ MouseHandler
  PROVE  PortTyped' /\ InitTyped'
<1>1. UNCHANGED <<line, data, unmasked, config, disturbed, cmd, await>> /\ (irq1' => irq1)
  BY DEF Plain, ExtendedEarly, MouseHandler, user, init, drivers
<1>2. pkt' \in Seq(AnyByte)
  <2>1. CASE MouseHandler
    <3>1. Append(pkt, data) \in Seq(AnyByte) /\ <<>> \in Seq(AnyByte)
      BY DEF PortTyped
    <3> QED BY <2>1, <3>1 DEF MouseHandler, PortTyped
  <2>2. CASE Plain \/ ExtendedEarly
    BY <2>2 DEF Plain, ExtendedEarly, drivers, PortTyped
  <2> QED BY <2>1, <2>2
<1>3. PortTyped'
  BY <1>1, <1>2 DEF PortTyped
<1>4. InitTyped'
  BY <1>1 DEF InitTyped, Done
<1> QED BY <1>3, <1>4

\* The steps of mouse_init.
LEMMA SendTyped ==
  ASSUME PortTyped, InitTyped, EnableAux \/ AskConfig \/ (\E c \in {"F6", "F4"} : Send(c)) \/ See
  PROVE  PortTyped' /\ InitTyped'
<1>1. CASE EnableAux \/ See
  <2>1. UNCHANGED hardware /\ UNCHANGED <<disturbed, pkt, cmd>> /\ await' \in {"send", "poll", "read"}
        /\ await' # "send" /\ ~Done
    BY <1>1 DEF EnableAux, See, To, Command, user, drivers, Done
  <2>2. PortTyped'
    BY <2>1 DEF PortTyped, hardware
  <2> QED BY <2>1, <2>2 DEF InitTyped, hardware, Done
<1>2. CASE AskConfig
  <2>1. /\ line' = [line EXCEPT !.controller = Append(@, Byte("controller", config, 0))]
        /\ UNCHANGED <<Devices, unmasked, config, disturbed, pkt, cmd>> /\ cmd = "20"
        /\ await = "send" /\ await' = "poll"
    BY <1>2 DEF AskConfig, To, Command, user, drivers
  <2>2. config = Typical /\ line.controller = <<>>
    BY <2>1 DEF InitTyped
  <2>3. /\ DOMAIN line' = Source /\ line'.keyboard = line.keyboard /\ line'.mouse = line.mouse
        /\ line'.controller = Append(line.controller, ConfigByte)
    BY <2>1, <2>2 DEF PortTyped, Source, ConfigByte
  <2>4. Append(line.controller, ConfigByte) \in Seq({ConfigByte})
    BY DEF PortTyped
  <2>5. PortTyped'
    BY <2>1, <2>3, <2>4 DEF PortTyped, Devices
  <2>6. InitTyped'
    BY <2>1, <2>2, <2>3 DEF InitTyped, Done
  <2> QED BY <2>5, <2>6
<1>3. ASSUME NEW c \in {"F6", "F4"}, Send(c) PROVE PortTyped' /\ InitTyped'
  <2>1. /\ line' = (IF plugged THEN [line EXCEPT !.mouse = Append(@, Byte("mouse", ACK, 0))] ELSE line)
        /\ UNCHANGED <<Devices, unmasked, config, disturbed, pkt, cmd>> /\ cmd = c /\ await' = "poll"
    BY <1>3 DEF Send, To, Command, user, drivers
  <2>2. /\ DOMAIN line' = Source /\ line'.keyboard = line.keyboard
        /\ line'.controller = line.controller
        /\ line'.mouse = line.mouse \/ line'.mouse = Append(line.mouse, Byte("mouse", ACK, 0))
    BY <2>1 DEF PortTyped, Source
  <2>3. Byte("mouse", ACK, 0) \in BytesOf("mouse")
    BY DEF Byte, ACK, BytesOf
  <2>4. Append(line.mouse, Byte("mouse", ACK, 0)) \in Seq(BytesOf("mouse"))
    BY <2>3 DEF PortTyped
  <2>5. PortTyped'
    BY <2>1, <2>2, <2>4 DEF PortTyped, Devices
  <2>6. InitTyped'
    BY <2>1, <2>2 DEF InitTyped, Done
  <2> QED BY <2>5, <2>6
<1> QED BY <1>1, <1>2, <1>3

LEMMA PollTyped ==
  ASSUME PortTyped, InitTyped, (\E forget \in BOOLEAN : Read(forget)) \/ TimeOut
  PROVE  /\ PortTyped' /\ InitTyped' /\ ~Done
         /\ \E r \in Int : Answered(r) /\ (r = -1 \/ r = data.v)
<1>1. ~Done
  BY DEF InitTyped, Read, TimeOut
<1>2. UNCHANGED <<line, data, disturbed, pkt>> /\ (irq1' => irq1)
  <2>1. UNCHANGED <<line, data, disturbed, pkt>>
    BY DEF Read, TimeOut, Devices, user, drivers
  <2>2. ASSUME irq1' PROVE irq1
    BY <2>2 DEF Read, TimeOut, Devices
  <2> QED BY <2>1, <2>2
<1>3. data.v \in Nat
  BY DEF PortTyped, AnyByte
<1>4. PICK r \in Int : Answered(r) /\ (r = -1 \/ r = data.v)
  BY <1>3 DEF Read, TimeOut
<1>5. PortTyped'
  BY <1>2 DEF PortTyped
<1>6. InitTyped'
  BY <1>1, <1>2, <1>4, AnsweredDoes DEF InitTyped, Done
<1> QED BY <1>1, <1>4, <1>5, <1>6

LEMMA PortKeeps == PortTyped /\ InitTyped /\ [Ps2Next]_ps2Vars => PortTyped' /\ InitTyped'
<1> SUFFICES ASSUME PortTyped, InitTyped, [Ps2Next]_ps2Vars PROVE PortTyped' /\ InitTyped'
  OBVIOUS
<1>1. ASSUME UNCHANGED ps2Vars PROVE PortTyped' /\ InitTyped'
  BY <1>1 DEF ps2Vars, hardware, user, drivers, init, PortTyped, InitTyped, Done
<1>2. ASSUME \E s \in Source : Load(s) PROVE PortTyped' /\ InitTyped'
  BY <1>2, LoadTyped
<1>3. ASSUME Handlers PROVE PortTyped' /\ InitTyped'
  BY <1>3, LoadTyped, HandlerTyped DEF Handlers
<1>4. ASSUME MouseInit PROVE PortTyped' /\ InitTyped'
  BY <1>4, SendTyped, PollTyped DEF MouseInit
<1> QED BY <1>1, <1>2, <1>3, <1>4, UserTyped DEF Ps2Next

LEMMA PortSpec == Ps2Spec => [](PortTyped /\ InitTyped)
<1>1. PortTyped /\ InitTyped /\ [Ps2Next]_ps2Vars => (PortTyped /\ InitTyped)'
  BY PortKeeps
<1> QED BY <1>1, PortStarts, PTL DEF Ps2Spec
---------------------------------------------------------------------------
(* The configuration byte. *)

\* Where its value is while mouse_init asks for it: on its way, or read last.
AskedWell == ~disturbed =>
  /\ cmd \in {"A8", "20"} => line.mouse = <<>>
  /\ cmd = "A8" => ~irq1
  /\ cmd = "20" /\ await = "send" => ~full /\ ~irq1
  /\ cmd = "20" /\ await = "poll" =>
       \/ line.controller = <<ConfigByte>> /\ ~full /\ ~irq1
       \/ line.controller = <<>> /\ data.v = Typical
  /\ cmd = "20" /\ await = "read" => line.controller = <<>> /\ data.v = Typical
  /\ cmd \notin {"A8", "20"} => config = 71

LEMMA ConfigIs ==
  /\ WithMouse(Typical) = 71
  /\ Bit(71, 1) /\ Bit(71, 2) /\ ~Bit(71, 16) /\ Bit(Typical, 1) /\ ~Bit(Typical, 16)
<1>1. Bit(71, 1) /\ Bit(71, 2) /\ ~Bit(71, 16) /\ Bit(101, 1) /\ ~Bit(101, 16)
  BY DEF Bit
<1>2. ~Bit(101, 2) /\ Bit(103, 32)
  BY DEF Bit
<1> QED BY <1>1, <1>2 DEF WithMouse, Typical

LEMMA OneLeft ==
  ASSUME NEW b, NEW q, q = <<b>>
  PROVE  q # <<>> /\ Head(q) = b /\ Tail(q) = <<>>
<1>1. q \in Seq({b}) /\ Len(q) = 1 /\ q # <<>>
  OBVIOUS
<1>2. Tail(q) \in Seq({b}) /\ Len(Tail(q)) = 0
  BY <1>1, HeadTailProperties
<1>3. Tail(q) = <<>>
  BY <1>2, EmptySeq
<1> QED BY <1>1, <1>3

LEMMA AskedOutside ==
  ASSUME PortTyped, InitTyped, AskedWell,
         \/ \E k \in Key : Touch(k)
         \/ \E dx, dy \in Delta : MoveMouse(dx, dy)
         \/ \E s \in Source : Load(s)
  PROVE  AskedWell'
<1>1. CASE (\E k \in Key : Touch(k)) \/ (\E dx, dy \in Delta : MoveMouse(dx, dy))
  <2>1. UNCHANGED <<cmd, config>> /\ disturbed' = (disturbed \/ ~Done)
    BY <1>1 DEF Touch, MoveMouse, init
  <2> QED BY <2>1 DEF AskedWell, Done
<1>2. ASSUME NEW s \in Source, Load(s) PROVE AskedWell'
  <2>1. /\ line[s] # <<>> /\ data' = Head(line[s])
        /\ \A t \in Source : line'[t] = (IF t = s THEN Tail(line[s]) ELSE line[t])
        /\ UNCHANGED <<config, disturbed, cmd, await>> /\ ~full /\ ~irq1
    BY <1>2, LoadTyped DEF Load, user, init
  <2>2. CASE disturbed \/ cmd \notin {"A8", "20"}
    BY <2>1, <2>2 DEF AskedWell
  <2>3. CASE ~disturbed /\ cmd \in {"A8", "20"}
    <3>1. line.keyboard = <<>> /\ line.mouse = <<>>
      BY <2>3 DEF AskedWell, InitTyped, Done
    <3>2. s = "controller"
      BY <2>1, <3>1 DEF Source
    <3>3. cmd = "20" /\ await = "poll" /\ line.controller = <<ConfigByte>>
      BY <2>1, <2>3, <3>2 DEF AskedWell, InitTyped
    <3>4. data' = ConfigByte /\ line'.controller = <<>> /\ line'.mouse = <<>>
      <4>1. Head(line[s]) = ConfigByte /\ Tail(line[s]) = <<>>
        BY <3>2, <3>3, OneLeft
      <4> QED BY <2>1, <3>1, <3>2, <4>1 DEF Source
    <3> QED BY <2>1, <3>3, <3>4 DEF AskedWell, ConfigByte, Byte
  <2> QED BY <2>2, <2>3
<1> QED BY <1>1, <1>2

LEMMA AskedHandlers ==
  ASSUME PortTyped, InitTyped, AskedWell, Handlers
  PROVE  AskedWell'
<1>1. UNCHANGED <<config, disturbed, cmd, await>>
  BY DEF Handlers, Plain, ExtendedEarly, Extended, MouseHandler, user, init
<1>2. CASE disturbed \/ cmd \notin {"A8", "20"}
  BY <1>1, <1>2 DEF AskedWell
<1>3. CASE ~disturbed /\ cmd \in {"A8", "20"}
  <2>1. irq1 => cmd = "20" /\ line.controller = <<>> /\ data.v = Typical
    BY <1>3 DEF AskedWell, InitTyped
  <2>2. ~MouseHandler
    BY <1>3 DEF MouseHandler, InitTyped, Done
  <2>3. Plain
    BY <2>1, <2>2 DEF Handlers, ExtendedEarly, Extended, EXT, Typical
  <2>4. irq1 /\ ~irq1' /\ ~full' /\ UNCHANGED <<line, data>>
    BY <2>3 DEF Plain
  <2> QED BY <1>1, <1>3, <2>1, <2>4 DEF AskedWell
<1> QED BY <1>2, <1>3

LEMMA AskedInit ==
  ASSUME PortTyped, InitTyped, AskedWell, MouseInit
  PROVE  AskedWell'
<1>1. CASE EnableAux
  BY <1>1 DEF EnableAux, To, Command, hardware, user, AskedWell
<1>2. CASE AskConfig
  <2>1. /\ line' = [line EXCEPT !.controller = Append(@, Byte("controller", config, 0))]
        /\ UNCHANGED <<Devices, disturbed, cmd>> /\ cmd = "20" /\ await = "send" /\ await' = "poll"
    BY <1>2 DEF AskConfig, To, Command, user
  <2>2. config = Typical /\ line.controller = <<>>
    BY <2>1 DEF InitTyped
  <2>3. line'.controller = <<ConfigByte>> /\ line'.mouse = line.mouse
    BY <2>1, <2>2 DEF PortTyped, Source, ConfigByte
  <2> QED BY <2>1, <2>3 DEF AskedWell, Devices
<1>3. CASE \E c \in {"F6", "F4"} : Send(c)
  BY <1>3 DEF Send, To, Command, user, AskedWell
<1>4. CASE See
  <2>1. UNCHANGED hardware /\ UNCHANGED disturbed /\ cmd' = cmd /\ await = "poll" /\ await' = "read" /\ full
    BY <1>4 DEF See, To, user
  <2> QED BY <2>1 DEF AskedWell, hardware
<1>5. ASSUME NEW forget \in BOOLEAN, Read(forget) PROVE AskedWell'
  <2>1. /\ Answered(data.v) /\ data.v \in Int /\ ~(data.v < 0) /\ ~Done /\ await = "read" /\ ~full'
        /\ UNCHANGED <<line, disturbed>>
    <3>1. data.v \in Nat
      BY DEF PortTyped, AnyByte
    <3>2. ~Done
      BY <1>5, PollTyped
    <3> QED BY <1>5, <3>1, <3>2 DEF Read, user
  <2>2. ASSUME irq1' PROVE irq1
    BY <1>5, <2>2 DEF Read
  <2>3. ~disturbed /\ cmd = "20" => config' = 71
    BY <2>1, AnsweredDoes, ConfigIs DEF AskedWell
  <2> QED BY <2>1, <2>2, <2>3, AnsweredDoes DEF AskedWell
<1>6. CASE TimeOut
  <2>1. /\ Answered(-1) /\ -1 \in Int /\ ~Done /\ ~full /\ ~irq1 /\ UNCHANGED <<line, Devices, disturbed>>
    BY <1>6 DEF TimeOut, user
  <2>2. ~disturbed /\ cmd = "20" => config' = 71
    BY <2>1, AnsweredDoes, ConfigIs DEF AskedWell
  <2> QED BY <2>1, <2>2, AnsweredDoes DEF AskedWell, Devices
<1> QED BY <1>1, <1>2, <1>3, <1>4, <1>5, <1>6 DEF MouseInit

LEMMA AskedSpec == Ps2Spec => []AskedWell
<1>1. Ps2Init => AskedWell
  <2>1. Ps2Init => line.mouse = <<>> /\ ~irq1 /\ cmd = "A8"
    BY DEF Ps2Init, Source
  <2> QED BY <2>1 DEF AskedWell
<1>2. AskedWell /\ PortTyped /\ InitTyped /\ [Ps2Next]_ps2Vars => AskedWell'
  <2>1. UNCHANGED ps2Vars /\ AskedWell => AskedWell'
    BY DEF ps2Vars, hardware, user, init, AskedWell
  <2> QED BY <2>1, AskedOutside, AskedHandlers, AskedInit DEF Ps2Next
<1> QED BY <1>1, <1>2, PortSpec, PTL DEF Ps2Spec

\* Whatever the BIOS left in the buffer, however late the answers come and whichever
\* interrupts outlive their bytes, mouse_init leaves the keyboard and its interrupt on.
THEOREM KeyboardOn == Ps2Spec => []KeyboardStaysOn
<1>1. InitTyped /\ AskedWell => KeyboardStaysOn
  BY ConfigIs DEF InitTyped, AskedWell, KeyboardStaysOn
<1> QED BY <1>1, PortSpec, AskedSpec, PTL

---------------------------------------------------------------------------
(* The packets of the mouse. *)

\* A byte of an answer, 0, or of a packet, by its place; which may follow which.
Fit(b) ==
  /\ b.n \in 0 .. 3
  /\ b.n = 0 => b.v \in {ACK, Typical}
  /\ b.n = 1 => b.v = 8
  /\ b.n # 0 => b.source = "mouse"
Follows(a, b) == IF a \in {0, 3} THEN b \in {0, 1} ELSE b = a + 1
Chain(n, q) ==
  /\ \A i \in DOMAIN q : Fit(q[i])
  /\ q = <<>> => n \in {0, 3}
  /\ q # <<>> => Follows(n, q[1].n) /\ q[Len(q)].n \in {0, 3}
  /\ \A i \in DOMAIN q : i # Len(q) => Follows(q[i].n, q[i + 1].n)

\* Before mouse_init is done there are only answers; after it, the byte the handler is
\* to read goes on where the packet stands, and the others follow it.
Framing == ~disturbed /\ "mouse" \notin stray =>
  /\ \A i \in DOMAIN pkt : pkt[i].source = "mouse" /\ pkt[i].n = i
  /\ Len(pkt) <= 2
  /\ ~Done => /\ pkt = <<>> /\ \A i \in DOMAIN line.mouse : line.mouse[i].n = 0 /\ line.mouse[i].v = ACK
              /\ data.v # EXT /\ data.n = 0 /\ (irq12 => data.v \in {ACK, Typical})
  /\ Done => /\ ~(irq1 /\ irq12)
             /\ irq12 => Fit(data) /\ Follows(Len(pkt), data.n) /\ Chain(data.n, line.mouse)
             /\ ~irq12 => Chain(Len(pkt), line.mouse)

LEMMA ChainTail ==
  ASSUME NEW S, NEW q \in Seq(S), NEW n, Chain(n, q), q # <<>>
  PROVE  Fit(Head(q)) /\ Follows(n, Head(q).n) /\ Chain(Head(q).n, Tail(q))
<1> DEFINE t == Tail(q)
<1>1. /\ DOMAIN q = 1 .. Len(q) /\ Len(q) \in Nat /\ Len(q) # 0 /\ Head(q) = q[1]
      /\ t \in Seq(S) /\ Len(t) = Len(q) - 1 /\ DOMAIN t = 1 .. Len(q) - 1
      /\ \A i \in 1 .. Len(q) - 1 : t[i] = q[i + 1]
  <2>1. DOMAIN q = 1 .. Len(q) /\ Len(q) \in Nat /\ Len(q) # 0
    BY LenProperties, EmptySeq
  <2>2. Head(q) = q[1]
    OBVIOUS
  <2>3. t \in Seq(S) /\ Len(t) = Len(q) - 1 /\ \A i \in 1 .. Len(t) : t[i] = q[i + 1]
    BY HeadTailProperties
  <2>4. DOMAIN t = 1 .. Len(q) - 1
    BY <2>3, LenProperties
  <2> QED BY <2>1, <2>2, <2>3, <2>4
<1> HIDE DEF t
<1>2. t = <<>> <=> Len(q) = 1
  <2>1. t = <<>> <=> Len(t) = 0
    BY <1>1, EmptySeq
  <2> QED BY <1>1, <2>1
<1>3. \A i \in DOMAIN t : i \in 1 .. Len(q) - 1 /\ i + 1 \in DOMAIN q /\ t[i] = q[i + 1]
  BY <1>1
<1>4. 1 \in DOMAIN q
  BY <1>1
<1>5. \A i \in DOMAIN t : i # Len(t) => i + 1 \in DOMAIN t /\ i + 1 # Len(q) /\ (i + 1) + 1 = i + 2
  BY <1>1
<1>6. t # <<>> => 1 \in DOMAIN t /\ Len(t) \in DOMAIN t /\ t[1] = q[2] /\ t[Len(t)] = q[Len(q)]
                  /\ Len(q) # 1
  BY <1>1, <1>2
<1>7. t = <<>> => q[Len(q)] = q[1]
  BY <1>2
<1>8. \A i \in DOMAIN t : i # Len(t) => Follows(t[i].n, t[i + 1].n)
  BY <1>3, <1>5 DEF Chain
<1>9. \A i \in DOMAIN t : Fit(t[i])
  BY <1>3 DEF Chain
<1>10. t # <<>> => Follows(q[1].n, q[2].n)
  <2>1. Len(q) # 1 => Follows(q[1].n, q[1 + 1].n)
    BY <1>4 DEF Chain
  <2>2. 1 + 1 = 2
    OBVIOUS
  <2> QED BY <1>6, <2>1, <2>2
<1>11. Chain(q[1].n, t)
  BY <1>6, <1>7, <1>8, <1>9, <1>10 DEF Chain
<1> QED BY <1>1, <1>4, <1>11 DEF Chain, t

LEMMA ChainMoved ==
  ASSUME NEW q \in Seq(BytesOf("mouse")), NEW n, Chain(n, q), NEW dx \in Nat, NEW dy \in Nat
  PROVE  Chain(n, q \o Packet(dx, dy))
<1> DEFINE p == Packet(dx, dy)
           r == q \o p
           k == Len(q)
<1>1. /\ p \in Seq(BytesOf("mouse")) /\ Len(p) = 3
      /\ p[1] = Byte("mouse", 8, 1) /\ p[2] = Byte("mouse", dx, 2) /\ p[3] = Byte("mouse", dy, 3)
  <2>1. Byte("mouse", 8, 1) \in BytesOf("mouse") /\ Byte("mouse", dx, 2) \in BytesOf("mouse")
        /\ Byte("mouse", dy, 3) \in BytesOf("mouse")
    BY DEF Byte, BytesOf
  <2> QED BY <2>1 DEF Packet
<1>2. Fit(p[1]) /\ Fit(p[2]) /\ Fit(p[3]) /\ p[1].n = 1 /\ p[2].n = 2 /\ p[3].n = 3
  BY <1>1 DEF Fit, Byte
<1> HIDE DEF p
<1>3. /\ r \in Seq(BytesOf("mouse")) /\ Len(r) = k + 3 /\ k \in Nat /\ DOMAIN q = 1 .. k
      /\ DOMAIN r = 1 .. k + 3
      /\ \A i \in 1 .. k : r[i] = q[i]
      /\ r[k + 1] = p[1] /\ r[k + 2] = p[2] /\ r[k + 3] = p[3]
  <2>1. /\ r \in Seq(BytesOf("mouse")) /\ Len(r) = k + 3 /\ k \in Nat
        /\ \A i \in 1 .. k + 3 : r[i] = IF i <= k THEN q[i] ELSE p[i - k]
    <3>1. /\ q \o p \in Seq(BytesOf("mouse")) /\ Len(q \o p) = Len(q) + Len(p)
          /\ \A i \in 1 .. Len(q) + Len(p) : (q \o p)[i] = IF i <= Len(q) THEN q[i] ELSE p[i - Len(q)]
      BY <1>1, ConcatProperties
    <3>2. Len(q) \in Nat
      BY LenProperties
    <3> QED BY <1>1, <3>1, <3>2
  <2>2. DOMAIN q = 1 .. k /\ DOMAIN r = 1 .. k + 3
    BY <2>1, LenProperties
  <2>3. k + 1 - k = 1 /\ k + 2 - k = 2 /\ k + 3 - k = 3
    BY <2>1
  <2> QED BY <2>1, <2>2, <2>3
<1>4. r # <<>>
  BY <1>3
<1>5. q = <<>> <=> k = 0
  BY EmptySeq
<1> HIDE DEF r, k
<1>6. \A i \in DOMAIN r : Fit(r[i])
  BY <1>2, <1>3 DEF Chain
<1>7. Follows(n, r[1].n)
  <2>1. CASE q = <<>>
    BY <1>2, <1>3, <1>5, <2>1 DEF Chain, Follows
  <2>2. CASE q # <<>>
    BY <1>3, <1>5, <2>2 DEF Chain
  <2> QED BY <2>1, <2>2
<1>8. ASSUME NEW i \in DOMAIN r, i # Len(r) PROVE Follows(r[i].n, r[i + 1].n)
  <2>1. CASE i < k
    BY <1>3, <2>1 DEF Chain, k
  <2>2. CASE i = k
    <3>0. i \in 1 .. k /\ k # 0
      BY <1>3, <1>8, <2>2
    <3>1. q # <<>> /\ r[i] = q[k] /\ r[i + 1] = p[1] /\ k = Len(q)
      BY <1>3, <1>5, <2>2, <3>0 DEF k
    <3> QED BY <1>2, <3>1 DEF Chain, Follows
  <2>3. CASE i = k + 1
    BY <1>2, <1>3, <2>3 DEF Follows
  <2>4. CASE i = k + 2
    BY <1>2, <1>3, <2>4 DEF Follows
  <2> QED BY <1>3, <1>8, <2>1, <2>2, <2>3, <2>4
<1> QED BY <1>2, <1>3, <1>4, <1>6, <1>7, <1>8 DEF Chain, r, p

\* Answers alone.
LEMMA ChainOfAnswers ==
  ASSUME NEW S, NEW q \in Seq(S), \A i \in DOMAIN q : q[i].n = 0 /\ q[i].v = ACK
  PROVE  Chain(0, q)
<1>1. DOMAIN q = 1 .. Len(q) /\ Len(q) \in Nat /\ (q # <<>> => Len(q) # 0)
  BY LenProperties, EmptySeq
<1>2. \A i \in DOMAIN q : Fit(q[i]) /\ Follows(0, q[i].n)
  BY DEF Fit, Follows
<1>3. q # <<>> => 1 \in DOMAIN q /\ Len(q) \in DOMAIN q
  BY <1>1
<1>4. \A i \in DOMAIN q : i # Len(q) => i + 1 \in DOMAIN q
  BY <1>1
<1> QED BY <1>2, <1>3, <1>4 DEF Chain

LEMMA FramingUser ==
  ASSUME PortTyped, InitTyped, Framing,
         (\E k \in Key : Touch(k)) \/ (\E dx, dy \in Delta : MoveMouse(dx, dy))
  PROVE  Framing'
<1>1. /\ UNCHANGED <<data, irq1, irq12, pkt, cmd, stray>> /\ disturbed' = (disturbed \/ ~Done)
  BY DEF Touch, MoveMouse, drivers, init
<1>2. ASSUME NEW k \in Key, Touch(k) PROVE Framing'
  <2>1. line'.mouse = line.mouse
    BY <1>2, TouchDoes DEF PortTyped, Source
  <2> QED BY <1>1, <2>1 DEF Framing, Done
<1>3. ASSUME NEW dx \in Delta, NEW dy \in Delta, MoveMouse(dx, dy) PROVE Framing'
  <2>1. line'.mouse = line.mouse \o Packet(dx, dy)
    BY <1>3 DEF MoveMouse, PortTyped, Source
  <2>2. dx \in Nat /\ dy \in Nat /\ line.mouse \in Seq(BytesOf("mouse"))
    BY Ps2Assumption DEF PortTyped
  <2>3. \A n : Chain(n, line.mouse) => Chain(n, line'.mouse)
    BY <2>1, <2>2, ChainMoved
  <2> QED BY <1>1, <2>3 DEF Framing, Done
<1> QED BY <1>2, <1>3

LEMMA FramingLoad ==
  ASSUME PortTyped, InitTyped, AskedWell, Framing, NEW s \in Source, Load(s)
  PROVE  Framing'
<1>1. /\ line[s] # <<>> /\ data' = Head(line[s])
      /\ \A t \in Source : line'[t] = (IF t = s THEN Tail(line[s]) ELSE line[t])
      /\ UNCHANGED <<config, disturbed, cmd, pkt, stray>>
      /\ ~irq1 /\ ~(irq12 /\ unmasked)
      /\ irq1' = Raises1(s) /\ irq12' = (irq12 \/ Raises12(s))
  BY LoadTyped DEF Load, user, init, drivers
<1>2. line'.mouse = (IF s = "mouse" THEN Tail(line.mouse) ELSE line.mouse)
  BY <1>1 DEF Source
<1>3. line.mouse \in Seq(BytesOf("mouse"))
  BY DEF PortTyped
<1>4. SUFFICES ASSUME ~disturbed, "mouse" \notin stray PROVE Framing'
  BY <1>1 DEF Framing
<1>5. CASE ~Done
  <2>1. s # "keyboard"
    BY <1>1, <1>4, <1>5 DEF InitTyped
  <2>2. CASE s = "controller"
    <3>1. data' = ConfigByte /\ line'.mouse = line.mouse
      BY <1>1, <1>2, <2>2, NextByte
    <3> QED BY <1>1, <1>4, <1>5, <3>1 DEF Framing, Done, ConfigByte, Byte, EXT, Typical
  <2>3. CASE s = "mouse"
    <3>1. DOMAIN line.mouse = 1 .. Len(line.mouse) /\ Len(line.mouse) \in Nat \ {0}
      BY <1>1, <1>3, <2>3, LenProperties, EmptySeq
    <3>2. data' = line.mouse[1] /\ 1 \in DOMAIN line.mouse
      BY <1>1, <1>3, <2>3, <3>1
    <3>3. ASSUME NEW i \in DOMAIN line'.mouse
          PROVE  i + 1 \in DOMAIN line.mouse /\ line'.mouse[i] = line.mouse[i + 1]
      <4>1. /\ line'.mouse \in Seq(BytesOf("mouse")) /\ Len(line'.mouse) = Len(line.mouse) - 1
            /\ \A j \in 1 .. Len(line'.mouse) : line'.mouse[j] = line.mouse[j + 1]
        BY <1>1, <1>2, <1>3, <2>3, HeadTailProperties
      <4>2. DOMAIN line'.mouse = 1 .. Len(line'.mouse)
        BY <4>1, LenProperties
      <4> QED BY <3>1, <4>1, <4>2
    <3>4. data'.n = 0 /\ data'.v = ACK /\ \A i \in DOMAIN line'.mouse :
            line'.mouse[i].n = 0 /\ line'.mouse[i].v = ACK
      BY <1>4, <1>5, <3>2, <3>3 DEF Framing
    <3> QED BY <1>1, <1>4, <1>5, <3>4 DEF Framing, Done, EXT, ACK
  <2> QED BY <2>1, <2>2, <2>3 DEF Source
<1>6. CASE Done
  <2>1. ~irq12 /\ Chain(Len(pkt), line.mouse)
    BY <1>1, <1>4, <1>6 DEF InitTyped, Framing
  <2>2. CASE s = "mouse"
    <3>1. irq12' /\ ~irq1'
      <4>1. config = 71
        BY <1>4, <1>6 DEF AskedWell, Done
      <4> QED BY <1>1, <2>2, <4>1, ConfigIs DEF Raises1, Raises12
    <3>2. Fit(data') /\ Follows(Len(pkt), data'.n) /\ Chain(data'.n, line'.mouse)
      BY <1>1, <1>2, <1>3, <2>1, <2>2, ChainTail
    <3> QED BY <1>1, <1>4, <1>6, <3>1, <3>2 DEF Framing, Done
  <2>3. CASE s # "mouse"
    <3>1. ~irq12' /\ line'.mouse = line.mouse
      BY <1>1, <1>2, <2>1, <2>3 DEF Raises12
    <3> QED BY <1>1, <1>4, <1>6, <2>1, <3>1 DEF Framing, Done
  <2> QED BY <2>2, <2>3
<1> QED BY <1>5, <1>6

LEMMA FramingKeyboard ==
  ASSUME PortTyped, InitTyped, Framing,
         Plain \/ ExtendedEarly \/ \E s \in Source, again \in BOOLEAN : Extended(s, again)
  PROVE  Framing'
<1>1. CASE Plain \/ ExtendedEarly
  <2>1. /\ UNCHANGED <<line, data, irq12, disturbed, cmd, pkt>> /\ irq1' = FALSE
        /\ stray \subseteq stray'
    BY <1>1 DEF Plain, ExtendedEarly, user, init, drivers
  <2> QED BY <2>1 DEF Framing, Done
<1>2. ASSUME NEW s \in Source, NEW again \in BOOLEAN, Extended(s, again) PROVE Framing'
  <2>1. /\ irq1 /\ data.v = EXT /\ UNCHANGED <<disturbed, cmd, pkt>> /\ stray \subseteq stray'
        /\ s = "mouse" => "mouse" \in stray'
        /\ irq12' = (irq12 \/ (again /\ Raises12(s)))
    BY <1>2 DEF Extended, user, init, drivers
  <2>2. s # "mouse" => ~Raises12(s) /\ line'.mouse = line.mouse
    BY <1>2, LoadTyped DEF Raises12, Source
  <2>3. SUFFICES ASSUME ~disturbed, "mouse" \notin stray, s # "mouse" PROVE Framing'
    BY <2>1 DEF Framing
  <2>4. Done /\ ~irq12 /\ ~irq12' /\ line'.mouse = line.mouse
    BY <2>1, <2>2, <2>3 DEF Framing
  <2> QED BY <2>1, <2>3, <2>4 DEF Framing, Done
<1> QED BY <1>1, <1>2

LEMMA FramingMouse ==
  ASSUME PortTyped, InitTyped, Framing, MouseHandler
  PROVE  Framing'
<1>1. /\ irq12 /\ Done /\ ~irq1 /\ irq12' = FALSE /\ UNCHANGED <<line, data, irq1, disturbed, cmd>>
      /\ stray \subseteq stray'
      /\ pkt' = IF OutOfStep(data.v) THEN pkt
                ELSE IF Len(pkt) = 2 THEN <<>> ELSE Append(pkt, data)
  BY DEF MouseHandler, InitTyped, user, init
<1>2. SUFFICES ASSUME ~disturbed, "mouse" \notin stray PROVE Framing'
  BY <1>1 DEF Framing
<1>3. /\ Fit(data) /\ Follows(Len(pkt), data.n) /\ Chain(data.n, line.mouse)
      /\ Len(pkt) <= 2 /\ \A i \in DOMAIN pkt : pkt[i].source = "mouse" /\ pkt[i].n = i
  BY <1>1, <1>2 DEF Framing
<1>4. /\ pkt \in Seq(AnyByte) /\ data \in AnyByte /\ Len(pkt) \in Nat /\ DOMAIN pkt = 1 .. Len(pkt)
      /\ pkt = <<>> <=> Len(pkt) = 0
  BY LenProperties, EmptySeq DEF PortTyped
<1>5. SUFFICES /\ Len(pkt') <= 2 /\ \A i \in DOMAIN pkt' : pkt'[i].source = "mouse" /\ pkt'[i].n = i
               /\ Chain(Len(pkt'), line.mouse)
  BY <1>1 DEF Framing, Done
<1>6. ASSUME pkt' = Append(pkt, data), Len(pkt) # 2, data.n = Len(pkt) + 1
      PROVE  /\ Len(pkt') <= 2 /\ \A i \in DOMAIN pkt' : pkt'[i].source = "mouse" /\ pkt'[i].n = i
             /\ Chain(Len(pkt'), line.mouse)
  <2>1. /\ Len(pkt') = Len(pkt) + 1 /\ DOMAIN pkt' = 1 .. Len(pkt) + 1
        /\ \A i \in 1 .. Len(pkt) : pkt'[i] = pkt[i]
        /\ pkt'[Len(pkt) + 1] = data
    BY <1>4, <1>6, AppendProperties, LenProperties
  <2>2. data.source = "mouse"
    BY <1>3, <1>4, <1>6 DEF Fit
  <2> QED BY <1>3, <1>4, <1>6, <2>1, <2>2
<1>7. CASE Len(pkt) = 0
  <2>1. data.n \in {0, 1}
    BY <1>3, <1>7 DEF Follows
  <2>2. CASE data.n = 0
    <3>1. IsAnswer(250) /\ ~Bit(101, 8)
      BY DEF IsAnswer, Bit
    <3>2. OutOfStep(data.v)
      BY <1>3, <1>4, <1>7, <2>2, <3>1 DEF OutOfStep, Fit, ACK, Typical
    <3> QED BY <1>1, <1>3, <1>7, <2>2, <3>2
  <2>3. CASE data.n = 1
    <3>1. ~IsAnswer(8) /\ Bit(8, 8)
      BY DEF IsAnswer, Bit
    <3>2. ~OutOfStep(data.v)
      BY <1>3, <2>3, <3>1 DEF OutOfStep, Fit
    <3> QED BY <1>1, <1>6, <1>7, <2>3, <3>2
  <2> QED BY <2>1, <2>2, <2>3
<1>8. CASE Len(pkt) = 1
  <2>1. data.n = 2 /\ ~OutOfStep(data.v)
    BY <1>3, <1>4, <1>8 DEF Follows, OutOfStep
  <2> QED BY <1>1, <1>6, <1>8, <2>1
<1>9. CASE Len(pkt) = 2
  <2>1. data.n = 3 /\ ~OutOfStep(data.v)
    BY <1>3, <1>4, <1>9 DEF Follows, OutOfStep
  <2>2. pkt' = <<>> /\ Len(pkt') = 0 /\ DOMAIN pkt' = {}
    BY <1>1, <1>9, <2>1
  <2>3. Chain(0, line.mouse)
    BY <1>3, <2>1 DEF Chain, Follows
  <2> QED BY <2>2, <2>3
<1> QED BY <1>3, <1>4, <1>7, <1>8, <1>9

LEMMA FramingInit ==
  ASSUME PortTyped, InitTyped, Framing, MouseInit
  PROVE  Framing'
<1>1. CASE EnableAux \/ AskConfig \/ See
  <2>1. /\ UNCHANGED <<data, irq1, irq12, disturbed, cmd, pkt, stray>> /\ ~Done
    BY <1>1 DEF EnableAux, AskConfig, See, To, Command, hardware, Devices, user, drivers, Done
  <2>2. line'.mouse = line.mouse
    BY <1>1 DEF EnableAux, AskConfig, See, hardware, PortTyped, Source
  <2> QED BY <2>1, <2>2 DEF Framing, Done
<1>2. ASSUME NEW c \in {"F6", "F4"}, Send(c) PROVE Framing'
  <2>1. /\ UNCHANGED <<data, irq1, irq12, disturbed, pkt, stray, cmd>> /\ ~Done
        /\ line' = IF plugged THEN [line EXCEPT !.mouse = Append(@, Byte("mouse", ACK, 0))] ELSE line
    BY <1>2 DEF Send, To, Command, Devices, user, drivers, Done
  <2>2. line'.mouse = line.mouse \/ line'.mouse = Append(line.mouse, Byte("mouse", ACK, 0))
    BY <2>1 DEF PortTyped, Source
  <2>3. Byte("mouse", ACK, 0) \in BytesOf("mouse") /\ line.mouse \in Seq(BytesOf("mouse"))
    BY DEF Byte, ACK, BytesOf, PortTyped
  <2>4. ASSUME \A i \in DOMAIN line.mouse : line.mouse[i].n = 0 /\ line.mouse[i].v = ACK
        PROVE  \A i \in DOMAIN line'.mouse : line'.mouse[i].n = 0 /\ line'.mouse[i].v = ACK
    BY SMTT(30), <2>2, <2>3, <2>4, AppendProperties, LenProperties DEF Byte
  <2> QED BY <2>1, <2>4 DEF Framing, Done
<1>3. CASE (\E forget \in BOOLEAN : Read(forget)) \/ TimeOut
  <2>1. UNCHANGED <<line, data, disturbed, pkt>> /\ stray \subseteq stray' /\ ~Done
    BY <1>3, PollTyped DEF Read, TimeOut, Devices, user, drivers
  <2>2. ASSUME irq12' PROVE irq12
    BY <1>3, <2>2 DEF Read, TimeOut, Devices
  <2>3. ASSUME Done' PROVE ~irq1'
    <3>1. PICK r \in Int : Answered(r) /\ (r = -1 \/ r = data.v)
      BY <1>3, PollTyped
    <3>2. CASE TimeOut
      BY <3>2 DEF TimeOut, Devices
    <3>3. ASSUME NEW forget \in BOOLEAN, Read(forget) PROVE FALSE
      <4>1. Answered(data.v) /\ data.v \in Nat
        BY <3>3 DEF Read, PortTyped, AnyByte
      <4> QED BY <2>1, <2>3, <4>1, AnsweredDoes DEF Done
    <3> QED BY <1>3, <3>2, <3>3
  <2>4. SUFFICES ASSUME ~disturbed, "mouse" \notin stray PROVE Framing'
    BY <2>1 DEF Framing
  <2>5. /\ pkt = <<>> /\ data.n = 0 /\ (irq12 => data.v \in {ACK, Typical}) /\ data.v # EXT
        /\ \A i \in DOMAIN line.mouse : line.mouse[i].n = 0 /\ line.mouse[i].v = ACK
    BY <2>1, <2>4 DEF Framing
  <2>6. Chain(0, line.mouse) /\ Len(pkt) = 0 /\ DOMAIN pkt = {}
    BY <2>5, ChainOfAnswers DEF PortTyped
  <2> QED BY <2>1, <2>2, <2>3, <2>5, <2>6 DEF Framing, Fit, Follows
<1> QED BY <1>1, <1>2, <1>3 DEF MouseInit

LEMMA FramingSpec == Ps2Spec => []Framing
<1>1. Ps2Init => Framing
  <2>1. Ps2Init => /\ pkt = <<>> /\ line.mouse = <<>> /\ ~Done /\ ~irq12 /\ data.n = 0 /\ data.v = 30
    BY DEF Ps2Init, Source, Done, Byte
  <2> QED BY <2>1 DEF Framing, EXT
<1>2. Framing /\ AskedWell /\ PortTyped /\ InitTyped /\ [Ps2Next]_ps2Vars => Framing'
  <2>1. UNCHANGED ps2Vars /\ Framing => Framing'
    BY DEF ps2Vars, hardware, user, init, drivers, Framing, Done
  <2> QED BY <2>1, FramingUser, FramingLoad, FramingKeyboard, FramingMouse, FramingInit
          DEF Ps2Next, Handlers
<1> QED BY <1>1, <1>2, PortSpec, AskedSpec, PTL DEF Ps2Spec

\* For every number of packets and of late answers: the bytes gathered as a packet are
\* those of a packet in their places, if nothing was touched during mouse_init and the
\* keyboard handler took no byte of the mouse.
THEOREM PacketsInStep == Ps2Spec => []PacketsFramed
<1>1. Framing => PacketsFramed
  BY DEF Framing, PacketsFramed
<1> QED BY <1>1, FramingSpec, PTL

---------------------------------------------------------------------------
(* Shift and Ctrl. *)

\* What the handler makes of a byte.
ShiftAfter(s, v) == IF v \in {42, 54} THEN TRUE ELSE IF v \in {170, 182} THEN FALSE ELSE s
CtrlAfter(c, v)  == IF v = 29 THEN TRUE ELSE IF v = 157 THEN FALSE ELSE c

\* The bytes still to be read end with the shift flag as the keys are: h, one is down.
ShiftOK(h, s, q) ==
  /\ (\A i \in DOMAIN q : q[i].v \notin ShiftCode) => (s => h)
  /\ \A i \in DOMAIN q :
       q[i].v \in ShiftMake /\ (\A j \in DOMAIN q : j > i => q[j].v \notin ShiftCode) => h

\* The same of the control flag, which the right key, with its prefix, does not change;
\* e: a prefix was read last.
Alone(e, q, i) == q[i].v \in CtrlCode /\ (IF i = 1 THEN ~e ELSE q[i - 1].v # EXT)
CtrlOK(l, c, e, q) ==
  /\ (\A i \in DOMAIN q : ~Alone(e, q, i)) => (c <=> l)
  /\ \A i \in DOMAIN q :
       Alone(e, q, i) /\ (\A j \in DOMAIN q : j > i => ~Alone(e, q, j)) => (q[i].v = 29 <=> l)

\* Behind a prefix comes the byte it belongs to.
Paired(e, q) ==
  /\ e => q # <<>> /\ q[1].v \in CtrlCode
  /\ \A i \in DOMAIN q : q[i].v = EXT => i + 1 \in DOMAIN q /\ q[i + 1].v \in CtrlCode

LEMMA TailIs ==
  ASSUME NEW S, NEW q \in Seq(S), q # <<>>
  PROVE  /\ DOMAIN q = 1 .. Len(q) /\ Len(q) \in Nat \ {0} /\ Head(q) = q[1]
         /\ DOMAIN Tail(q) = 1 .. Len(q) - 1
         /\ \A i \in DOMAIN Tail(q) : i + 1 \in DOMAIN q /\ Tail(q)[i] = q[i + 1]
         /\ \A i \in DOMAIN q : i # 1 => i - 1 \in DOMAIN Tail(q) /\ Tail(q)[i - 1] = q[i]
<1>1. DOMAIN q = 1 .. Len(q) /\ Len(q) \in Nat \ {0}
  BY LenProperties, EmptySeq
<1>2. Head(q) = q[1]
  OBVIOUS
<1>3. /\ Tail(q) \in Seq(S) /\ Len(Tail(q)) = Len(q) - 1
      /\ \A i \in 1 .. Len(Tail(q)) : Tail(q)[i] = q[i + 1]
  BY HeadTailProperties
<1>4. DOMAIN Tail(q) = 1 .. Len(q) - 1
  BY <1>3, LenProperties
<1>5. \A i \in DOMAIN Tail(q) : i + 1 \in DOMAIN q /\ Tail(q)[i] = q[i + 1]
  BY <1>1, <1>3, <1>4
<1>6. ASSUME NEW i \in DOMAIN q, i # 1 PROVE i - 1 \in DOMAIN Tail(q) /\ Tail(q)[i - 1] = q[i]
  <2>1. i - 1 \in 1 .. Len(q) - 1 /\ (i - 1) + 1 = i
    BY <1>1, <1>6
  <2> QED BY <1>4, <1>5, <2>1
<1> QED BY <1>1, <1>2, <1>4, <1>5, <1>6

LEMMA ShiftTaken ==
  ASSUME NEW S, NEW q \in Seq(S), q # <<>>, NEW h, NEW s, ShiftOK(h, s, q)
  PROVE  ShiftOK(h, ShiftAfter(s, Head(q).v), Tail(q))
<1> DEFINE t == Tail(q)
           v == q[1].v
<1>1. /\ DOMAIN q = 1 .. Len(q) /\ Len(q) \in Nat \ {0} /\ Head(q) = q[1]
      /\ DOMAIN t = 1 .. Len(q) - 1
      /\ \A i \in DOMAIN t : i + 1 \in DOMAIN q /\ t[i] = q[i + 1]
      /\ \A i \in DOMAIN q : i # 1 => i - 1 \in DOMAIN t /\ t[i - 1] = q[i]
  BY TailIs
<1> HIDE DEF t
<1>2. 1 \in DOMAIN q /\ \A j \in DOMAIN q : j > 1 <=> j # 1
  BY <1>1
<1>3. ASSUME \A i \in DOMAIN t : t[i].v \notin ShiftCode PROVE ShiftAfter(s, v) => h
  <2>1. \A j \in DOMAIN q : j # 1 => q[j].v \notin ShiftCode
    BY <1>1, <1>3
  <2>2. CASE v \in ShiftMake
    BY <1>2, <2>1, <2>2 DEF ShiftOK
  <2>3. CASE v \in {170, 182}
    BY <2>3 DEF ShiftAfter
  <2>4. CASE v \notin ShiftCode
    <3>1. s => h
      BY <2>1, <2>4 DEF ShiftOK
    <3> QED BY <2>4, <3>1 DEF ShiftAfter, ShiftCode
  <2> QED BY <2>2, <2>3, <2>4 DEF ShiftCode, ShiftMake
<1>4. ASSUME NEW i \in DOMAIN t, t[i].v \in ShiftMake,
             \A j \in DOMAIN t : j > i => t[j].v \notin ShiftCode
      PROVE  h
  <2>1. i + 1 \in DOMAIN q /\ q[i + 1].v \in ShiftMake
    BY <1>1, <1>4
  <2>2. ASSUME NEW j \in DOMAIN q, j > i + 1 PROVE q[j].v \notin ShiftCode
    <3>1. j # 1 /\ j - 1 > i
      BY <1>1, <2>2
    <3> QED BY <1>1, <1>4, <3>1
  <2> QED BY <2>1, <2>2 DEF ShiftOK
<1>5. ShiftOK(h, ShiftAfter(s, v), t)
  BY <1>3, <1>4 DEF ShiftOK
<1> QED BY <1>1, <1>5 DEF t

LEMMA PairTaken ==
  ASSUME NEW S, NEW q \in Seq(S), q # <<>>, NEW e, Paired(e, q)
  PROVE  Paired(Head(q).v = EXT, Tail(q)) /\ (e => Head(q).v \in CtrlCode)
<1> DEFINE t == Tail(q)
           v == q[1].v
<1>1. /\ DOMAIN q = 1 .. Len(q) /\ Len(q) \in Nat \ {0} /\ Head(q) = q[1]
      /\ DOMAIN t = 1 .. Len(q) - 1
      /\ \A i \in DOMAIN t : i + 1 \in DOMAIN q /\ t[i] = q[i + 1]
      /\ \A i \in DOMAIN q : i # 1 => i - 1 \in DOMAIN t /\ t[i - 1] = q[i]
  BY TailIs
<1>2. t = <<>> => DOMAIN t = {}
  OBVIOUS
<1> HIDE DEF t
<1>3. 1 \in DOMAIN q /\ 1 + 1 = 2 /\ 2 - 1 = 1
  BY <1>1
<1>4. v = EXT => t # <<>> /\ t[1].v \in CtrlCode
  <2>1. v = EXT => 2 \in DOMAIN q /\ q[2].v \in CtrlCode
    BY <1>3 DEF Paired
  <2>2. 2 \in DOMAIN q => 1 \in DOMAIN t /\ t[1] = q[2]
    BY <1>1, <1>3
  <2> QED BY <1>2, <2>1, <2>2
<1>5. ASSUME NEW i \in DOMAIN t, t[i].v = EXT PROVE i + 1 \in DOMAIN t /\ t[i + 1].v \in CtrlCode
  <2>1. i + 1 \in DOMAIN q /\ (i + 1) + 1 \in DOMAIN q /\ q[(i + 1) + 1].v \in CtrlCode
    BY <1>1, <1>5 DEF Paired
  <2>2. i + 1 \in DOMAIN t
    BY <1>1, <2>1
  <2> QED BY <1>1, <2>1, <2>2
<1>6. Paired(v = EXT, t) /\ (e => v \in CtrlCode)
  BY <1>4, <1>5 DEF Paired
<1> QED BY <1>1, <1>6 DEF t

LEMMA CtrlTaken ==
  ASSUME NEW S, NEW q \in Seq(S), q # <<>>, NEW l, NEW c, NEW e, CtrlOK(l, c, e, q)
  PROVE  CtrlOK(l, IF e THEN c ELSE CtrlAfter(c, Head(q).v), Head(q).v = EXT, Tail(q))
<1> DEFINE t == Tail(q)
           v == q[1].v
           d == IF e THEN c ELSE CtrlAfter(c, v)
<1>1. /\ DOMAIN q = 1 .. Len(q) /\ Len(q) \in Nat \ {0} /\ Head(q) = q[1]
      /\ DOMAIN t = 1 .. Len(q) - 1
      /\ \A i \in DOMAIN t : i + 1 \in DOMAIN q /\ t[i] = q[i + 1]
      /\ \A i \in DOMAIN q : i # 1 => i - 1 \in DOMAIN t /\ t[i - 1] = q[i]
  BY TailIs
<1> HIDE DEF t
<1>2. 1 \in DOMAIN q /\ \A j \in DOMAIN q : j > 1 <=> j # 1
  BY <1>1
<1>3. ASSUME NEW i \in DOMAIN t PROVE Alone(v = EXT, t, i) <=> Alone(e, q, i + 1)
  <2>1. i + 1 # 1 /\ (i + 1) - 1 = i /\ t[i] = q[i + 1]
    BY <1>1
  <2>2. CASE i = 1
    BY <2>1, <2>2 DEF Alone
  <2>3. CASE i # 1
    <3>1. i - 1 \in DOMAIN t /\ (i - 1) + 1 = i
      BY <1>1, <2>3
    <3>2. t[i - 1] = q[i]
      BY <1>1, <3>1
    <3> QED BY <2>1, <2>3, <3>2 DEF Alone
  <2> QED BY <2>2, <2>3
<1>4. ASSUME NEW j \in DOMAIN q, j # 1 PROVE j - 1 \in DOMAIN t /\ (Alone(e, q, j) <=> Alone(v = EXT, t, j - 1))
  <2>1. j - 1 \in DOMAIN t /\ (j - 1) + 1 = j
    BY <1>1, <1>4
  <2> QED BY <1>3, <2>1
<1>5. Alone(e, q, 1) <=> v \in CtrlCode /\ ~e
  BY DEF Alone
<1>6. ASSUME \A i \in DOMAIN t : ~Alone(v = EXT, t, i) PROVE d <=> l
  <2>1. \A j \in DOMAIN q : j # 1 => ~Alone(e, q, j)
    BY <1>4, <1>6
  <2>2. CASE Alone(e, q, 1)
    <3>1. v = 29 <=> l
      BY <1>2, <2>1, <2>2 DEF CtrlOK
    <3> QED BY <1>5, <2>2, <3>1 DEF CtrlAfter, CtrlCode
  <2>3. CASE ~Alone(e, q, 1)
    <3>1. c <=> l
      BY <2>1, <2>3 DEF CtrlOK
    <3> QED BY <1>5, <2>3, <3>1 DEF CtrlAfter, CtrlCode
  <2> QED BY <2>2, <2>3
<1>7. ASSUME NEW i \in DOMAIN t, Alone(v = EXT, t, i),
             \A j \in DOMAIN t : j > i => ~Alone(v = EXT, t, j)
      PROVE  t[i].v = 29 <=> l
  <2>1. i + 1 \in DOMAIN q /\ q[i + 1] = t[i] /\ Alone(e, q, i + 1)
    BY <1>1, <1>3, <1>7
  <2>2. ASSUME NEW j \in DOMAIN q, j > i + 1 PROVE ~Alone(e, q, j)
    <3>1. j # 1 /\ j - 1 > i
      BY <1>1, <2>2
    <3> QED BY <1>4, <1>7, <3>1
  <2> QED BY <2>1, <2>2 DEF CtrlOK
<1> HIDE DEF d
<1>8. CtrlOK(l, d, v = EXT, t)
  BY <1>6, <1>7 DEF CtrlOK
<1> QED BY <1>1, <1>8 DEF t, d

LEMMA LastIs ==
  ASSUME NEW S, NEW q \in Seq(S), NEW b \in S
  PROVE  /\ Append(q, b) \in Seq(S) /\ Append(q, b) # <<>>
         /\ Len(q) \in Nat /\ DOMAIN q = 1 .. Len(q) /\ (q = <<>> <=> Len(q) = 0)
         /\ DOMAIN Append(q, b) = 1 .. Len(q) + 1
         /\ \A i \in 1 .. Len(q) : Append(q, b)[i] = q[i]
         /\ Append(q, b)[Len(q) + 1] = b
<1>1. /\ Append(q, b) \in Seq(S) /\ Append(q, b) # <<>> /\ Len(Append(q, b)) = Len(q) + 1
      /\ \A i \in 1 .. Len(q) : Append(q, b)[i] = q[i]
      /\ Append(q, b)[Len(q) + 1] = b
  BY AppendProperties
<1>2. Len(q) \in Nat /\ DOMAIN q = 1 .. Len(q) /\ (q = <<>> <=> Len(q) = 0)
  BY LenProperties, EmptySeq
<1>3. DOMAIN Append(q, b) = 1 .. Len(q) + 1
  BY <1>1, LenProperties
<1> QED BY <1>1, <1>2, <1>3

LEMMA ShiftAdded ==
  ASSUME NEW S, NEW q \in Seq(S), NEW b \in S, NEW h, NEW g, NEW s, ShiftOK(h, s, q),
         b.v \in ShiftMake => g, b.v \notin ShiftCode => (h => g)
  PROVE  ShiftOK(g, s, Append(q, b))
<1> DEFINE r == Append(q, b)
           n == Len(q)
<1>1. /\ n \in Nat /\ DOMAIN q = 1 .. n /\ DOMAIN r = 1 .. n + 1
      /\ \A i \in 1 .. n : r[i] = q[i]
      /\ r[n + 1] = b
  BY LastIs
<1> HIDE DEF r, n
<1>2. \A i \in DOMAIN q : i \in DOMAIN r /\ r[i] = q[i] /\ i # n + 1 /\ n + 1 > i
  BY <1>1
<1>3. n + 1 \in DOMAIN r /\ \A i \in DOMAIN r : i \in DOMAIN q \/ i = n + 1
  BY <1>1
<1>4. ASSUME \A i \in DOMAIN r : r[i].v \notin ShiftCode PROVE s => g
  <2>1. b.v \notin ShiftCode /\ \A i \in DOMAIN q : q[i].v \notin ShiftCode
    BY <1>1, <1>2, <1>3, <1>4
  <2> QED BY <2>1 DEF ShiftOK
<1>5. ASSUME NEW i \in DOMAIN r, r[i].v \in ShiftMake,
             \A j \in DOMAIN r : j > i => r[j].v \notin ShiftCode
      PROVE  g
  <2>1. CASE i = n + 1
    BY <1>1, <1>5, <2>1
  <2>2. CASE i \in DOMAIN q
    <3>1. b.v \notin ShiftCode
      BY <1>1, <1>2, <1>3, <1>5, <2>2
    <3>2. q[i].v \in ShiftMake /\ \A j \in DOMAIN q : j > i => q[j].v \notin ShiftCode
      BY <1>2, <1>5, <2>2
    <3> QED BY <2>2, <3>1, <3>2 DEF ShiftOK
  <2> QED BY <1>3, <2>1, <2>2
<1>6. ShiftOK(g, s, r)
  BY <1>4, <1>5 DEF ShiftOK
<1> QED BY <1>6 DEF r

LEMMA CtrlAdded ==
  ASSUME NEW S, NEW q \in Seq(S), NEW b \in S, NEW l, NEW m, NEW c, NEW e, CtrlOK(l, c, e, q),
         Alone(e, Append(q, b), Len(q) + 1) => (b.v = 29 <=> m),
         ~Alone(e, Append(q, b), Len(q) + 1) => (l <=> m)
  PROVE  CtrlOK(m, c, e, Append(q, b))
<1> DEFINE r == Append(q, b)
           n == Len(q)
<1>1. /\ n \in Nat /\ DOMAIN q = 1 .. n /\ DOMAIN r = 1 .. n + 1
      /\ \A i \in 1 .. n : r[i] = q[i]
      /\ r[n + 1] = b
  BY LastIs
<1>0. /\ Alone(e, r, n + 1) => (b.v = 29 <=> m)
      /\ ~Alone(e, r, n + 1) => (l <=> m)
  OBVIOUS
<1> HIDE DEF r, n
<1>2. \A i \in DOMAIN q : i \in DOMAIN r /\ r[i] = q[i] /\ i # n + 1 /\ n + 1 > i
  BY <1>1
<1>3. n + 1 \in DOMAIN r /\ \A i \in DOMAIN r : i \in DOMAIN q \/ i = n + 1
  BY <1>1
<1>4. ASSUME NEW i \in DOMAIN q PROVE Alone(e, r, i) <=> Alone(e, q, i)
  <2>1. i # 1 => i - 1 \in DOMAIN q
    BY <1>1
  <2>2. i # 1 => r[i - 1] = q[i - 1]
    BY <1>2, <2>1
  <2> QED BY <1>2, <2>2 DEF Alone
<1>5. ASSUME \A i \in DOMAIN r : ~Alone(e, r, i) PROVE c <=> m
  <2>1. ~Alone(e, r, n + 1) /\ \A i \in DOMAIN q : ~Alone(e, q, i)
    BY <1>2, <1>3, <1>4, <1>5
  <2> QED BY <1>0, <2>1 DEF CtrlOK
<1>6. ASSUME NEW i \in DOMAIN r, Alone(e, r, i),
             \A j \in DOMAIN r : j > i => ~Alone(e, r, j)
      PROVE  r[i].v = 29 <=> m
  <2>1. CASE i = n + 1
    BY <1>0, <1>1, <1>6, <2>1
  <2>2. CASE i \in DOMAIN q
    <3>1. ~Alone(e, r, n + 1)
      BY <1>2, <1>3, <1>6, <2>2
    <3>2. Alone(e, q, i) /\ \A j \in DOMAIN q : j > i => ~Alone(e, q, j)
      BY <1>2, <1>4, <1>6, <2>2
    <3>3. q[i].v = 29 <=> l
      BY <2>2, <3>2 DEF CtrlOK
    <3> QED BY <1>0, <1>2, <2>2, <3>1, <3>3
  <2> QED BY <1>3, <2>1, <2>2
<1>7. CtrlOK(m, c, e, r)
  BY <1>5, <1>6 DEF CtrlOK
<1> QED BY <1>7 DEF r

\* A byte behind bytes that are paired stands alone if it is a control key's; behind a
\* prefix it does not.
LEMMA PairAdded ==
  ASSUME NEW S, NEW q \in Seq(S), NEW b \in S, NEW e, Paired(e, q), b.v # EXT
  PROVE  /\ Paired(e, Append(q, b))
         /\ Alone(e, Append(q, b), Len(q) + 1) <=> b.v \in CtrlCode
<1> DEFINE r == Append(q, b)
           n == Len(q)
<1>1. /\ n \in Nat /\ DOMAIN q = 1 .. n /\ DOMAIN r = 1 .. n + 1 /\ r # <<>>
      /\ \A i \in 1 .. n : r[i] = q[i]
      /\ r[n + 1] = b
      /\ q = <<>> <=> n = 0
  BY LastIs
<1> HIDE DEF r, n
<1>2. e => r # <<>> /\ r[1].v \in CtrlCode
  <2>1. e => 1 \in 1 .. n
    BY <1>1 DEF Paired
  <2> QED BY <1>1, <2>1 DEF Paired
<1>3. ASSUME NEW i \in DOMAIN r, r[i].v = EXT PROVE i + 1 \in DOMAIN r /\ r[i + 1].v \in CtrlCode
  <2>1. i \in DOMAIN q /\ q[i].v = EXT
    BY <1>1, <1>3
  <2>2. i + 1 \in DOMAIN q /\ q[i + 1].v \in CtrlCode
    BY <2>1 DEF Paired
  <2> QED BY <1>1, <2>2
<1>4. Paired(e, r)
  BY <1>2, <1>3 DEF Paired
<1>5. Alone(e, r, n + 1) <=> b.v \in CtrlCode
  <2>1. CASE n = 0
    BY <1>1, <2>1 DEF Alone, Paired
  <2>2. CASE n # 0
    <3>1. n \in DOMAIN q /\ n + 1 \notin DOMAIN q /\ (n + 1) - 1 = n /\ n + 1 # 1
      BY <1>1, <2>2
    <3>2. r[n].v # EXT
      BY <1>1, <3>1 DEF Paired
    <3> QED BY <1>1, <3>1, <3>2 DEF Alone
  <2> QED BY <2>1, <2>2
<1> QED BY <1>4, <1>5 DEF r, n

LEMMA PrefixAdded ==
  ASSUME NEW S, NEW q \in Seq(S), NEW x \in S, NEW b \in S, NEW e, Paired(e, q),
         x.v = EXT, b.v \in CtrlCode
  PROVE  /\ Paired(e, Append(Append(q, x), b))
         /\ ~Alone(e, Append(q, x), Len(q) + 1)
         /\ ~Alone(e, Append(Append(q, x), b), Len(Append(q, x)) + 1)
<1> DEFINE p == Append(q, x)
           r == Append(p, b)
           n == Len(q)
<1>0. EXT \notin CtrlCode /\ b.v # EXT
  BY DEF EXT, CtrlCode
<1>1. /\ n \in Nat /\ DOMAIN q = 1 .. n /\ DOMAIN p = 1 .. n + 1 /\ p \in Seq(S)
      /\ \A i \in 1 .. n : p[i] = q[i]
      /\ p[n + 1] = x
      /\ q = <<>> <=> n = 0
  BY LastIs
<1>2. Len(p) = n + 1
  BY AppendProperties
<1> HIDE DEF p
<1>3. /\ DOMAIN r = 1 .. n + 2 /\ r # <<>>
      /\ \A i \in 1 .. n + 1 : r[i] = p[i]
      /\ r[n + 2] = b
  BY <1>1, <1>2, LastIs
<1> HIDE DEF r, n
<1>4. \A i \in 1 .. n : r[i] = q[i]
  BY <1>1, <1>3
<1>5. r[n + 1] = x /\ (n + 1) + 1 = n + 2 /\ (n + 2) - 1 = n + 1 /\ n + 2 # 1
  BY <1>1, <1>3
<1>6. e => r # <<>> /\ r[1].v \in CtrlCode
  <2>1. e => 1 \in 1 .. n
    BY <1>1 DEF Paired
  <2> QED BY <1>3, <1>4, <2>1 DEF Paired
<1>7. ASSUME NEW i \in DOMAIN r, r[i].v = EXT PROVE i + 1 \in DOMAIN r /\ r[i + 1].v \in CtrlCode
  <2>1. CASE i \in DOMAIN q
    <3>1. i + 1 \in DOMAIN q /\ q[i + 1].v \in CtrlCode
      BY <1>1, <1>4, <1>7, <2>1 DEF Paired
    <3> QED BY <1>1, <1>3, <1>4, <3>1
  <2>2. CASE i = n + 1
    BY <1>1, <1>3, <1>5, <2>2
  <2>3. CASE i = n + 2
    BY <1>0, <1>3, <1>7, <2>3
  <2> QED BY <1>1, <1>3, <2>1, <2>2, <2>3
<1>8. Paired(e, r)
  BY <1>6, <1>7 DEF Paired
<1>9. ~Alone(e, p, n + 1)
  BY <1>0, <1>1 DEF Alone
<1>10. ~Alone(e, r, n + 2)
  BY <1>5 DEF Alone
<1> QED BY <1>2, <1>5, <1>8, <1>9, <1>10 DEF r, p, n

\* With the keys hd down, the bytes q unread behind the flags s and c leave the flags right;
\* x: a prefix was parted from its byte, and Ctrl may stay wrong.
Agree(hd, s, c, e, q, x) ==
  /\ Paired(e, q)
  /\ ShiftOK(hd \cap {"lshift", "rshift"} # {}, s, q)
  /\ ~x => CtrlOK("lctrl" \in hd, c, e, q)

\* A key is pressed or released.
LEMMA AgreeTouched ==
  ASSUME PortTyped, NEW k \in Key, Touch(k), NEW s, NEW c, NEW e, NEW x,
         Agree(held, s, c, e, line.keyboard, x)
  PROVE  Agree(held', s, c, e, (line.keyboard)', x)
<1> DEFINE S == BytesOf("keyboard")
           q == line.keyboard
           make == k \notin held
           b == Byte("keyboard", CodeOf(k, make), 0)
           p == Byte("keyboard", EXT, 0)
           Down(hd) == hd \cap {"lshift", "rshift"} # {}
<1>1. /\ q \in Seq(S) /\ "keyboard" \in DOMAIN line
      /\ k \in {"lshift", "rshift", "lctrl", "rctrl"}
  BY Ps2Assumption DEF PortTyped, Source
<1>2. /\ held' = (IF k \in held THEN held \ {k} ELSE held \cup {k})
      /\ (line.keyboard)' = Coded(k, q, make)
  BY <1>1, TouchDoes
<1>3. b \in S /\ p \in S /\ p.v = EXT /\ b.v = CodeOf(k, make)
  BY DEF CodeOf, EXT, Byte, BytesOf
<1>4. /\ k \in {"lshift", "rshift"} => b.v \in ShiftCode /\ (b.v \in ShiftMake <=> make) /\ b.v \notin CtrlCode
      /\ k \in {"lctrl", "rctrl"} => b.v \in CtrlCode /\ (b.v = 29 <=> make) /\ b.v \notin ShiftCode
      /\ b.v # EXT
  BY <1>1, <1>3 DEF CodeOf, ShiftCode, ShiftMake, CtrlCode, EXT
<1>5. EXT \notin ShiftCode /\ ShiftMake \subseteq ShiftCode
  BY DEF EXT, ShiftCode, ShiftMake
<1>6. /\ k \in {"lshift", "rshift"} /\ make => Down(held')
      /\ k \in {"lctrl", "rctrl"} => (Down(held') <=> Down(held))
      /\ k # "lctrl" => ("lctrl" \in held' <=> "lctrl" \in held)
      /\ k = "lctrl" => ("lctrl" \in held' <=> make)
  BY <1>1, <1>2
<1>7. Paired(e, q) /\ ShiftOK(Down(held), s, q) /\ (~x => CtrlOK("lctrl" \in held, c, e, q))
  BY DEF Agree
<1> HIDE DEF b, p, S, q, make, Down
<1>8. CASE k # "rctrl"
  <2>1. (line.keyboard)' = Append(q, b)
    BY <1>2, <1>8 DEF Coded, b
  <2>2. Paired(e, Append(q, b)) /\ (Alone(e, Append(q, b), Len(q) + 1) <=> b.v \in CtrlCode)
    BY <1>1, <1>3, <1>4, <1>7, PairAdded
  <2>3. /\ b.v \in ShiftMake => Down(held')
        /\ b.v \notin ShiftCode => (Down(held) => Down(held'))
    BY <1>1, <1>4, <1>5, <1>6
  <2>4. ShiftOK(Down(held'), s, Append(q, b))
    BY <1>1, <1>3, <1>7, <2>3, ShiftAdded
  <2>5. /\ b.v \in CtrlCode => (b.v = 29 <=> "lctrl" \in held')
        /\ b.v \notin CtrlCode => ("lctrl" \in held <=> "lctrl" \in held')
    BY <1>1, <1>4, <1>6, <1>8
  <2>6. ~x => CtrlOK("lctrl" \in held', c, e, Append(q, b))
    BY <1>1, <1>3, <1>7, <2>2, <2>5, CtrlAdded
  <2> QED BY <2>1, <2>2, <2>4, <2>6 DEF Agree, Down
<1>9. CASE k = "rctrl"
  <2> DEFINE t == Append(q, p)
  <2>1. (line.keyboard)' = Append(t, b) /\ t \in Seq(S)
    BY <1>1, <1>2, <1>3, <1>9, AppendProperties DEF Coded, b, p
  <2>2. /\ Paired(e, Append(t, b)) /\ ~Alone(e, t, Len(q) + 1)
        /\ ~Alone(e, Append(t, b), Len(t) + 1)
    BY <1>1, <1>3, <1>4, <1>7, <1>9, PrefixAdded
  <2>3. ShiftOK(Down(held), s, t)
    BY <1>1, <1>3, <1>5, <1>7, ShiftAdded
  <2>4. ~x => CtrlOK("lctrl" \in held, c, e, t)
    BY <1>1, <1>3, <1>7, <2>2, CtrlAdded
  <2>5. b.v \notin ShiftCode /\ b.v \notin ShiftMake
    BY <1>4, <1>5, <1>9
  <2> HIDE DEF t
  <2>6. ShiftOK(Down(held'), s, Append(t, b))
    BY <1>3, <1>6, <1>9, <2>1, <2>3, <2>5, ShiftAdded
  <2>7. ~x => CtrlOK("lctrl" \in held', c, e, Append(t, b))
    BY <1>3, <1>6, <1>9, <2>1, <2>2, <2>4, CtrlAdded
  <2> QED BY <2>1, <2>2, <2>6, <2>7 DEF Agree, Down
<1> QED BY <1>8, <1>9

\* A byte leaves for the buffer.
LEMMA AgreeTaken ==
  ASSUME NEW S, NEW q \in Seq(S), q # <<>>, NEW hd, NEW s, NEW c, NEW x,
         Agree(hd, s, c, FALSE, q, x)
  PROVE  Agree(hd, ShiftAfter(s, Head(q).v), CtrlAfter(c, Head(q).v), Head(q).v = EXT, Tail(q), x)
<1>1. Paired(Head(q).v = EXT, Tail(q))
  BY PairTaken DEF Agree
<1>2. ShiftOK(hd \cap {"lshift", "rshift"} # {}, ShiftAfter(s, Head(q).v), Tail(q))
  BY ShiftTaken DEF Agree
<1>3. ~x => CtrlOK("lctrl" \in hd, IF FALSE THEN c ELSE CtrlAfter(c, Head(q).v), Head(q).v = EXT, Tail(q))
  BY CtrlTaken DEF Agree
<1> QED BY <1>1, <1>2, <1>3 DEF Agree

\* The byte behind a prefix is read with it, and not again; or it is taken for itself.
LEMMA AgreeBehind ==
  ASSUME NEW S, NEW q \in Seq(S), NEW hd, NEW s, NEW c, NEW x,
         Agree(hd, s, c, TRUE, q, x)
  PROVE  /\ q # <<>> /\ Agree(hd, s, c, FALSE, Tail(q), x)
         /\ Agree(hd, ShiftAfter(s, Head(q).v), CtrlAfter(c, Head(q).v), Head(q).v = EXT, Tail(q), TRUE)
<1> DEFINE t == Tail(q)
           v == Head(q).v
<1>1. q # <<>> /\ Paired(TRUE, q)
  BY DEF Agree, Paired
<1>2. Paired(v = EXT, t) /\ v \in CtrlCode
  BY <1>1, PairTaken
<1>3. v # EXT /\ (ShiftAfter(s, v) <=> s)
  <2>1. \A w \in CtrlCode : w # EXT /\ (ShiftAfter(s, w) <=> s)
    BY DEF EXT, CtrlCode, ShiftAfter
  <2> HIDE DEF v
  <2> QED BY <1>2, <2>1
<1>4. ShiftOK(hd \cap {"lshift", "rshift"} # {}, s, t)
  <2>1. ShiftOK(hd \cap {"lshift", "rshift"} # {}, ShiftAfter(s, v), t)
    BY <1>1, ShiftTaken DEF Agree
  <2> HIDE DEF t, v
  <2> QED BY <1>3, <2>1 DEF ShiftOK
<1>5. ~x => CtrlOK("lctrl" \in hd, c, FALSE, t)
  <2>1. ~x => CtrlOK("lctrl" \in hd, IF TRUE THEN c ELSE CtrlAfter(c, v), v = EXT, t)
    BY <1>1, CtrlTaken DEF Agree
  <2> HIDE DEF t, v
  <2>2. (v = EXT) = FALSE
    BY <1>3
  <2> QED BY <2>1, <2>2
<1> HIDE DEF t, v
<1>6. Paired(FALSE, t)
  BY <1>2 DEF Paired
<1>7. Agree(hd, s, c, FALSE, t, x)
  BY <1>4, <1>5, <1>6 DEF Agree
<1>8. Agree(hd, ShiftAfter(s, v), CtrlAfter(c, v), v = EXT, t, TRUE)
  <2>1. ShiftOK(hd \cap {"lshift", "rshift"} # {}, ShiftAfter(s, v), t)
    BY <1>3, <1>4 DEF ShiftOK
  <2> QED BY <1>2, <2>1 DEF Agree
<1> QED BY <1>1, <1>7, <1>8 DEF t, v

LEMMA AgreeParted ==
  ASSUME NEW hd, NEW s, NEW c, NEW e, NEW q, NEW x, Agree(hd, s, c, e, q, x)
  PROVE  Agree(hd, s, c, FALSE, q, TRUE)
BY DEF Agree, Paired

\* Where the flags will be once the byte of the keyboard in the buffer is dealt with.
Unread == data.source = "keyboard" /\ (irq1 \/ full)
ShiftSoon == IF Unread THEN ShiftAfter(kbd_shift, data.v) ELSE kbd_shift
CtrlSoon  == IF Unread THEN CtrlAfter(kbd_ctrl, data.v) ELSE kbd_ctrl
Agreed == Agree(held, ShiftSoon, CtrlSoon, Unread /\ data.v = EXT, line.keyboard, "extended" \in stray)

\* The inductive invariant.
Following == "keyboard" \notin stray => Agreed

\* A step that leaves the keyboard's bytes and the flags alone.
LEMMA AgreedKept ==
  ASSUME Agreed, UNCHANGED <<held, kbd_shift, kbd_ctrl>>, (line.keyboard)' = line.keyboard,
         Unread' <=> Unread, Unread => data' = data,
         "extended" \in stray => "extended" \in stray'
  PROVE  Agreed'
<1>1. /\ ShiftSoon' = ShiftSoon /\ CtrlSoon' = CtrlSoon
      /\ (Unread /\ data.v = EXT) = (Unread /\ data.v = EXT)'
  <2>1. CASE Unread
    BY <2>1 DEF ShiftSoon, CtrlSoon
  <2>2. CASE ~Unread
    BY <2>2 DEF ShiftSoon, CtrlSoon
  <2> QED BY <2>1, <2>2
<1> DEFINE e == Unread /\ data.v = EXT
<1>2. Agree(held, ShiftSoon, CtrlSoon, e, line.keyboard, "extended" \in stray)
  BY DEF Agreed
<1>3. Agree(held, ShiftSoon, CtrlSoon, e, line.keyboard, "extended" \in stray')
  BY <1>2 DEF Agree
<1>4. e' = e
  BY <1>1
<1> HIDE DEF e
<1>5. Agree(held', ShiftSoon', CtrlSoon', e', (line.keyboard)', "extended" \in stray')
  BY <1>1, <1>3, <1>4
<1> QED BY <1>5 DEF Agreed, e

LEMMA FollowingUser ==
  PortTyped /\ Following /\ ((\E k \in Key : Touch(k)) \/ (\E dx, dy \in Delta : MoveMouse(dx, dy)))
    => Following'
<1> SUFFICES ASSUME PortTyped, Following,
                    (\E k \in Key : Touch(k)) \/ (\E dx, dy \in Delta : MoveMouse(dx, dy)),
                    "keyboard" \notin stray'
             PROVE  Agreed'
  BY DEF Following
<1>1. stray' = stray /\ Agreed
  BY DEF Following, Touch, MoveMouse, init, drivers
<1>2. ASSUME NEW k \in Key, Touch(k) PROVE Agreed'
  <2>1. /\ Unread' = Unread /\ data' = data /\ ShiftSoon' = ShiftSoon /\ CtrlSoon' = CtrlSoon
    BY <1>2 DEF Touch, drivers, Unread, ShiftSoon, CtrlSoon
  <2> DEFINE e == Unread /\ data.v = EXT
  <2>2. e' = e
    BY <2>1
  <2>3. Agree(held', ShiftSoon, CtrlSoon, e, (line.keyboard)', "extended" \in stray)
    BY <1>1, <1>2, AgreeTouched DEF Agreed
  <2> HIDE DEF e
  <2>4. Agree(held', ShiftSoon', CtrlSoon', e', (line.keyboard)', "extended" \in stray')
    BY <1>1, <2>1, <2>2, <2>3
  <2> QED BY <2>4 DEF Agreed, e
<1>3. ASSUME NEW dx \in Delta, NEW dy \in Delta, MoveMouse(dx, dy) PROVE Agreed'
  <2>1. (line.keyboard)' = line.keyboard
    BY <1>3 DEF MoveMouse, PortTyped, Source
  <2>2. UNCHANGED <<held, kbd_shift, kbd_ctrl, data>> /\ Unread' = Unread
    BY <1>3 DEF MoveMouse, drivers, Unread
  <2> QED BY <1>1, <2>1, <2>2, AgreedKept
<1> QED BY <1>2, <1>3

LEMMA FollowingLoad ==
  PortTyped /\ Following /\ (\E s \in Source : Load(s)) => Following'
<1> SUFFICES ASSUME PortTyped, Following, NEW s \in Source, Load(s), "keyboard" \notin stray'
             PROVE  Agreed'
  BY DEF Following
<1>1. /\ stray' = stray /\ Agreed /\ ~Unread /\ held' = held
      /\ kbd_shift' = kbd_shift /\ kbd_ctrl' = kbd_ctrl
      /\ line[s] # <<>> /\ data' = Head(line[s]) /\ full' = TRUE
      /\ line' = [line EXCEPT ![s] = Tail(line[s])]
  BY DEF Following, Load, Coming, Unread, user, drivers
<1>2. data'.source = s /\ DOMAIN line = Source
  BY <1>1, NextByte DEF PortTyped
<1>3. CASE s = "keyboard"
  <2> DEFINE q == line.keyboard
             v == data'.v
  <2>1. /\ q \in Seq(BytesOf("keyboard")) /\ q # <<>> /\ v = Head(q).v
        /\ (line.keyboard)' = Tail(q)
    BY <1>1, <1>2, <1>3 DEF PortTyped
  <2>2. Unread'
    BY <1>1, <1>2, <1>3 DEF Unread
  <2>3. Agree(held, kbd_shift, kbd_ctrl, FALSE, q, "extended" \in stray)
    <3>1. /\ ShiftSoon = kbd_shift /\ CtrlSoon = kbd_ctrl /\ (Unread /\ data.v = EXT) = FALSE
      BY <1>1 DEF ShiftSoon, CtrlSoon
    <3> QED BY <1>1, <3>1 DEF Agreed
  <2>4. Agree(held, ShiftAfter(kbd_shift, Head(q).v), CtrlAfter(kbd_ctrl, Head(q).v), Head(q).v = EXT,
              Tail(q), "extended" \in stray)
    BY <2>1, <2>3, AgreeTaken
  <2>5. Agree(held, ShiftAfter(kbd_shift, v), CtrlAfter(kbd_ctrl, v), v = EXT,
              (line.keyboard)', "extended" \in stray)
    BY <2>1, <2>4
  <2>6. ShiftSoon' = ShiftAfter(kbd_shift, v) /\ CtrlSoon' = CtrlAfter(kbd_ctrl, v)
    BY <1>1, <2>2 DEF ShiftSoon, CtrlSoon, ShiftAfter, CtrlAfter
  <2>7. (Unread /\ data.v = EXT)' = (v = EXT)
    BY <2>2
  <2> HIDE DEF v, q
  <2> DEFINE e == Unread /\ data.v = EXT
  <2>8. e' = (v = EXT)
    BY <2>7
  <2> HIDE DEF e
  <2>9. Agree(held', ShiftSoon', CtrlSoon', e', (line.keyboard)', "extended" \in stray')
    BY <1>1, <2>5, <2>6, <2>8
  <2> QED BY <2>9 DEF Agreed, e
<1>4. CASE s # "keyboard"
  <2>1. ~Unread' /\ (line.keyboard)' = line.keyboard
    BY <1>1, <1>2, <1>4 DEF Unread, Source
  <2> QED BY <1>1, <2>1, AgreedKept
<1> QED BY <1>3, <1>4
LEMMA FollowingHandlers ==
  PortTyped /\ Following /\ Handlers => Following'
<1> SUFFICES ASSUME PortTyped, Following, Handlers, "keyboard" \notin stray'
             PROVE  Agreed'
  BY DEF Following
<1>1. Agreed /\ held' = held
  <2>1. "keyboard" \notin stray
    BY DEF Handlers, Plain, ExtendedEarly, Extended, MouseHandler
  <2> QED BY <2>1 DEF Following, Handlers, Plain, ExtendedEarly, Extended, MouseHandler, user
<1> DEFINE e == Unread /\ data.v = EXT
<1>2. Agree(held, ShiftSoon, CtrlSoon, e, line.keyboard, "extended" \in stray)
  BY <1>1 DEF Agreed
<1>3. CASE Plain
  <2>1. /\ irq1 /\ data.v # EXT /\ line' = line /\ ~Unread' /\ Modifiers(data.v)
        /\ "extended" \in stray' <=> "extended" \in stray
    BY <1>3 DEF Plain, Unread
  <2>2. e = FALSE /\ e' = FALSE
    BY <2>1
  <2>3. (kbd_shift' <=> ShiftSoon) /\ (kbd_ctrl' <=> CtrlSoon)
    <3>1. CASE Unread
      BY <2>1, <3>1 DEF ShiftSoon, CtrlSoon, Modifiers, ShiftAfter, CtrlAfter
    <3>2. CASE ~Unread
      <4>1. data.source = "controller"
        BY <2>1, <3>2 DEF Unread, PortTyped
      <4>2. data.v = 101
        BY <4>1 DEF PortTyped, ConfigByte, Byte, Typical
      <4> QED BY <2>1, <3>2, <4>2 DEF ShiftSoon, CtrlSoon, Modifiers
    <3> QED BY <3>1, <3>2
  <2>4. (ShiftSoon' <=> kbd_shift') /\ (CtrlSoon' <=> kbd_ctrl')
    BY <2>1 DEF ShiftSoon, CtrlSoon
  <2> HIDE DEF e
  <2>5. (ShiftSoon' <=> ShiftSoon) /\ (CtrlSoon' <=> CtrlSoon)
    BY <2>3, <2>4
  <2>6. Agree(held, ShiftSoon', CtrlSoon', FALSE, line.keyboard, "extended" \in stray)
    BY <1>2, <2>2, <2>5 DEF Agree, ShiftOK, CtrlOK
  <2>7. ("extended" \in stray') = ("extended" \in stray)
    BY <2>1
  <2>8. Agree(held', ShiftSoon', CtrlSoon', e', (line.keyboard)', "extended" \in stray')
    BY <1>1, <2>1, <2>2, <2>6, <2>7
  <2> QED BY <2>8 DEF Agreed, e
<1>4. CASE ExtendedEarly
  <2>1. /\ data.source = "keyboard" /\ Unread /\ data.v = EXT /\ data' = data /\ line' = line
        /\ ~Unread' /\ "extended" \in stray' /\ UNCHANGED <<kbd_shift, kbd_ctrl>>
    BY <1>4 DEF ExtendedEarly, Unread, PortTyped, ConfigByte, Byte, Typical, EXT, drivers
  <2>2. Agree(held, ShiftSoon, CtrlSoon, FALSE, line.keyboard, TRUE)
    BY <1>2, AgreeParted
  <2>3. e' = FALSE /\ (ShiftSoon' <=> ShiftSoon) /\ (CtrlSoon' <=> CtrlSoon)
    BY <2>1 DEF ShiftSoon, CtrlSoon, ShiftAfter, CtrlAfter, EXT
  <2> HIDE DEF e
  <2>4. Agree(held, ShiftSoon', CtrlSoon', FALSE, line.keyboard, TRUE)
    BY <2>2, <2>3 DEF Agree, ShiftOK, CtrlOK
  <2>5. ("extended" \in stray') = TRUE
    BY <2>1
  <2>6. Agree(held', ShiftSoon', CtrlSoon', e', (line.keyboard)', "extended" \in stray')
    BY <1>1, <2>1, <2>3, <2>4, <2>5
  <2> QED BY <2>6 DEF Agreed, e
<1>5. ASSUME NEW s \in Source, NEW again \in BOOLEAN, Extended(s, again) PROVE Agreed'
  <2>1. /\ data.source = "keyboard" /\ Unread /\ data.v = EXT
        /\ line[s] # <<>> /\ data' = Head(line[s]) /\ line' = [line EXCEPT ![s] = Tail(line[s])]
        /\ full' = FALSE /\ irq1' = (again /\ Raises1(s)) /\ UNCHANGED <<kbd_shift, kbd_ctrl>>
        /\ again \/ s # "keyboard" => "extended" \in stray'
        /\ "extended" \in stray => "extended" \in stray'
    BY <1>5 DEF Extended, Coming, Unread, PortTyped, ConfigByte, Byte, Typical, EXT, drivers
  <2>2. /\ data'.source = s /\ DOMAIN line = Source
        /\ line.keyboard \in Seq(BytesOf("keyboard"))
    BY <2>1, NextByte DEF PortTyped
  <2>3. (ShiftSoon <=> kbd_shift) /\ (CtrlSoon <=> kbd_ctrl) /\ e = TRUE
    BY <2>1 DEF ShiftSoon, CtrlSoon, ShiftAfter, CtrlAfter, EXT
  <2>4. Agree(held, kbd_shift, kbd_ctrl, TRUE, line.keyboard, "extended" \in stray)
    BY <1>2, <2>3 DEF Agree, ShiftOK, CtrlOK
  <2>5. CASE s = "keyboard" /\ ~again
    <3>1. ~Unread' /\ (line.keyboard)' = Tail(line.keyboard)
      BY <2>1, <2>2, <2>5 DEF Unread, Source
    <3>2. Agree(held, kbd_shift, kbd_ctrl, FALSE, Tail(line.keyboard), "extended" \in stray)
      BY <2>2, <2>4, AgreeBehind
    <3>3. e' = FALSE /\ ShiftSoon' = kbd_shift /\ CtrlSoon' = kbd_ctrl
      BY <2>1, <3>1 DEF ShiftSoon, CtrlSoon
    <3> HIDE DEF e
    <3>4. Agree(held, ShiftSoon', CtrlSoon', FALSE, (line.keyboard)', "extended" \in stray')
      <4>1. Agree(held, ShiftSoon', CtrlSoon', FALSE, (line.keyboard)', "extended" \in stray)
        BY <3>1, <3>2, <3>3
      <4> QED BY <2>1, <4>1 DEF Agree
    <3>5. Agree(held', ShiftSoon', CtrlSoon', e', (line.keyboard)', "extended" \in stray')
      BY <1>1, <3>3, <3>4
    <3> QED BY <3>5 DEF Agreed, e
  <2>6. CASE s = "keyboard" /\ again
    <3> DEFINE v == data'.v
               q == line.keyboard
    <3>1. v = Head(q).v /\ (line.keyboard)' = Tail(q) /\ ("extended" \in stray') = TRUE
      BY <2>1, <2>2, <2>6 DEF Source
    <3>2. Agree(held, ShiftAfter(kbd_shift, Head(q).v), CtrlAfter(kbd_ctrl, Head(q).v), Head(q).v = EXT,
                Tail(q), TRUE)
      BY <2>2, <2>4, AgreeBehind
    <3>3. Agree(held, ShiftAfter(kbd_shift, v), CtrlAfter(kbd_ctrl, v), v = EXT, (line.keyboard)', TRUE)
      BY <3>1, <3>2
    <3>4. CASE Unread'
      <4>1. /\ ShiftSoon' <=> ShiftAfter(kbd_shift, v)
            /\ CtrlSoon' <=> CtrlAfter(kbd_ctrl, v)
            /\ e' = (v = EXT)
        BY <2>1, <3>4 DEF ShiftSoon, CtrlSoon, ShiftAfter, CtrlAfter
      <4> HIDE DEF v, q, e
      <4>2. Agree(held, ShiftSoon', CtrlSoon', e', (line.keyboard)', TRUE)
        BY <3>3, <4>1 DEF Agree, ShiftOK, CtrlOK
      <4>3. Agree(held', ShiftSoon', CtrlSoon', e', (line.keyboard)', "extended" \in stray')
        BY <1>1, <3>1, <4>2
      <4> QED BY <4>3 DEF Agreed, e
    <3>5. CASE ~Unread'
      <4>1. (ShiftSoon' <=> kbd_shift) /\ (CtrlSoon' <=> kbd_ctrl) /\ e' = FALSE
        BY <2>1, <3>5 DEF ShiftSoon, CtrlSoon
      <4>2. Agree(held, kbd_shift, kbd_ctrl, FALSE, Tail(q), "extended" \in stray)
        BY <2>2, <2>4, AgreeBehind
      <4> HIDE DEF v, q, e
      <4>3. Agree(held, ShiftSoon', CtrlSoon', FALSE, (line.keyboard)', TRUE)
        BY <3>1, <4>1, <4>2 DEF Agree, ShiftOK, CtrlOK
      <4>4. Agree(held', ShiftSoon', CtrlSoon', e', (line.keyboard)', "extended" \in stray')
        BY <1>1, <3>1, <4>1, <4>3
      <4> QED BY <4>4 DEF Agreed, e
    <3> QED BY <3>4, <3>5
  <2>7. CASE s # "keyboard"
    <3>1. ~Unread' /\ (line.keyboard)' = line.keyboard /\ ("extended" \in stray') = TRUE
      BY <2>1, <2>2, <2>7 DEF Unread, Source
    <3>2. Agree(held, kbd_shift, kbd_ctrl, FALSE, line.keyboard, TRUE)
      BY <2>4, AgreeParted
    <3>3. e' = FALSE /\ ShiftSoon' = kbd_shift /\ CtrlSoon' = kbd_ctrl
      BY <2>1, <3>1 DEF ShiftSoon, CtrlSoon
    <3> HIDE DEF e
    <3>4. Agree(held, ShiftSoon', CtrlSoon', FALSE, (line.keyboard)', TRUE)
      BY <3>1, <3>2, <3>3 DEF Agree, ShiftOK, CtrlOK
    <3>5. Agree(held', ShiftSoon', CtrlSoon', e', (line.keyboard)', "extended" \in stray')
      BY <1>1, <3>1, <3>3, <3>4
    <3> QED BY <3>5 DEF Agreed, e
  <2> QED BY <2>5, <2>6, <2>7
<1>6. CASE MouseHandler
  <2>1. /\ UNCHANGED <<line, data, kbd_shift, kbd_ctrl>> /\ ~irq1 /\ ~irq1' /\ ~full'
        /\ full => data.source # "keyboard"
        /\ "extended" \in stray => "extended" \in stray'
    BY <1>6 DEF MouseHandler
  <2>2. ~Unread /\ ~Unread'
    BY <2>1 DEF Unread
  <2> QED BY <1>1, <2>1, <2>2, AgreedKept
<1> QED BY <1>3, <1>4, <1>5, <1>6 DEF Handlers

LEMMA FollowingInit ==
  PortTyped /\ Following /\ (MouseInit \/ UNCHANGED ps2Vars) => Following'
<1> SUFFICES ASSUME PortTyped, Following, MouseInit \/ UNCHANGED ps2Vars, "keyboard" \notin stray'
             PROVE  Agreed'
  BY DEF Following
<1> USE DEF Devices, hardware, drivers, user
<1>1. CASE UNCHANGED ps2Vars
  BY <1>1, AgreedKept DEF ps2Vars, Following, Unread
<1>2. ASSUME EnableAux \/ AskConfig \/ (\E c \in {"F6", "F4"} : Send(c)) \/ See \/ TimeOut PROVE Agreed'
  <2>1. UNCHANGED <<data, full, irq1, held, kbd_shift, kbd_ctrl, stray>>
    BY <1>2 DEF EnableAux, AskConfig, Send, See, TimeOut
  <2>2. (line.keyboard)' = line.keyboard
    BY <1>2 DEF EnableAux, AskConfig, Send, See, TimeOut, PortTyped, Source
  <2> QED BY <2>1, <2>2, AgreedKept DEF Following, Unread
<1>3. ASSUME NEW forget \in BOOLEAN, Read(forget) PROVE Agreed'
  <2>1. /\ UNCHANGED <<line, data, held, kbd_shift, kbd_ctrl>> /\ data.source # "keyboard"
        /\ "keyboard" \notin stray /\ stray \subseteq stray'
    BY <1>3 DEF Read
  <2>2. ~Unread /\ ~Unread'
    BY <2>1 DEF Unread
  <2> QED BY <2>1, <2>2, AgreedKept DEF Following
<1> QED BY <1>1, <1>2, <1>3 DEF MouseInit

LEMMA FollowingSpec == Ps2Spec => []Following
<1>1. Ps2Init => Following
  <2> SUFFICES ASSUME Ps2Init PROVE Agreed
    BY DEF Following
  <2> DEFINE e == Unread /\ data.v = EXT
  <2>1. /\ ~Unread /\ line.keyboard = <<>> /\ held = {} /\ kbd_shift = FALSE /\ kbd_ctrl = FALSE
    BY DEF Ps2Init, Unread, Byte, Source
  <2>2. e = FALSE /\ ShiftSoon = FALSE /\ CtrlSoon = FALSE
    BY <2>1 DEF ShiftSoon, CtrlSoon
  <2> HIDE DEF e
  <2>3. ASSUME NEW x PROVE Agree({}, FALSE, FALSE, FALSE, <<>>, x)
    BY DEF Agree, Paired, ShiftOK, CtrlOK
  <2>4. Agree(held, ShiftSoon, CtrlSoon, e, line.keyboard, "extended" \in stray)
    BY <2>1, <2>2, <2>3
  <2> QED BY <2>4 DEF Agreed, e
<1>2. PortTyped /\ Following /\ [Ps2Next]_ps2Vars => Following'
  BY FollowingUser, FollowingLoad, FollowingHandlers, FollowingInit DEF Ps2Next
<1> QED BY <1>1, <1>2, PortSpec, PTL DEF Ps2Spec

\* Once the handler has caught up with the keyboard, Shift and Ctrl are as the keys are.
THEOREM ModifiersTrue == Ps2Spec => []ModifiersFollow
<1>1. Following => ModifiersFollow
  <2> SUFFICES ASSUME Following, Quiet, "keyboard" \notin stray
               PROVE  /\ kbd_shift => held \cap {"lshift", "rshift"} # {}
                      /\ "extended" \notin stray => (kbd_ctrl <=> "lctrl" \in held)
    BY DEF ModifiersFollow
  <2>1. ~Unread /\ line.keyboard = <<>>
    BY DEF Quiet, Unread
  <2>2. /\ ShiftOK(held \cap {"lshift", "rshift"} # {}, ShiftSoon, line.keyboard)
        /\ "extended" \notin stray =>
             CtrlOK("lctrl" \in held, CtrlSoon, Unread /\ data.v = EXT, line.keyboard)
    BY DEF Following, Agreed, Agree
  <2>3. DOMAIN line.keyboard = {}
    BY <2>1
  <2>4. (ShiftSoon <=> kbd_shift) /\ (CtrlSoon <=> kbd_ctrl)
    BY <2>1 DEF ShiftSoon, CtrlSoon
  <2> QED BY <2>2, <2>3, <2>4 DEF ShiftOK, CtrlOK
<1> QED BY <1>1, FollowingSpec, PTL
=============================================================================
