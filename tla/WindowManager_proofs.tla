----------------------- MODULE WindowManager_proofs -----------------------
(***************************************************************************)
(* The invariants of WindowManager hold for every number of windows, every *)
(* set of apps and every bound.  The inductive invariant says of the whole *)
(* record wm that it is well formed: the parts need one another (the focus *)
(* stays on top because what is focused is in the z-order, win_find finds  *)
(* the window because there is one of each kind).  One lemma per operator  *)
(* says that it keeps the record well formed; the steps then follow.       *)
(***************************************************************************)
EXTENDS WindowManager, SequenceTheorems, CommonLemmas, TLAPS

Distinct(z) == \A j, k \in 1 .. Len(z) : z[j] = z[k] => j = k

Exact(s)     == (\A i \in Slot : Used(s, i) <=> InZ(s.z, i)) /\ Distinct(s.z)
OnePer(s)    == \A i, j \in Slot : Used(s, i) /\ s.win[i] = s.win[j] => i = j
TopFocus(s)  == s.focus # None => s.z # <<>> /\ s.focus = s.z[Len(s.z)]
DragShown(s) == s.drag # None => Visible(s, s.drag)

WellFormed(s) == s \in WM /\ Exact(s) /\ OnePer(s) /\ TopFocus(s) /\ DragShown(s)

IInv == TypeOK /\ WellFormed(wm)

---------------------------------------------------------------------------
(* The z-order as a sequence without repetition. *)

\* IndexZ finds an entry that is there.
LEMMA IndexZFinds ==
  ASSUME NEW z, NEW i, InZ(z, i)
  PROVE  IndexZ(z, i) \in 1 .. Len(z) /\ z[IndexZ(z, i)] = i
BY DEF InZ, IndexZ

\* The shift loop takes one entry out and keeps the others distinct.
LEMMA ShiftRemoves ==
  ASSUME NEW z \in Seq(Slot), NEW k \in 1 .. Len(z), Distinct(z)
  PROVE  /\ Shift(z, k) \in Seq(Slot)
         /\ Len(Shift(z, k)) = Len(z) - 1
         /\ Distinct(Shift(z, k))
         /\ \A i \in Slot : InZ(Shift(z, k), i) <=> InZ(z, i) /\ i # z[k]
<1> DEFINE n == Len(z)
           t == Shift(z, k)
<1>0. n \in Nat /\ n >= 1 /\ n - 1 \in Nat /\ \A j \in 1 .. n : z[j] \in Slot
  BY ElementOfSeq, LenProperties
<1>1. t = [j \in 1 .. n - 1 |-> IF j < k THEN z[j] ELSE z[j + 1]]
  BY DEF Shift
<1>2. \A j \in 1 .. n - 1 : t[j] = (IF j < k THEN z[j] ELSE z[j + 1])
  BY <1>1
<1>3. \A j \in 1 .. n - 1 : t[j] \in Slot
  BY <1>0, <1>2
<1>4. t \in [1 .. n - 1 -> Slot]
  BY <1>1, <1>3
<1>5. t \in Seq(Slot)
  BY <1>0, <1>4, SeqDef
<1>6. Len(t) = n - 1
  BY <1>0, <1>4, <1>5, LenProperties
<1>7. Distinct(t)
  BY <1>0, <1>2, <1>6 DEF Distinct
<1>8. ASSUME NEW i \in Slot PROVE InZ(t, i) <=> InZ(z, i) /\ i # z[k]
  <2>1. ASSUME NEW j \in 1 .. n - 1, t[j] = i PROVE InZ(z, i) /\ i # z[k]
    BY <1>0, <1>2, <2>1 DEF Distinct, InZ
  <2>2. ASSUME NEW j \in 1 .. n, z[j] = i, i # z[k] PROVE InZ(t, i)
    <3>1. CASE j < k
      BY <1>0, <1>2, <1>6, <2>2, <3>1 DEF InZ
    <3>2. CASE j > k
      <4>1. j - 1 \in 1 .. n - 1 /\ ~(j - 1 < k) /\ t[j - 1] = i
        BY <1>0, <1>2, <2>2, <3>2
      <4> QED BY <1>6, <4>1 DEF InZ
    <3> QED BY <1>0, <2>2, <3>1, <3>2
  <2> QED BY <1>6, <2>1, <2>2 DEF InZ
<1> QED BY <1>5, <1>6, <1>7, <1>8

\* Appending an entry that was not there.
LEMMA AppendAdds ==
  ASSUME NEW z \in Seq(Slot), NEW i \in Slot, Distinct(z), ~InZ(z, i)
  PROVE  /\ Append(z, i) \in Seq(Slot)
         /\ Append(z, i) # <<>>
         /\ Append(z, i)[Len(Append(z, i))] = i
         /\ Distinct(Append(z, i))
         /\ \A j \in Slot : InZ(Append(z, i), j) <=> InZ(z, j) \/ j = i
<1> DEFINE a == Append(z, i)
           n == Len(z)
<1>1. /\ a \in Seq(Slot) /\ a # <<>> /\ Len(a) = n + 1 /\ n \in Nat
      /\ \A j \in 1 .. n : a[j] = z[j]
      /\ a[n + 1] = i
  BY AppendProperties, LenProperties
<1>2. Distinct(a)
  BY <1>1 DEF Distinct, InZ
<1>3. \A j \in Slot : InZ(a, j) <=> InZ(z, j) \/ j = i
  BY <1>1 DEF InZ
<1> QED BY <1>1, <1>2, <1>3

\* What win_raise does to the z-order.
Raised(z, i) == Append(Shift(z, IndexZ(z, i)), i)

LEMMA RaiseKeeps ==
  ASSUME NEW z \in Seq(Slot), NEW i \in Slot, Distinct(z), InZ(z, i)
  PROVE  /\ Raised(z, i) \in Seq(Slot) /\ Raised(z, i) # <<>>
         /\ Raised(z, i)[Len(Raised(z, i))] = i
         /\ Distinct(Raised(z, i))
         /\ \A j \in Slot : InZ(Raised(z, i), j) <=> InZ(z, j)
<1>1. IndexZ(z, i) \in 1 .. Len(z) /\ z[IndexZ(z, i)] = i
  BY IndexZFinds
<1> DEFINE t == Shift(z, IndexZ(z, i))
<1>2. /\ t \in Seq(Slot) /\ Distinct(t)
      /\ \A j \in Slot : InZ(t, j) <=> InZ(z, j) /\ j # i
  BY <1>1, ShiftRemoves
<1>3. ~InZ(t, i)
  BY <1>2
<1> HIDE DEF t
<1>4. /\ Append(t, i) \in Seq(Slot) /\ Append(t, i) # <<>>
      /\ Append(t, i)[Len(Append(t, i))] = i /\ Distinct(Append(t, i))
      /\ \A j \in Slot : InZ(Append(t, i), j) <=> InZ(t, j) \/ j = i
  BY <1>2, <1>3, AppendAdds
<1>5. Raised(z, i) = Append(t, i)
  BY DEF t, Raised
<1> QED BY <1>1, <1>2, <1>4, <1>5 DEF InZ

---------------------------------------------------------------------------
(* The windows that win_find and win_open look for. *)

LEMMA WinFindFinds ==
  ASSUME NEW s \in WM, NEW t \in App
  PROVE  \/ WinFind(s, t) = None /\ \A i \in Slot : s.win[i] # t
         \/ /\ WinFind(s, t) \in Slot /\ WinFind(s, t) # None
            /\ s.win[WinFind(s, t)] = t
            /\ Used(s, WinFind(s, t))
<1> DEFINE T == {i \in Slot : s.win[i] = t}
<1>1. CASE T = {}
  BY <1>1 DEF WinFind
<1>2. CASE T # {}
  <2>1. T \in SUBSET Nat
    BY DEF Slot
  <2>2. PICK m \in T : \A k \in T : m <= k
    BY <1>2, <2>1, LeastOf
  <2>3. WinFind(s, t) \in Slot /\ s.win[WinFind(s, t)] = t
    BY <2>2 DEF WinFind
  <2>4. t # NoApp
    BY AppAssumption
  <2> QED BY <2>3, <2>4 DEF Used, Slot, None
<1> QED BY <1>1, <1>2

LEMMA FirstFreeIsFree ==
  ASSUME NEW s, FreeSlots(s) # {}
  PROVE  FirstFree(s) \in Slot /\ ~Used(s, FirstFree(s))
<1>1. FreeSlots(s) \in SUBSET Nat
  BY DEF FreeSlots, Slot
<1>2. PICK m \in FreeSlots(s) : \A k \in FreeSlots(s) : m <= k
  BY <1>1, LeastOf
<1> QED BY <1>2 DEF FirstFree, FreeSlots

LEMMA PatienceRange == 0 \in 0 .. Patience /\ Patience \in 0 .. Patience
BY BoundAssumption

---------------------------------------------------------------------------
(* The operations keep the record well formed. *)

LEMMA NoneIsNoSlot == None \notin Slot
BY DEF None, Slot

LEMMA FocusKeeps ==
  ASSUME NEW s, WellFormed(s), NEW i \in Slot, Used(s, i)
  PROVE  WellFormed(WinFocus(s, i))
<1> DEFINE r == Raised(s.z, i)
           f == WinFocus(s, i)
<1>1. s \in WM /\ s.z \in Seq(Slot) /\ Distinct(s.z) /\ InZ(s.z, i) /\ i # None
  BY NoneIsNoSlot DEF WellFormed, WM, Exact
<1>2. /\ r \in Seq(Slot) /\ r # <<>> /\ r[Len(r)] = i /\ Distinct(r)
      /\ \A j \in Slot : InZ(r, j) <=> InZ(s.z, j)
  BY <1>1, RaiseKeeps
<1> HIDE DEF r
<1>3. f = [s EXCEPT !.z = r, !.min = @ \ {i}, !.focus = i]
  BY <1>1 DEF WinFocus, WinRaise, WM, r, Raised
<1>4. f \in WM
  BY <1>1, <1>2, <1>3 DEF WM
<1>5. f.win = s.win /\ f.z = r /\ f.focus = i /\ f.min = s.min \ {i} /\ f.drag = s.drag
  BY <1>1, <1>3 DEF WM
<1> HIDE DEF f
<1>6. Exact(f)
  BY <1>2, <1>5 DEF Exact, WellFormed, Used
<1>7. OnePer(f)
  BY <1>5 DEF OnePer, WellFormed, Used
<1>8. TopFocus(f)
  BY <1>2, <1>5 DEF TopFocus
<1>9. DragShown(f)
  BY <1>5 DEF DragShown, WellFormed, Visible, Used
<1> QED BY <1>4, <1>6, <1>7, <1>8, <1>9 DEF WellFormed, f

LEMMA CreateKeeps ==
  ASSUME NEW s, WellFormed(s), NEW i \in Slot, ~Used(s, i),
         NEW t \in App, \A j \in Slot : s.win[j] # t
  PROVE  /\ WellFormed([WinCreate(s, i, t) EXCEPT !.focus = None])
         /\ WinCreate(s, i, t) \in WM
         /\ Used(WinCreate(s, i, t), i)
<1> DEFINE a == Append(s.z, i)
           c == WinCreate(s, i, t)
           d == [c EXCEPT !.focus = None]
<1>1. s \in WM /\ s.z \in Seq(Slot) /\ Distinct(s.z) /\ ~InZ(s.z, i) /\ t # NoApp
  BY AppAssumption DEF WellFormed, WM, Exact
<1>2. /\ a \in Seq(Slot) /\ Distinct(a)
      /\ \A j \in Slot : InZ(a, j) <=> InZ(s.z, j) \/ j = i
  BY <1>1, AppendAdds
<1> HIDE DEF a
<1> DEFINE st == IF i \in s.max THEN s.stale \cup {i} ELSE s.stale
<1>3a. st \in SUBSET Slot
  BY <1>1 DEF WM
<1>3. /\ c.win = [s.win EXCEPT ![i] = t] /\ c.z = a /\ c.min = s.min \ {i}
      /\ c.drag = s.drag /\ c.focus = s.focus /\ c.max = s.max
      /\ c.stale = st
  <2>1. c.win = [s.win EXCEPT ![i] = t]
    BY <1>1 DEF WM, WinCreate
  <2>2. c.z = a
    BY <1>1 DEF WM, WinCreate, a
  <2>3. c.min = s.min \ {i}
    BY <1>1 DEF WM, WinCreate
  <2>4. c.drag = s.drag /\ c.focus = s.focus /\ c.max = s.max
    BY <1>1 DEF WM, WinCreate
  <2>5. c.stale = st
    BY <1>1 DEF WM, WinCreate
  <2> QED BY <2>1, <2>2, <2>3, <2>4, <2>5
<1> HIDE DEF st
<1>4. c.win \in [Slot -> App \cup {NoApp}]
  BY <1>1, <1>3 DEF WM
<1>5. c \in WM
  <2>1. c = [[[[s EXCEPT !.win = c.win] EXCEPT !.min = c.min] EXCEPT !.z = c.z]
               EXCEPT !.stale = c.stale]
    BY <1>3 DEF WinCreate, a, st
  <2> QED BY <1>1, <1>2, <1>3, <1>3a, <1>4, <2>1 DEF WM
<1> HIDE DEF c
<1>6. \A j \in Slot : c.win[j] = IF j = i THEN t ELSE s.win[j]
  BY <1>1, <1>3 DEF WM
<1>7. /\ d \in WM /\ d.win = c.win /\ d.z = c.z /\ d.min = c.min
      /\ d.drag = c.drag /\ d.focus = None
  BY <1>5 DEF WM
<1> HIDE DEF d
<1>8. Exact(d)
  BY <1>1, <1>2, <1>3, <1>6, <1>7 DEF Exact, WellFormed, Used
<1>9. OnePer(d)
  BY <1>1, <1>6, <1>7 DEF OnePer, WellFormed, Used
<1>10. TopFocus(d)
  BY <1>7 DEF TopFocus
<1>11. DragShown(d)
  <2>1. ASSUME d.drag # None PROVE Visible(d, d.drag)
    <3>1. s.drag # None /\ Visible(s, s.drag) /\ s.drag \in Slot
      BY <1>1, <1>3, <1>7, <2>1 DEF WellFormed, DragShown, WM
    <3>2. s.drag # i
      BY <3>1 DEF Visible
    <3> QED BY <1>3, <1>6, <1>7, <3>1, <3>2 DEF Visible, Used
  <2> QED BY <2>1 DEF DragShown
<1>12. Used(c, i)
  BY <1>1, <1>6 DEF Used
<1> QED BY <1>5, <1>7, <1>8, <1>9, <1>10, <1>11, <1>12 DEF WellFormed, d, c

\* win_focus sets the focus whatever it was.
LEMMA FocusForgets ==
  ASSUME NEW s \in WM, NEW i \in Slot
  PROVE  WinFocus(s, i) = WinFocus([s EXCEPT !.focus = None], i)
BY NoneIsNoSlot DEF WM, WinFocus, WinRaise

LEMMA OpenKeeps ==
  ASSUME NEW s, WellFormed(s), NEW t \in App
  PROVE  WellFormed(WinOpen(s, t))
<1>0. s \in WM
  BY DEF WellFormed
<1>1. CASE WinFind(s, t) # None
  BY <1>0, <1>1, WinFindFinds, FocusKeeps DEF WinOpen
<1>2. CASE WinFind(s, t) = None /\ FreeSlots(s) = {}
  BY <1>2 DEF WinOpen
<1>3. CASE WinFind(s, t) = None /\ FreeSlots(s) # {}
  <2> DEFINE i == FirstFree(s)
             c == WinCreate(s, i, t)
             d == [c EXCEPT !.focus = None]
  <2>1. i \in Slot /\ ~Used(s, i)
    BY <1>3, FirstFreeIsFree
  <2>2. \A j \in Slot : s.win[j] # t
    BY <1>0, <1>3, WinFindFinds
  <2>3. WellFormed(d) /\ c \in WM /\ Used(c, i)
    BY <2>1, <2>2, CreateKeeps
  <2>4. Used(d, i)
    BY <2>3 DEF Used, WM
  <2>5. WinOpen(s, t) = WinFocus(c, i)
    BY <1>3 DEF WinOpen
  <2>6. WinFocus(c, i) = WinFocus(d, i)
    BY <2>1, <2>3, FocusForgets
  <2> QED BY <2>1, <2>3, <2>4, <2>5, <2>6, FocusKeeps
<1> QED BY <1>1, <1>2, <1>3

LEMMA CloseKeeps ==
  ASSUME NEW s, WellFormed(s), NEW i \in Slot \cup {None}
  PROVE  WellFormed(WinClose(s, i))
<1>0. s \in WM /\ s.z \in Seq(Slot) /\ Distinct(s.z)
  BY DEF WellFormed, WM, Exact
<1>1. CASE i = None \/ ~Used(s, i)
  BY <1>1 DEF WinClose, CloseWith
<1>2. CASE i # None /\ Used(s, i)
  <2> DEFINE k == IndexZ(s.z, i)
             n == Len(s.z)
             rest == Without(s.z, i)
             foc == IF s.focus # i THEN s.focus
                    ELSE IF Len(rest) > 0 THEN rest[Len(rest)] ELSE None
             dr == DragAfter(s, i)
             c == WinClose(s, i)
  <2>1. InZ(s.z, i) /\ k \in 1 .. n /\ s.z[k] = i /\ n \in Nat /\ i \in Slot
    BY <1>0, <1>2, IndexZFinds, LenProperties DEF WellFormed, Exact
  <2>2. rest = Shift(s.z, k)
    BY <2>1 DEF Without
  <2>3. /\ rest \in Seq(Slot) /\ Len(rest) = n - 1 /\ Distinct(rest)
        /\ \A j \in Slot : InZ(rest, j) <=> InZ(s.z, j) /\ j # i
    <3>1. /\ Shift(s.z, k) \in Seq(Slot) /\ Len(Shift(s.z, k)) = n - 1
          /\ Distinct(Shift(s.z, k))
          /\ \A j \in Slot : InZ(Shift(s.z, k), j) <=> InZ(s.z, j) /\ j # s.z[k]
      BY <1>0, <2>1, ShiftRemoves
    <3> HIDE DEF rest
    <3> QED BY <2>1, <2>2, <3>1
  <2>4. k < n => rest # <<>> /\ rest[Len(rest)] = s.z[n]
    <3>1. ASSUME k < n PROVE n - 1 \in 1 .. n - 1 /\ ~(n - 1 < k)
      BY <2>1, <3>1
    <3>2. ASSUME k < n PROVE Shift(s.z, k)[n - 1] = s.z[n]
      BY <2>1, <3>1, <3>2 DEF Shift
    <3> QED BY <2>1, <2>2, <2>3, <3>2, EmptySeq
  <2>5. foc \in Slot \cup {None} /\ dr \in Slot \cup {None}
    BY <1>0, <2>1, <2>3, ElementOfSeq, LenProperties DEF WM, DragAfter
  <2>6. foc # None => rest # <<>> /\ foc = rest[Len(rest)]
    <3>1. CASE s.focus = i
      BY <2>1, <2>3, <3>1, EmptySeq
    <3>2. CASE s.focus # i /\ s.focus # None
      <4>1. s.focus = s.z[n] /\ k # n
        BY <2>1, <3>2 DEF WellFormed, TopFocus
      <4> QED BY <2>1, <2>4, <3>2, <4>1
    <3> QED BY <3>1, <3>2
  <2> HIDE DEF rest, foc, dr, k, n
  <2>7. c = [s EXCEPT !.win[i] = NoApp, !.z = rest, !.focus = foc, !.drag = dr]
    BY <1>2 DEF WinClose, CloseWith, rest, foc, dr
  <2> HIDE DEF c
  <2>8. /\ c.win = [s.win EXCEPT ![i] = NoApp] /\ c.z = rest /\ c.min = s.min
        /\ c.focus = foc /\ c.drag = dr
    <3>1. c.win = [s.win EXCEPT ![i] = NoApp]
      BY <1>0, <2>7 DEF WM
    <3>2. c.z = rest /\ c.min = s.min
      BY <1>0, <2>7 DEF WM
    <3>3. c.focus = foc /\ c.drag = dr
      BY <1>0, <2>7 DEF WM
    <3> QED BY <3>1, <3>2, <3>3
  <2>9. \A j \in Slot : c.win[j] = IF j = i THEN NoApp ELSE s.win[j]
    BY <1>0, <2>1, <2>8 DEF WM
  <2>10. c \in WM
    <3>1. c.win \in [Slot -> App \cup {NoApp}]
      BY <1>0, <2>8 DEF WM
    <3>2. c = [[[[s EXCEPT !.win = c.win] EXCEPT !.z = rest] EXCEPT !.focus = foc]
                EXCEPT !.drag = dr]
      BY <2>7, <2>8
    <3> QED BY <1>0, <2>3, <2>5, <3>1, <3>2 DEF WM
  <2>11. Exact(c)
    BY <2>3, <2>8, <2>9 DEF Exact, WellFormed, Used
  <2>12. OnePer(c)
    BY <2>9 DEF OnePer, WellFormed, Used
  <2>13. TopFocus(c)
    BY <2>6, <2>8 DEF TopFocus
  <2>14. DragShown(c)
    <3>1. ASSUME dr # None PROVE dr = s.drag /\ dr # i /\ dr \in Slot
      BY <2>5, <3>1 DEF dr, DragAfter
    <3> QED BY <2>8, <2>9, <3>1 DEF DragShown, WellFormed, Visible, Used
  <2> QED BY <2>10, <2>11, <2>12, <2>13, <2>14 DEF WellFormed, c
<1> QED BY <1>1, <1>2

LEMMA UnfocusKeeps ==
  ASSUME NEW s, WellFormed(s)
  PROVE  WellFormed([s EXCEPT !.focus = None])
<1> DEFINE u == [s EXCEPT !.focus = None]
<1>1. s \in WM
  BY DEF WellFormed
<1>2. /\ u \in WM /\ u.win = s.win /\ u.z = s.z /\ u.min = s.min
      /\ u.drag = s.drag /\ u.focus = None
  BY <1>1 DEF WM
<1> HIDE DEF u
<1>3. Exact(u) /\ OnePer(u) /\ TopFocus(u) /\ DragShown(u)
  BY <1>2 DEF WellFormed, Exact, OnePer, TopFocus, DragShown, Used, Visible
<1> QED BY <1>2, <1>3 DEF WellFormed, u

LEMMA MinimizeKeeps ==
  ASSUME NEW s, WellFormed(s), NEW i \in Slot, s.drag = None
  PROVE  WellFormed(WinMinimize(s, i))
<1> DEFINE u == WinMinimize(s, i)
<1>1. s \in WM
  BY DEF WellFormed
<1>2. /\ u \in WM /\ u.win = s.win /\ u.z = s.z
      /\ u.drag = s.drag /\ u.focus = None
  BY <1>1 DEF WM, WinMinimize
<1> HIDE DEF u
<1>3. Exact(u) /\ OnePer(u) /\ TopFocus(u) /\ DragShown(u)
  BY <1>2 DEF WellFormed, Exact, OnePer, TopFocus, DragShown, Used
<1> QED BY <1>2, <1>3 DEF WellFormed, u

LEMMA ToggleMaxKeeps ==
  ASSUME NEW s, WellFormed(s), NEW i \in Slot
  PROVE  /\ WellFormed(WinToggleMax(s, i))
         /\ \A j : Used(WinToggleMax(s, i), j) <=> Used(s, j)
<1> DEFINE u == WinToggleMax(s, i)
<1>1. s \in WM
  BY DEF WellFormed
<1>2. /\ u \in WM /\ u.win = s.win /\ u.z = s.z /\ u.min = s.min
      /\ u.drag = s.drag /\ u.focus = s.focus
  BY <1>1 DEF WM, WinToggleMax
<1> HIDE DEF u
<1>3. Exact(u) /\ OnePer(u) /\ TopFocus(u) /\ DragShown(u)
  BY <1>2 DEF WellFormed, Exact, OnePer, TopFocus, DragShown, Used, Visible
<1>4. \A j : Used(u, j) <=> Used(s, j)
  BY <1>2 DEF Used
<1> QED BY <1>2, <1>3, <1>4 DEF WellFormed, u

LEMMA DragKeeps ==
  ASSUME NEW s, WellFormed(s), NEW d \in Slot \cup {None}, d # None => Visible(s, d)
  PROVE  WellFormed([s EXCEPT !.drag = d])
<1> DEFINE u == [s EXCEPT !.drag = d]
<1>1. s \in WM
  BY DEF WellFormed
<1>2. /\ u \in WM /\ u.win = s.win /\ u.z = s.z /\ u.min = s.min
      /\ u.drag = d /\ u.focus = s.focus
  BY <1>1 DEF WM
<1> HIDE DEF u
<1>3. Exact(u) /\ OnePer(u) /\ TopFocus(u) /\ DragShown(u)
  BY <1>2 DEF WellFormed, Exact, OnePer, TopFocus, DragShown, Used, Visible
<1> QED BY <1>2, <1>3 DEF WellFormed, u

LEMMA FocusTermKeeps ==
  ASSUME NEW s, WellFormed(s)
  PROVE  WellFormed(FocusTerm(s))
<1>1. s \in WM /\ Term \in App
  BY AppAssumption DEF WellFormed
<1> QED BY <1>1, WinFindFinds, FocusKeeps DEF FocusTerm

\* A click focuses the window it hits, if it has not the focus yet.
LEMMA FocusedKeeps ==
  ASSUME NEW s, WellFormed(s), NEW i \in Slot, Visible(s, i)
  PROVE  /\ WellFormed(Focused(s, i))
         /\ Focused(s, i).drag = s.drag
         /\ Visible(Focused(s, i), i)
<1>1. CASE s.focus = i
  BY <1>1 DEF Focused
<1>2. CASE s.focus # i
  <2> DEFINE f == WinFocus(s, i)
  <2>1. Used(s, i) /\ s \in WM
    BY DEF Visible, WellFormed
  <2>2. WellFormed(f)
    BY <2>1, FocusKeeps
  <2>3. f.drag = s.drag /\ f.win = s.win /\ i \notin f.min
    BY <2>1, NoneIsNoSlot DEF WM, WinFocus, WinRaise
  <2>4. Focused(s, i) = f
    BY <1>2 DEF Focused
  <2> HIDE DEF f
  <2> QED BY <2>1, <2>2, <2>3, <2>4 DEF Visible, Used
<1> QED BY <1>1, <1>2

\* The switcher stops at a position of the z-order.
LEMMA SkipStaysInZ ==
  ASSUME NEW s, s.z \in Seq(Slot), NEW p \in Nat
  PROVE  SkipMinimized(s, p) \in Nat
<1> DEFINE n == Len(s.z)
           On(d) == Visible(s, s.z[((p + d) % n) + 1])
           T == {d \in 0 .. n - 1 : On(d)}
<1>0. n \in Nat
  BY LenProperties
<1>1. CASE T = {}
  BY <1>1 DEF SkipMinimized
<1>2. CASE T # {}
  <2>1. T \in SUBSET Nat /\ n > 0
    BY <1>0, <1>2
  <2>2. PICK m \in T : \A k \in T : m <= k
    BY <1>2, <2>1, LeastOf
  <2>3. \E d \in 0 .. n - 1 : On(d) /\ \A e \in 0 .. d - 1 : ~On(e)
    <3>1. \A e \in 0 .. m - 1 : e \in 0 .. n - 1 /\ ~(m <= e)
      BY <1>0, <2>1, <2>2
    <3>2. \A e \in 0 .. m - 1 : ~On(e)
      BY <2>2, <3>1
    <3> QED BY <2>2, <3>2
  <2> DEFINE d0 == CHOOSE d \in 0 .. n - 1 : On(d) /\ \A e \in 0 .. d - 1 : ~On(e)
  <2>4. d0 \in 0 .. n - 1
    BY <2>3
  <2>5. SkipMinimized(s, p) = (p + d0) % n
    BY <1>2 DEF SkipMinimized
  <2> HIDE DEF d0
  <2>6. (p + d0) % n \in 0 .. n - 1
    <3>1. p + d0 \in Int
      BY <2>4
    <3> QED BY <1>0, <2>1, <3>1, ModRange
  <2> QED BY <1>0, <2>5, <2>6
<1> QED BY <1>1, <1>2

---------------------------------------------------------------------------
(* The invariant is inductive. *)

LEMMA BootIsWellFormed == WellFormed(BootWM)
<1> DEFINE b == BootWM
<1>1. /\ b.win = [i \in Slot |-> IF i = 0 THEN Term ELSE NoApp] /\ b.min = {}
      /\ b.z = <<0>> /\ b.focus = 0 /\ b.drag = None
  BY DEF BootWM
<1>2. 0 \in Slot /\ Term \in App /\ Term # NoApp
  BY AppAssumption, BoundAssumption DEF Slot
<1>3. b \in WM
  BY <1>2 DEF BootWM, WM
<1> HIDE DEF b
<1>4. Exact(b)
  BY <1>1, <1>2 DEF Exact, Used, InZ, Distinct
<1>5. OnePer(b) /\ TopFocus(b) /\ DragShown(b)
  BY <1>1, <1>2 DEF OnePer, TopFocus, DragShown, Used
<1> QED BY <1>3, <1>4, <1>5 DEF WellFormed, b

LEMMA InitIInv == Init => IInv
<1> SUFFICES ASSUME Init PROVE IInv
  OBVIOUS
<1>1. WellFormed(wm) /\ wm \in WM
  BY BootIsWellFormed DEF Init, WellFormed
<1>2. TypeOK
  BY <1>1, PatienceRange DEF Init, TypeOK
<1> QED BY <1>1, <1>2 DEF IInv

\* The scalars, in one place: what is left of TypeOK' once wm' is well formed.
Scalars ==
  /\ switcherOn \in BOOLEAN /\ switcherPos \in Nat /\ ticksLeft \in 0 .. Patience
  /\ menuOpen \in BOOLEAN /\ button \in BOOLEAN /\ prevButton \in BOOLEAN
  /\ mode \in {"run", "fault", "off"}

LEMMA KeyboardKeeps == IInv /\ Keyboard => WellFormed(wm') /\ Scalars'
<1> SUFFICES ASSUME IInv, Keyboard PROVE WellFormed(wm') /\ Scalars'
  OBVIOUS
<1>0. WellFormed(wm) /\ Scalars /\ wm \in WM /\ wm.z \in Seq(Slot)
  BY DEF IInv, TypeOK, Scalars, WM
<1>1. ASSUME NEW t \in App, ShellOpen(t) PROVE WellFormed(wm') /\ Scalars'
  BY <1>0, <1>1, OpenKeeps DEF ShellOpen, switcher, mouse, Scalars
<1>2. ASSUME NEW t \in EscApp, ModalEsc(t) PROVE WellFormed(wm') /\ Scalars'
  <2>1. WinFind(wm, t) \in Slot \cup {None}
    BY <1>0, AppAssumption, WinFindFinds
  <2> QED BY <1>0, <1>2, <2>1, CloseKeeps, FocusTermKeeps
          DEF ModalEsc, switcher, mouse, Scalars
<1>3. CASE AltT
  BY <1>0, <1>3, FocusTermKeeps DEF AltT, switcher, mouse, Scalars
<1>4. CASE SwitcherNext
  <2> DEFINE n     == Len(wm.z)
             cur   == IF InZ(wm.z, wm.focus) THEN IndexZ(wm.z, wm.focus) - 1 ELSE -1
             start == IF switcherOn THEN switcherPos ELSE cur
  <2>1. n \in Nat /\ n > 1
    BY <1>0, <1>4, LenProperties DEF SwitcherNext, Advance
  <2>2. cur \in Int /\ cur >= -1
    BY <2>1, IndexZFinds
  <2>3. (start + 1) % n \in Nat
    <3>1. start + 1 \in Int
      BY <1>0, <2>2 DEF Scalars
    <3>2. (start + 1) % n \in 0 .. n - 1
      BY <2>1, <3>1, ModRange
    <3> QED BY <2>1, <3>2
  <2>4. switcherPos' = SkipMinimized(wm, (start + 1) % n)
    BY <1>4 DEF SwitcherNext, Advance
  <2>5. switcherPos' \in Nat
    BY <1>0, <2>3, <2>4, SkipStaysInZ
  <2> QED BY <1>0, <1>4, <2>5, PatienceRange DEF SwitcherNext, Advance, mouse, Scalars
<1>5. CASE Running /\ switcherOn /\ SwitcherConfirm
  <2>1. CASE wm.z = <<>>
    BY <1>0, <1>5, <2>1, PatienceRange
       DEF SwitcherConfirm, SwitcherOff, mouse, Scalars
  <2>2. CASE wm.z # <<>>
    <3> DEFINE p == (switcherPos % Len(wm.z)) + 1
    <3>1. Len(wm.z) \in Nat \ {0}
      BY <1>0, <2>2, EmptySeq
    <3>2. p \in 1 .. Len(wm.z)
      <4>1. switcherPos % Len(wm.z) \in 0 .. Len(wm.z) - 1
        <5>1. switcherPos \in Int /\ Len(wm.z) \in Nat /\ Len(wm.z) > 0
          BY <1>0, <3>1 DEF Scalars
        <5> QED BY <5>1, ModRange
      <4> QED BY <3>1, <4>1
    <3>3. wm.z[p] \in Slot /\ Used(wm, wm.z[p])
      BY <1>0, <3>2, ElementOfSeq DEF WellFormed, Exact, InZ
    <3>4. wm' = WinFocus(wm, wm.z[p]) /\ mode' = mode
      BY <1>5, <2>2 DEF SwitcherConfirm
    <3>5. WellFormed(wm')
      BY <1>0, <3>3, <3>4, FocusKeeps
    <3>6. Scalars'
      BY <1>0, <1>5, <3>4, PatienceRange
         DEF SwitcherConfirm, SwitcherOff, mouse, Scalars
    <3> QED BY <3>5, <3>6
  <2> QED BY <2>1, <2>2
<1>6. CASE SwitcherCancel
  BY <1>0, <1>6, PatienceRange DEF SwitcherCancel, SwitcherOff, mouse, Scalars
<1> QED BY <1>1, <1>2, <1>3, <1>4, <1>5, <1>6 DEF Keyboard, SwitcherEnter, SwitcherTimeout

LEMMA MouseKeeps == IInv /\ Mouse => WellFormed(wm') /\ Scalars'
<1> SUFFICES ASSUME IInv, Mouse PROVE WellFormed(wm') /\ Scalars'
  OBVIOUS
<1>0. WellFormed(wm) /\ Scalars /\ wm \in WM
  BY DEF IInv, TypeOK, Scalars
<1>1. CASE ButtonIrq
  BY <1>0, <1>1 DEF ButtonIrq, switcher, Scalars
<1>2. CASE DragMove
  BY <1>0, <1>2 DEF DragMove, Sampled, Running, switcher, Scalars
<1>3. CASE DragEnd
  <2>1. wm' = [wm EXCEPT !.drag = None]
    BY <1>3 DEF DragEnd
  <2>2. WellFormed(wm')
    BY <1>0, <2>1, DragKeeps
  <2> QED BY <1>0, <1>3, <2>2 DEF DragEnd, Sampled, Running, switcher, Scalars
<1>4. CASE NoPress
  BY <1>0, <1>4 DEF NoPress, Sampled, Running, switcher, Scalars
<1>5. ASSUME Press, menuOpen' \in BOOLEAN, mode' \in {"run", "fault", "off"}
      PROVE  Scalars'
  BY <1>0, <1>5 DEF Press, Sampled, Running, switcher, Scalars
<1>6. ASSUME PressElsewhere PROVE Press /\ Scalars' /\ wm.drag = None
  BY <1>0, <1>5, <1>6 DEF PressElsewhere, Press, Scalars
<1>7. ASSUME NEW t \in MenuApp, MenuOpenApp(t) PROVE WellFormed(wm') /\ Scalars'
  <2>1. t \in App
    BY AppAssumption
  <2> QED BY <1>0, <1>5, <1>7, <2>1, OpenKeeps DEF MenuOpenApp, Scalars
<1>8. CASE MenuReboot
  BY <1>0, <1>8, BootIsWellFormed, PatienceRange DEF MenuReboot, SwitcherOff, Scalars
<1>9. CASE MenuHalt
  BY <1>0, <1>5, <1>9 DEF MenuHalt
<1>10. CASE PressLogo
  BY <1>0, <1>5, <1>10 DEF PressLogo, Scalars
<1>11. CASE PressDesktop
  BY <1>0, <1>6, <1>11, UnfocusKeeps DEF PressDesktop
<1>12. CASE PressTaskbar
  BY <1>0, <1>6, <1>12 DEF PressTaskbar
<1>13. ASSUME NEW t \in DockApp, PressDock(t) PROVE WellFormed(wm') /\ Scalars'
  <2> DEFINE i == WinFind(wm, t)
  <2>1. t \in App
    BY AppAssumption
  <2>2. /\ WellFormed(WinOpen(wm, t))
        /\ i # None => /\ WellFormed(WinFocus(wm, i))
                       /\ wm.drag = None => WellFormed(WinMinimize(wm, i))
    BY <1>0, <2>1, WinFindFinds, OpenKeeps, FocusKeeps, MinimizeKeeps
  <2> HIDE DEF i
  <2>3. PressElsewhere /\ wm' \in {WinOpen(wm, t), WinFocus(wm, i), WinMinimize(wm, i)}
        /\ (i = None => wm' = WinOpen(wm, t))
    BY <1>13 DEF PressDock, i
  <2> QED BY <1>6, <2>2, <2>3
<1>14. ASSUME NEW t \in IconApp, PressIcon(t) PROVE WellFormed(wm') /\ Scalars'
  <2>1. t \in App
    BY AppAssumption
  <2> QED BY <1>0, <1>6, <1>14, <2>1, OpenKeeps DEF PressIcon
<1>15. ASSUME NEW i \in Slot, PressWindow(i)
       PROVE  LET f == Focused(wm, i)
              IN /\ Scalars' /\ WellFormed(f) /\ f.drag = None /\ Visible(f, i) /\ Used(f, i)
  BY <1>0, <1>6, <1>15, FocusedKeeps DEF PressWindow, Visible
<1>16. ASSUME NEW i \in Slot, PressClose(i) PROVE WellFormed(wm') /\ Scalars'
  BY <1>15, <1>16, CloseKeeps DEF PressClose
<1>17. ASSUME NEW i \in Slot, PressMinimize(i) PROVE WellFormed(wm') /\ Scalars'
  BY <1>15, <1>17, MinimizeKeeps DEF PressMinimize
<1>18. ASSUME NEW i \in Slot, PressMaximize(i) PROVE WellFormed(wm') /\ Scalars'
  BY <1>15, <1>18, ToggleMaxKeeps, FocusKeeps DEF PressMaximize
<1>19. ASSUME NEW i \in Slot, PressTitle(i) PROVE WellFormed(wm') /\ Scalars'
  BY <1>15, <1>19, DragKeeps DEF PressTitle
<1>20. ASSUME NEW i \in Slot, PressClient(i) PROVE WellFormed(wm') /\ Scalars'
  BY <1>15, <1>20, OpenKeeps, AppAssumption DEF PressClient
<1> QED BY <1>1, <1>2, <1>3, <1>4, <1>7, <1>8, <1>9, <1>10, <1>11, <1>12, <1>13, <1>14,
           <1>16, <1>17, <1>18, <1>19, <1>20 DEF Mouse

LEMMA NextKeeps == IInv /\ [Next]_vars => IInv'
<1> SUFFICES ASSUME IInv, [Next]_vars PROVE WellFormed(wm') /\ Scalars'
  BY DEF IInv, TypeOK, Scalars, WellFormed
<1>0. WellFormed(wm) /\ Scalars
  BY DEF IInv, TypeOK, Scalars
<1>1. CASE Keyboard
  BY <1>1, KeyboardKeeps
<1>2. CASE Mouse
  BY <1>2, MouseKeeps
<1>3. CASE Tick
  <2>1. ticksLeft' \in 0 .. Patience
    BY <1>0, <1>3, BoundAssumption DEF Tick, Scalars
  <2> QED BY <1>0, <1>3, <2>1 DEF Tick, mouse, Scalars
<1>4. CASE UNCHANGED vars
  BY <1>0, <1>4 DEF vars, switcher, mouse, Scalars
<1> QED BY <1>1, <1>2, <1>3, <1>4 DEF Next

LEMMA SpecIInv == Spec => []IInv
BY InitIInv, NextKeeps, PTL DEF Spec

---------------------------------------------------------------------------
(* The theorems. *)

\* Whatever the keyboard, the shell, the timer and the mouse do, the statics of
\* the window manager stay in their ranges: no index leaves wins[] or zorder[].
THEOREM Typed == Spec => []TypeOK
<1>1. IInv => TypeOK
  BY DEF IInv
<1> QED BY <1>1, SpecIInv, PTL

\* zorder[] lists the windows that exist, each once, in every behaviour.
THEOREM ZOrderIsExact == Spec => []ZOrderExact
<1>1. IInv => ZOrderExact
  BY DEF IInv, WellFormed, Exact, Distinct, ZOrderExact
<1> QED BY <1>1, SpecIInv, PTL

\* win_open never makes a second window of a kind.
THEOREM NoSecondWindow == Spec => []OneWindowPerApp
<1>1. IInv => OneWindowPerApp
  BY DEF IInv, WellFormed, OnePer, OneWindowPerApp
<1> QED BY <1>1, SpecIInv, PTL

\* The window with the keyboard is always the one on top.
THEOREM FocusedIsTop == Spec => []FocusOnTop
<1>1. IInv => FocusOnTop
  BY DEF IInv, WellFormed, TopFocus, FocusOnTop
<1> QED BY <1>1, SpecIInv, PTL

\* The window being dragged exists and is not minimized, whatever closes windows
\* meanwhile.
THEOREM DraggedIsShown == Spec => []DragOnScreen
<1>1. IInv => DragOnScreen
  BY DEF IInv, WellFormed, DragShown, DragOnScreen
<1> QED BY <1>1, SpecIInv, PTL
---------------------------------------------------------------------------
(* What rises.  Every operation leaves the windows in the order they had,      *)
(* except that it may bring some to the front; such statements compose, since  *)
(* they look back from the order that results to the one there was.            *)

Before(z, i, j) == \E k, l \in 1 .. Len(z) : k < l /\ z[k] = i /\ z[l] = j

\* In w no window is above one that it was not above in z, unless it is in R.
OnlyRaised(z, w, R) == \A i, j : Before(w, j, i) /\ i \notin R => Before(z, j, i)

LEMMA BeforeIsOrder ==
  ASSUME NEW z \in Seq(Slot), Distinct(z), NEW i, NEW j
  PROVE  /\ ~(Before(z, i, j) /\ Before(z, j, i))
         /\ InZ(z, i) /\ InZ(z, j) /\ IndexZ(z, i) < IndexZ(z, j) => Before(z, i, j)
<1>1. Len(z) \in Nat
  BY LenProperties
<1>2. ASSUME NEW k \in 1 .. Len(z), NEW l \in 1 .. Len(z), k < l, z[k] = i, z[l] = j,
             NEW m \in 1 .. Len(z), NEW n \in 1 .. Len(z), m < n, z[m] = j, z[n] = i
      PROVE  FALSE
  <2>1. k = n /\ l = m
    BY <1>2 DEF Distinct
  <2> QED BY <1>1, <1>2, <2>1
<1>3. ~(Before(z, i, j) /\ Before(z, j, i))
  BY <1>2 DEF Before
<1>4. InZ(z, i) /\ InZ(z, j) /\ IndexZ(z, i) < IndexZ(z, j) => Before(z, i, j)
  BY IndexZFinds DEF Before
<1> QED BY <1>3, <1>4

LEMMA ShiftOrder ==
  ASSUME NEW z \in Seq(Slot), NEW k \in 1 .. Len(z), Distinct(z)
  PROVE  OnlyRaised(z, Shift(z, k), {})
<1> DEFINE n == Len(z)
           t == Shift(z, k)
<1>1. n \in Nat /\ Len(t) = n - 1
  BY ShiftRemoves, LenProperties
<1>2. \A m \in 1 .. n - 1 : t[m] = (IF m < k THEN z[m] ELSE z[m + 1])
  BY DEF Shift
<1> HIDE DEF t
<1>3. ASSUME NEW i, NEW j, NEW l \in 1 .. Len(t), NEW m \in 1 .. Len(t),
             l < m, t[l] = j, t[m] = i
      PROVE  Before(z, j, i)
  <2> DEFINE From(x) == IF x < k THEN x ELSE x + 1
  <2>1. From(l) \in 1 .. n /\ From(m) \in 1 .. n /\ From(l) < From(m)
    BY <1>1, <1>3
  <2>2. z[From(l)] = j /\ z[From(m)] = i
    BY <1>1, <1>2, <1>3
  <2> HIDE DEF From
  <2> QED BY <2>1, <2>2 DEF Before
<1>4. \A i, j : Before(t, j, i) => Before(z, j, i)
  BY <1>3 DEF Before
<1> QED BY <1>4 DEF OnlyRaised, t

LEMMA AppendOrder ==
  ASSUME NEW z \in Seq(Slot), NEW f \in Slot
  PROVE  OnlyRaised(z, Append(z, f), {f})
<1> DEFINE n == Len(z)
           a == Append(z, f)
<1>1. n \in Nat /\ Len(a) = n + 1 /\ a[n + 1] = f /\ \A k \in 1 .. n : a[k] = z[k]
  BY AppendProperties, LenProperties
<1> HIDE DEF a
<1>2. ASSUME NEW i, NEW j, i # f, NEW l \in 1 .. Len(a), NEW m \in 1 .. Len(a),
             l < m, a[l] = j, a[m] = i
      PROVE  Before(z, j, i)
  <2>1. m # n + 1
    BY <1>1, <1>2
  <2>2. l \in 1 .. n /\ m \in 1 .. n
    BY <1>1, <1>2, <2>1
  <2> QED BY <1>1, <1>2, <2>2 DEF Before
<1>3. \A i, j : Before(a, j, i) /\ i # f => Before(z, j, i)
  BY <1>2 DEF Before
<1> QED BY <1>3 DEF OnlyRaised, a

LEMMA RaisedOrder ==
  ASSUME NEW z \in Seq(Slot), NEW f \in Slot, Distinct(z), InZ(z, f)
  PROVE  OnlyRaised(z, Raised(z, f), {f})
<1> DEFINE t == Shift(z, IndexZ(z, f))
<1>1. IndexZ(z, f) \in 1 .. Len(z)
  BY IndexZFinds
<1>2. t \in Seq(Slot) /\ OnlyRaised(z, t, {})
  BY <1>1, ShiftRemoves, ShiftOrder
<1>3. Raised(z, f) = Append(t, f)
  BY DEF Raised
<1> HIDE DEF t
<1>4. OnlyRaised(t, Append(t, f), {f})
  BY <1>2, AppendOrder
<1> QED BY <1>2, <1>3, <1>4 DEF OnlyRaised

LEMMA FocusOrder ==
  ASSUME NEW s \in WM, Distinct(s.z), NEW f \in Slot, InZ(s.z, f)
  PROVE  /\ OnlyRaised(s.z, WinFocus(s, f).z, {f})
         /\ WinFocus(s, f).focus = f /\ WinFocus(s, f).win = s.win
         /\ WinFocus(s, f).min = s.min \ {f}
<1>1. WinFocus(s, f).z = Raised(s.z, f)
  BY NoneIsNoSlot DEF WM, WinFocus, WinRaise, Raised
<1>2. /\ WinFocus(s, f).focus = f /\ WinFocus(s, f).win = s.win
      /\ WinFocus(s, f).min = s.min \ {f}
  BY NoneIsNoSlot DEF WM, WinFocus, WinRaise
<1>3. s.z \in Seq(Slot)
  BY DEF WM
<1> QED BY <1>1, <1>2, <1>3, RaisedOrder

LEMMA OpenOrder ==
  ASSUME NEW s, WellFormed(s), NEW t \in App
  PROVE  OnlyRaised(s.z, WinOpen(s, t).z, {WinOpen(s, t).focus})
<1>0. s \in WM /\ s.z \in Seq(Slot) /\ Distinct(s.z)
  BY DEF WellFormed, WM, Exact
<1>1. CASE WinFind(s, t) # None
  <2> DEFINE i == WinFind(s, t)
  <2>1. i \in Slot /\ Used(s, i)
    BY <1>0, <1>1, WinFindFinds
  <2>2. WinOpen(s, t) = WinFocus(s, i)
    BY <1>1 DEF WinOpen
  <2> HIDE DEF i
  <2>3. InZ(s.z, i)
    BY <2>1 DEF WellFormed, Exact
  <2>4. OnlyRaised(s.z, WinFocus(s, i).z, {i}) /\ WinFocus(s, i).focus = i
    BY <1>0, <2>1, <2>3, FocusOrder
  <2> QED BY <2>2, <2>4 DEF OnlyRaised
<1>2. CASE WinFind(s, t) = None /\ FreeSlots(s) = {}
  BY <1>2 DEF WinOpen, OnlyRaised
<1>3. CASE WinFind(s, t) = None /\ FreeSlots(s) # {}
  <2> DEFINE i == FirstFree(s)
             c == WinCreate(s, i, t)
  <2>1. i \in Slot /\ ~Used(s, i)
    BY <1>3, FirstFreeIsFree
  <2>2. \A j \in Slot : s.win[j] # t
    BY <1>0, <1>3, WinFindFinds
  <2>3. c \in WM
    BY <2>1, <2>2, CreateKeeps
  <2>5. WinOpen(s, t) = WinFocus(c, i)
    BY <1>3 DEF WinOpen
  <2> HIDE DEF i
  <2>4. c.z = Append(s.z, i)
    BY <1>0, <2>1 DEF WM, WinCreate
  <2> HIDE DEF c
  <2>6. ~InZ(s.z, i)
    BY <2>1 DEF WellFormed, Exact
  <2>7. Distinct(c.z) /\ InZ(c.z, i)
    BY <1>0, <2>1, <2>4, <2>6, AppendAdds
  <2>8. OnlyRaised(s.z, c.z, {i})
    BY <1>0, <2>1, <2>4, AppendOrder
  <2>9. OnlyRaised(c.z, WinFocus(c, i).z, {i}) /\ WinFocus(c, i).focus = i
    BY <2>1, <2>3, <2>7, FocusOrder
  <2> QED BY <2>5, <2>8, <2>9 DEF OnlyRaised
<1> QED BY <1>1, <1>2, <1>3

\* A window that closes leaves the others as they were, and is not among them.
LEMMA CloseOrder ==
  ASSUME NEW s, WellFormed(s), NEW i \in Slot, Used(s, i)
  PROVE  /\ OnlyRaised(s.z, WinClose(s, i).z, {})
         /\ \A j : ~Before(WinClose(s, i).z, j, i)
<1> DEFINE k == IndexZ(s.z, i)
           t == Shift(s.z, k)
<1>1. s \in WM /\ s.z \in Seq(Slot) /\ Distinct(s.z) /\ InZ(s.z, i)
  BY DEF WellFormed, WM, Exact
<1>2. k \in 1 .. Len(s.z) /\ s.z[k] = i
  BY <1>1, IndexZFinds
<1> HIDE DEF k
<1>3. WinClose(s, i).z = t
  <2>1. Without(s.z, i) = t
    BY <1>1 DEF Without, k
  <2> DEFINE rest == Without(s.z, i)
  <2>2. i # None /\ WinClose(s, i) = CloseWith(s, i, rest, DragAfter(s, i))
    BY NoneIsNoSlot DEF WinClose
  <2> HIDE DEF rest
  <2>3. CloseWith(s, i, rest, DragAfter(s, i)).z = rest
    BY <1>1, <2>2 DEF CloseWith, WM
  <2> QED BY <2>1, <2>2, <2>3 DEF rest
<1> HIDE DEF t
<1>4. OnlyRaised(s.z, t, {}) /\ ~InZ(t, i)
  BY <1>1, <1>2, ShiftOrder, ShiftRemoves DEF t
<1>5. \A j : ~Before(t, j, i)
  BY <1>4 DEF Before, InZ
<1> QED BY <1>3, <1>4, <1>5

LEMMA FocusTermOrder ==
  ASSUME NEW s, WellFormed(s)
  PROVE  OnlyRaised(s.z, FocusTerm(s).z, {FocusTerm(s).focus})
<1> DEFINE i == WinFind(s, Term)
<1>1. s \in WM /\ Distinct(s.z) /\ Term \in App
  BY AppAssumption DEF WellFormed, Exact
<1>2. CASE i = None
  BY <1>2 DEF FocusTerm, OnlyRaised
<1>3. CASE i # None
  <2>1. i \in Slot /\ Used(s, i)
    BY <1>1, <1>3, WinFindFinds
  <2>2. FocusTerm(s) = WinFocus(s, i)
    BY <1>3 DEF FocusTerm
  <2> HIDE DEF i
  <2>3. InZ(s.z, i)
    BY <2>1 DEF WellFormed, Exact
  <2>4. OnlyRaised(s.z, WinFocus(s, i).z, {i}) /\ WinFocus(s, i).focus = i
    BY <1>1, <2>1, <2>3, FocusOrder
  <2> QED BY <2>2, <2>4 DEF OnlyRaised
<1> QED BY <1>2, <1>3

LEMMA FocusedOrder ==
  ASSUME NEW s, WellFormed(s), NEW i \in Slot, Used(s, i)
  PROVE  /\ OnlyRaised(s.z, Focused(s, i).z, {i})
         /\ Focused(s, i).win = s.win
<1>1. s \in WM /\ Distinct(s.z) /\ InZ(s.z, i)
  BY DEF WellFormed, Exact
<1>2. CASE s.focus = i
  BY <1>2 DEF Focused, OnlyRaised
<1>3. CASE s.focus # i
  BY <1>1, <1>3, FocusOrder DEF Focused
<1> QED BY <1>2, <1>3

\* What the step of RaisedOnlyByFocus says of windows i and j, and of window i.
Overtakes(i, j) ==
  /\ InZ(wm.z, i) /\ InZ(wm.z, j) /\ IndexZ(wm.z, i) < IndexZ(wm.z, j)
  /\ InZ(wm.z, i)' /\ InZ(wm.z, j)' /\ IndexZ(wm.z, i)' > IndexZ(wm.z, j)'
MayRise(i) == i = wm'.focus \/ i \in wm'.min \ wm.min \/ wm.win[i] = Expl

LEMMA RisersMay ==
  ASSUME IInv, IInv', NEW R, OnlyRaised(wm.z, wm'.z, R), \A i \in Slot : i \in R => MayRise(i),
         NEW i \in Slot, NEW j \in Slot, Overtakes(i, j)
  PROVE  MayRise(i)
<1>1. wm.z \in Seq(Slot) /\ Distinct(wm.z) /\ wm'.z \in Seq(Slot) /\ Distinct(wm'.z)
  BY DEF IInv, WellFormed, WM, Exact, Distinct
<1>2. \A k \in 1 .. Len(wm'.z) : k \in Int
  OBVIOUS
<1>3. Before(wm.z, i, j)
  BY <1>1, BeforeIsOrder DEF Overtakes
<1>4. InZ(wm'.z, i) /\ InZ(wm'.z, j) /\ IndexZ(wm'.z, i) > IndexZ(wm'.z, j)
  BY DEF Overtakes, InZ, IndexZ
<1>5. Before(wm'.z, j, i)
  <2>1. IndexZ(wm'.z, i) \in Int /\ IndexZ(wm'.z, j) \in Int
    BY <1>2, <1>4, IndexZFinds
  <2>2. IndexZ(wm'.z, j) < IndexZ(wm'.z, i)
    BY <1>4, <2>1
  <2> QED BY <1>1, <1>4, <2>2, BeforeIsOrder
<1>6. ~Before(wm.z, j, i)
  BY <1>1, <1>3, BeforeIsOrder
<1> QED BY <1>5, <1>6 DEF OnlyRaised

\* Nothing rises in a step that leaves the z-order alone.
LEMMA NothingRises ==
  ASSUME IInv, wm'.z = wm.z, NEW i \in Slot, NEW j \in Slot
  PROVE  ~Overtakes(i, j)
<1>1. \A k : InZ(wm'.z, k) <=> InZ(wm.z, k)
  BY DEF InZ
<1>2. IndexZ(wm.z, i)' = IndexZ(wm.z, i) /\ IndexZ(wm.z, j)' = IndexZ(wm.z, j)
  BY DEF IndexZ
<1>3. InZ(wm.z, i) /\ InZ(wm.z, j) => IndexZ(wm.z, i) \in Int /\ IndexZ(wm.z, j) \in Int
  BY IndexZFinds
<1> QED BY <1>2, <1>3 DEF Overtakes

OrderKept == \A i, j \in Slot : Overtakes(i, j) => MayRise(i)

LEMMA SameOrder == ASSUME IInv, wm'.z = wm.z PROVE OrderKept
BY NothingRises DEF OrderKept

\* The operations by which a step changes the z-order as a whole.
LEMMA OpenedOrder ==
  ASSUME IInv, IInv', NEW t \in App, wm' = WinOpen(wm, t)
  PROVE  OrderKept
<1>1. OnlyRaised(wm.z, wm'.z, {wm'.focus})
  BY OpenOrder DEF IInv
<1>2. \A i \in Slot : i \in {wm'.focus} => MayRise(i)
  BY DEF MayRise
<1> QED BY <1>1, <1>2, RisersMay DEF OrderKept

LEMMA RefocusedOrder ==
  ASSUME IInv, IInv', NEW i \in Slot, Used(wm, i), wm' = WinFocus(wm, i)
  PROVE  OrderKept
<1>1. wm \in WM /\ Distinct(wm.z) /\ InZ(wm.z, i)
  BY DEF IInv, WellFormed, Exact
<1>2. OnlyRaised(wm.z, wm'.z, {i}) /\ wm'.focus = i
  BY <1>1, FocusOrder
<1>3. \A k \in Slot : k \in {i} => MayRise(k)
  BY <1>2 DEF MayRise
<1> QED BY <1>2, <1>3, RisersMay DEF OrderKept

LEMMA KeyboardOrder == ASSUME IInv, IInv', Keyboard PROVE OrderKept
<1>0. WellFormed(wm) /\ wm \in WM /\ wm.z \in Seq(Slot)
  BY DEF IInv, WellFormed, WM
<1>1. ASSUME NEW t \in App, ShellOpen(t) PROVE OrderKept
  BY <1>1, OpenedOrder DEF ShellOpen
<1>2. ASSUME NEW t \in EscApp, ModalEsc(t) PROVE OrderKept
  <2> DEFINE i == WinFind(wm, t)
             c == WinClose(wm, i)
  <2>1. i # None /\ wm' = FocusTerm(c) /\ t \in App
    BY <1>2, AppAssumption DEF ModalEsc, Modal
  <2>2. i \in Slot /\ Used(wm, i)
    BY <1>0, <2>1, WinFindFinds
  <2> HIDE DEF i
  <2>3. OnlyRaised(wm.z, c.z, {}) /\ WellFormed(c)
    BY <1>0, <2>2, CloseOrder, CloseKeeps
  <2> HIDE DEF c
  <2>4. OnlyRaised(c.z, wm'.z, {wm'.focus})
    BY <2>1, <2>3, FocusTermOrder
  <2>5. OnlyRaised(wm.z, wm'.z, {wm'.focus})
    BY <2>3, <2>4 DEF OnlyRaised
  <2>6. \A k \in Slot : k \in {wm'.focus} => MayRise(k)
    BY DEF MayRise
  <2> QED BY <2>5, <2>6, RisersMay DEF OrderKept
<1>3. CASE AltT
  <2>1. OnlyRaised(wm.z, wm'.z, {wm'.focus})
    BY <1>0, <1>3, FocusTermOrder DEF AltT
  <2>2. \A k \in Slot : k \in {wm'.focus} => MayRise(k)
    BY DEF MayRise
  <2> QED BY <2>1, <2>2, RisersMay DEF OrderKept
<1>4. CASE SwitcherNext \/ SwitcherCancel
  BY <1>4, SameOrder DEF SwitcherNext, Advance, SwitcherCancel
<1>5. CASE SwitcherConfirm
  <2>1. CASE wm.z = <<>>
    BY <1>5, <2>1, SameOrder DEF SwitcherConfirm
  <2>2. CASE wm.z # <<>>
    <3> DEFINE p == (switcherPos % Len(wm.z)) + 1
    <3>1. Len(wm.z) \in Nat \ {0}
      BY <1>0, <2>2, EmptySeq
    <3>2. switcherPos % Len(wm.z) \in 0 .. Len(wm.z) - 1
      <4>1. switcherPos \in Int /\ Len(wm.z) \in Nat /\ Len(wm.z) > 0
        BY <3>1 DEF IInv, TypeOK
      <4> QED BY <4>1, ModRange
    <3>3. p \in 1 .. Len(wm.z)
      BY <3>1, <3>2
    <3>4. wm' = WinFocus(wm, wm.z[p])
      BY <1>5, <2>2 DEF SwitcherConfirm
    <3> HIDE DEF p
    <3>5. wm.z[p] \in Slot /\ Used(wm, wm.z[p])
      BY <1>0, <3>3, ElementOfSeq DEF WellFormed, Exact, InZ
    <3> QED BY <3>4, <3>5, RefocusedOrder
  <2> QED BY <2>1, <2>2
<1> QED BY <1>1, <1>2, <1>3, <1>4, <1>5 DEF Keyboard, SwitcherEnter, SwitcherTimeout

LEMMA MouseOrder == ASSUME IInv, IInv', Mouse PROVE OrderKept
<1>0. WellFormed(wm) /\ wm \in WM
  BY DEF IInv, WellFormed
<1>1. CASE ButtonIrq \/ DragMove \/ NoPress \/ MenuHalt \/ PressLogo \/ PressTaskbar
  BY <1>1, SameOrder DEF ButtonIrq, DragMove, NoPress, MenuHalt, PressLogo, PressTaskbar
<1>2. CASE DragEnd \/ PressDesktop
  <2>1. wm'.z = wm.z
    BY <1>0, <1>2 DEF DragEnd, PressDesktop, WM
  <2> QED BY <2>1, SameOrder
<1>3. ASSUME NEW t \in MenuApp, MenuOpenApp(t) PROVE OrderKept
  BY <1>3, OpenedOrder, AppAssumption DEF MenuOpenApp
<1>4. CASE MenuReboot
  <2>1. wm'.z = <<0>>
    BY <1>4 DEF MenuReboot, BootWM
  <2>2. Len(wm'.z) = 1
    BY <2>1
  <2>3. \A i, j : ~Before(wm'.z, j, i)
    BY <2>2 DEF Before
  <2>4. OnlyRaised(wm.z, wm'.z, {})
    BY <2>3 DEF OnlyRaised
  <2> QED BY <2>4, RisersMay DEF OrderKept
<1>5. ASSUME NEW t \in DockApp, PressDock(t) PROVE OrderKept
  <2> DEFINE i == WinFind(wm, t)
  <2>1. t \in App
    BY AppAssumption
  <2>2. i = None \/ (i \in Slot /\ Used(wm, i))
    BY <1>0, <2>1, WinFindFinds
  <2>3. \/ wm' = WinOpen(wm, t)
        \/ i # None /\ wm' = WinFocus(wm, i)
        \/ wm' = WinMinimize(wm, i)
    BY <1>5 DEF PressDock
  <2> HIDE DEF i
  <2>4. CASE wm' = WinMinimize(wm, i)
    <3>1. wm'.z = wm.z
      BY <1>0, <2>4 DEF WinMinimize, WM
    <3> QED BY <3>1, SameOrder
  <2> QED BY <2>1, <2>2, <2>3, <2>4, OpenedOrder, RefocusedOrder
<1>6. ASSUME NEW t \in IconApp, PressIcon(t) PROVE OrderKept
  <2>1. t \in App /\ (wm' = wm \/ wm' = WinOpen(wm, t))
    BY <1>6, AppAssumption DEF PressIcon
  <2> QED BY <2>1, OpenedOrder, SameOrder
<1>7. ASSUME NEW i \in Slot, PressWindow(i)
      PROVE  /\ Used(wm, i) /\ i \notin wm.min
             /\ LET f == Focused(wm, i)
                IN /\ WellFormed(f) /\ f \in WM /\ Distinct(f.z) /\ InZ(f.z, i) /\ Used(f, i)
                   /\ OnlyRaised(wm.z, f.z, {i})
  <2> DEFINE f == Focused(wm, i)
  <2>1. Visible(wm, i) /\ Used(wm, i) /\ i \notin wm.min
    BY <1>7 DEF PressWindow, Visible
  <2>2. WellFormed(f) /\ OnlyRaised(wm.z, f.z, {i}) /\ f.win = wm.win
    BY <1>0, <2>1, FocusedKeeps, FocusedOrder
  <2> HIDE DEF f
  <2>3. Used(f, i)
    BY <2>1, <2>2 DEF Used
  <2>4. f \in WM /\ Distinct(f.z) /\ InZ(f.z, i)
    BY <2>2, <2>3 DEF WellFormed, Exact
  <2> QED BY <2>1, <2>2, <2>3, <2>4 DEF f
<1>8. ASSUME NEW i \in Slot, PressClose(i) PROVE OrderKept
  <2> DEFINE f == Focused(wm, i)
  <2>1. WellFormed(f) /\ Used(f, i) /\ OnlyRaised(wm.z, f.z, {i})
    BY <1>7, <1>8 DEF PressClose
  <2>2. wm' = WinClose(f, i)
    BY <1>8 DEF PressClose
  <2> HIDE DEF f
  <2>3. OnlyRaised(f.z, wm'.z, {}) /\ \A j : ~Before(wm'.z, j, i)
    BY <2>1, <2>2, CloseOrder
  <2>4. OnlyRaised(wm.z, wm'.z, {})
    BY <2>1, <2>3 DEF OnlyRaised
  <2> QED BY <2>4, RisersMay DEF OrderKept
<1>9. ASSUME NEW i \in Slot, PressMinimize(i) PROVE OrderKept
  <2> DEFINE f == Focused(wm, i)
  <2>1. f \in WM /\ OnlyRaised(wm.z, f.z, {i}) /\ i \notin wm.min
    BY <1>7, <1>9 DEF PressMinimize
  <2>2. wm' = WinMinimize(f, i)
    BY <1>9 DEF PressMinimize
  <2> HIDE DEF f
  <2>3. wm'.z = f.z /\ i \in wm'.min
    BY <2>1, <2>2 DEF WinMinimize, WM
  <2>4. \A k \in Slot : k \in {i} => MayRise(k)
    BY <2>1, <2>3 DEF MayRise
  <2> QED BY <2>1, <2>3, <2>4, RisersMay DEF OrderKept
<1>10. ASSUME NEW i \in Slot, PressMaximize(i) PROVE OrderKept
  <2> DEFINE f == Focused(wm, i)
             g == WinToggleMax(f, i)
  <2>1. f \in WM /\ Distinct(f.z) /\ InZ(f.z, i) /\ OnlyRaised(wm.z, f.z, {i})
    BY <1>7, <1>10 DEF PressMaximize
  <2>2. wm' = WinFocus(g, i)
    BY <1>10 DEF PressMaximize
  <2> HIDE DEF f
  <2>3. g \in WM /\ g.z = f.z
    BY <2>1 DEF WinToggleMax, WM
  <2> HIDE DEF g
  <2>4. OnlyRaised(f.z, wm'.z, {i}) /\ wm'.focus = i
    BY <2>1, <2>2, <2>3, FocusOrder
  <2>5. OnlyRaised(wm.z, wm'.z, {i})
    BY <2>1, <2>4 DEF OnlyRaised
  <2>6. \A k \in Slot : k \in {i} => MayRise(k)
    BY <2>4 DEF MayRise
  <2> QED BY <2>5, <2>6, RisersMay DEF OrderKept
<1>11. ASSUME NEW i \in Slot, PressTitle(i) PROVE OrderKept
  <2> DEFINE f == Focused(wm, i)
  <2>1. f \in WM /\ OnlyRaised(wm.z, f.z, {i}) /\ WellFormed(f) /\ f.focus = i
    BY <1>7, <1>11, <1>0, FocusOrder DEF PressTitle, Focused, WellFormed, Exact
  <2>2. wm' = [f EXCEPT !.drag = i]
    BY <1>11 DEF PressTitle
  <2> HIDE DEF f
  <2>3. wm'.z = f.z /\ wm'.focus = i
    BY <2>1, <2>2 DEF WM
  <2>4. \A k \in Slot : k \in {i} => MayRise(k)
    BY <2>3 DEF MayRise
  <2> QED BY <2>1, <2>3, <2>4, RisersMay DEF OrderKept
<1>12. ASSUME NEW i \in Slot, PressClient(i) PROVE OrderKept
  <2> DEFINE f == Focused(wm, i)
  <2>1. WellFormed(f) /\ OnlyRaised(wm.z, f.z, {i}) /\ f.focus = i
    BY <1>7, <1>12, <1>0, FocusOrder DEF PressClient, Focused, WellFormed, Exact
  <2>2. wm' = f \/ (wm.win[i] = Expl /\ wm' = WinOpen(f, Note))
    BY <1>12 DEF PressClient
  <2> HIDE DEF f
  <2>3. CASE wm' = f
    <3>1. \A k \in Slot : k \in {i} => MayRise(k)
      BY <2>1, <2>3 DEF MayRise
    <3> QED BY <2>1, <2>3, <3>1, RisersMay DEF OrderKept
  <2>4. CASE wm.win[i] = Expl /\ wm' = WinOpen(f, Note)
    <3>1. OnlyRaised(f.z, wm'.z, {wm'.focus})
      BY <2>1, <2>4, OpenOrder, AppAssumption
    <3>2. OnlyRaised(wm.z, wm'.z, {i, wm'.focus})
      BY <2>1, <3>1 DEF OnlyRaised
    <3>3. \A k \in Slot : k \in {i, wm'.focus} => MayRise(k)
      BY <2>4 DEF MayRise
    <3> QED BY <3>2, <3>3, RisersMay DEF OrderKept
  <2> QED BY <2>2, <2>3, <2>4
<1> QED BY <1>1, <1>2, <1>3, <1>4, <1>5, <1>6, <1>8, <1>9, <1>10, <1>11, <1>12 DEF Mouse

LEMMA NextOrder == IInv /\ IInv' /\ [Next]_vars => [OrderKept]_vars
<1> SUFFICES ASSUME IInv, IInv', Next PROVE OrderKept
  OBVIOUS
<1>1. CASE Tick
  BY <1>1, SameOrder DEF Tick
<1> QED BY <1>1, KeyboardOrder, MouseOrder DEF Next

\* No step of the window manager brings a window above another one unless it
\* focuses it, minimizes it after a click, or opens a file from it.
THEOREM OnlyFocusRaises == Spec => RaisedOnlyByFocus
<1>1. [OrderKept]_vars => [ \A i, j \in Slot :
        /\ InZ(wm.z, i) /\ InZ(wm.z, j) /\ IndexZ(wm.z, i) < IndexZ(wm.z, j)
        /\ InZ(wm.z, i)' /\ InZ(wm.z, j)' /\ IndexZ(wm.z, i)' > IndexZ(wm.z, j)'
        => i = wm'.focus \/ i \in wm'.min \ wm.min \/ wm.win[i] = Expl ]_vars
  BY DEF OrderKept, Overtakes, MayRise
<1> QED BY <1>1, NextOrder, SpecIInv, PTL DEF Spec, RaisedOnlyByFocus
=============================================================================
