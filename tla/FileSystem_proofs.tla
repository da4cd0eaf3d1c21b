------------------------- MODULE FileSystem_proofs -------------------------
(***************************************************************************)
(* The invariants of FileSystem, for every tree, every ROM and every size  *)
(* of the arrays.  No file shares its path with a directory that was made  *)
(* because write looks for directories and mkdir for files; a file has one *)
(* slot because write looks for it before it takes a free one.  The two    *)
(* calls only keep each other's promise together, so the invariants are    *)
(* proved as one conjunction.  With them the arrays are a map and a set,   *)
(* and every call is the one FileStore specifies; a listing is what they   *)
(* hold.  What fs_resolve leaves on its stack is what the text names, for  *)
(* every text and every size of its arrays.  The last part is about the    *)
(* two editors that write into it: the view holds the cursor and the       *)
(* buffer is a text, for every file and every size of the screen.          *)
(***************************************************************************)
EXTENDS PathNames, Editor, SequenceTheorems, FiniteSetTheorems, FunctionTheorems,
        CommonLemmas, TLAPS

IInv == TypeOK /\ OneSlotPerPath /\ NoFileIsMadeDir /\ DirsDistinct

\* The first slot of a set is one of the set.
LEMMA LeastIsIn ==
  ASSUME NEW S \in SUBSET FileSlot, S # {}
  PROVE  Least(S) \in S
<1>1. S \in SUBSET Nat
  BY DEF FileSlot
<1>2. PICK m \in S : \A k \in S : m <= k
  BY <1>1, LeastOf
<1> QED BY <1>2 DEF Least

\* The slot that write chooses holds the path already or is free.
LEMMA SlotForFits ==
  ASSUME NEW p, InOverlay(p) \/ FreeSlots # {}
  PROVE  /\ SlotFor(p) \in FileSlot
         /\ InOverlay(p) => SlotFor(p) \in UsedSlots /\ files[SlotFor(p)].path = p
         /\ ~InOverlay(p) => SlotFor(p) \notin UsedSlots
<1>1. CASE InOverlay(p)
  <2>1. Least(SlotsOf(p)) \in SlotsOf(p)
    BY <1>1, LeastIsIn DEF InOverlay, SlotsOf, UsedSlots
  <2> QED BY <1>1, <2>1 DEF SlotFor, SlotsOf, UsedSlots
<1>2. CASE ~InOverlay(p)
  <2>1. Least(FreeSlots) \in FreeSlots
    BY <1>2, LeastIsIn DEF FreeSlots
  <2> QED BY <1>2, <2>1 DEF SlotFor, FreeSlots
<1> QED BY <1>1, <1>2

LEMMA InitIInv == Init => IInv
<1> SUFFICES ASSUME Init PROVE IInv
  OBVIOUS
<1>1. TypeOK
  <2>1. <<>> \in Path /\ Empty \in Data /\ MaxDirs \in Nat
    BY FsAssumption
  <2>2. NoFile \in File
    BY <2>1 DEF NoFile, File
  <2>3. dirs \in Seq(Path) /\ Len(dirs) = 0
    BY EmptySeq DEF Init
  <2> QED BY <2>1, <2>2, <2>3 DEF Init, TypeOK
<1>2. UsedSlots = {}
  BY DEF Init, UsedSlots, NoFile
<1>3. Len(dirs) = 0
  BY EmptySeq DEF Init
<1> QED BY <1>1, <1>2, <1>3 DEF IInv, OneSlotPerPath, NoFileIsMadeDir, DirsDistinct

\* write and touch: the slot array changes, the directories do not.
LEMMA WriteKeeps ==
  ASSUME IInv, NEW p \in Path, NEW d \in Data, Write(p, d)
  PROVE  IInv'
<1>0. files \in [FileSlot -> File] /\ dirs \in Seq(Path) /\ Len(dirs) <= MaxDirs
  BY DEF IInv, TypeOK
<1>1. CASE ~CanWrite(p, d)
  BY <1>1 DEF Write, Fail, IInv, TypeOK, OneSlotPerPath, NoFileIsMadeDir, DirsDistinct,
              UsedSlots, InDirs
<1>2. CASE CanWrite(p, d)
  <2> DEFINE s == SlotFor(p)
             f == [used |-> TRUE, path |-> p, data |-> d]
  <2>1. /\ s \in FileSlot
        /\ InOverlay(p) => s \in UsedSlots /\ files[s].path = p
        /\ ~InOverlay(p) => s \notin UsedSlots
    BY <1>2, SlotForFits DEF CanWrite
  <2>2. files' = [files EXCEPT ![s] = f] /\ dirs' = dirs /\ result' = "ok"
    BY <1>2 DEF Write, Put
  <2>3. f \in File
    BY DEF File
  <2> HIDE DEF s
  <2>4. \A i \in FileSlot : files'[i] = IF i = s THEN f ELSE files[i]
    BY <1>0, <2>2
  <2>5. TypeOK'
    BY <1>0, <2>1, <2>2, <2>3 DEF TypeOK
  <2>6. \A i \in FileSlot : files'[i].path = IF i = s THEN p ELSE files[i].path
    BY <2>4
  <2>7. UsedSlots' = UsedSlots \cup {s}
    BY <2>1, <2>4 DEF UsedSlots
  <2>8. \A i \in UsedSlots : files[i].path = p => i = s
    <3>1. CASE InOverlay(p)
      BY <2>1, <3>1 DEF IInv, OneSlotPerPath
    <3>2. CASE ~InOverlay(p)
      BY <3>2 DEF InOverlay, SlotsOf
    <3> QED BY <3>1, <3>2
  <2>9. OneSlotPerPath'
    BY <2>1, <2>6, <2>7, <2>8 DEF IInv, OneSlotPerPath, UsedSlots
  <2>10. p # <<>> /\ p \notin RomDir /\ ~InDirs(p)
    BY <1>2 DEF CanWrite, IsDir
  <2>11. NoFileIsMadeDir'
    BY <2>1, <2>2, <2>6, <2>7, <2>10 DEF IInv, NoFileIsMadeDir, UsedSlots, InDirs
  <2>12. DirsDistinct'
    BY <2>2 DEF IInv, DirsDistinct
  <2> QED BY <2>5, <2>9, <2>11, <2>12 DEF IInv
<1> QED BY <1>1, <1>2

LEMMA MkDirKeeps ==
  ASSUME IInv, NEW p \in Path, MkDir(p)
  PROVE  IInv'
<1>0. files \in [FileSlot -> File] /\ dirs \in Seq(Path) /\ Len(dirs) <= MaxDirs
  BY DEF IInv, TypeOK
<1>1. CASE UNCHANGED <<files, dirs>> /\ result' = "error"
  BY <1>1 DEF IInv, TypeOK, OneSlotPerPath, NoFileIsMadeDir, DirsDistinct, UsedSlots, InDirs
<1>2. CASE /\ ~Exists(p) /\ Len(dirs) < MaxDirs
           /\ dirs' = Append(dirs, p) /\ result' = "ok" /\ UNCHANGED files
  <2> DEFINE n == Len(dirs)
  <2>1. /\ dirs' \in Seq(Path) /\ Len(dirs') = n + 1 /\ n \in Nat
        /\ \A k \in 1 .. n : dirs'[k] = dirs[k]
        /\ dirs'[n + 1] = p
    BY <1>0, <1>2, AppendProperties, LenProperties
  <2>2. p # <<>> /\ p \notin RomDir /\ ~InDirs(p) /\ ~InOverlay(p)
    BY <1>2 DEF Exists, IsDir
  <2>3. TypeOK'
    BY <1>0, <1>2, <2>1, FsAssumption DEF TypeOK
  <2>4. OneSlotPerPath'
    BY <1>2 DEF IInv, OneSlotPerPath, UsedSlots
  <2>5. \A q : InDirs(q)' => InDirs(q) \/ q = p
    BY <2>1 DEF InDirs
  <2>6. \A i \in UsedSlots : files[i].path # p
    BY <2>2 DEF InOverlay, SlotsOf
  <2>7. NoFileIsMadeDir'
    BY <1>2, <2>5, <2>6 DEF IInv, NoFileIsMadeDir, UsedSlots
  <2>8. DirsDistinct'
    BY <2>1, <2>2 DEF IInv, DirsDistinct, InDirs
  <2> QED BY <2>3, <2>4, <2>7, <2>8 DEF IInv
<1> QED BY <1>1, <1>2 DEF MkDir, Fail

LEMMA RmKeeps ==
  ASSUME IInv, NEW p \in Path, Rm(p)
  PROVE  IInv'
<1>0. files \in [FileSlot -> File]
  BY DEF IInv, TypeOK
<1>1. CASE ~InOverlay(p)
  BY <1>1 DEF Rm, IInv, TypeOK, OneSlotPerPath, NoFileIsMadeDir, DirsDistinct, UsedSlots, InDirs
<1>2. CASE InOverlay(p)
  <2> DEFINE s == Least(SlotsOf(p))
  <2>1. s \in FileSlot
    BY <1>2, LeastIsIn DEF InOverlay, SlotsOf, UsedSlots
  <2> HIDE DEF s
  <2>2. files' = [files EXCEPT ![s].used = FALSE] /\ dirs' = dirs /\ result' = "ok"
    BY <1>2 DEF Rm, s
  <2>3. [files[s] EXCEPT !.used = FALSE] \in File
    BY <1>0, <2>1 DEF File
  <2>4. \A i \in FileSlot :
          files'[i] = IF i = s THEN [files[s] EXCEPT !.used = FALSE] ELSE files[i]
    BY <1>0, <2>1, <2>2
  <2>5. TypeOK'
    BY <1>0, <2>1, <2>2, <2>3 DEF IInv, TypeOK
  <2>6. UsedSlots' \subseteq UsedSlots /\ \A i \in UsedSlots' : files'[i] = files[i]
    BY <1>0, <2>1, <2>3, <2>4 DEF UsedSlots, File
  <2> QED BY <2>2, <2>5, <2>6 DEF IInv, OneSlotPerPath, NoFileIsMadeDir, DirsDistinct, InDirs
<1> QED BY <1>1, <1>2

LEMMA NextKeeps == IInv /\ [Next]_vars => IInv'
<1> SUFFICES ASSUME IInv, [Next]_vars PROVE IInv'
  OBVIOUS
<1>1. ASSUME NEW p \in Path, NEW d \in Data, Write(p, d) PROVE IInv'
  BY <1>1, WriteKeeps
<1>2. ASSUME NEW p \in Path, Touch(p) PROVE IInv'
  <2>1. CASE result' = "ok" /\ UNCHANGED <<files, dirs>>
    BY <2>1 DEF IInv, TypeOK, OneSlotPerPath, NoFileIsMadeDir, DirsDistinct, UsedSlots, InDirs
  <2>2. CASE Write(p, Empty)
    BY <2>2, WriteKeeps, FsAssumption
  <2> QED BY <1>2, <2>1, <2>2 DEF Touch
<1>3. ASSUME NEW p \in Path, MkDir(p) PROVE IInv'
  BY <1>3, MkDirKeeps
<1>4. ASSUME NEW p \in Path, Rm(p) PROVE IInv'
  BY <1>4, RmKeeps
<1>5. CASE UNCHANGED vars
  BY <1>5 DEF vars, IInv, TypeOK, OneSlotPerPath, NoFileIsMadeDir, DirsDistinct, UsedSlots, InDirs
<1> QED BY <1>1, <1>2, <1>3, <1>4, <1>5 DEF Next

LEMMA SpecIInv == Spec => []IInv
BY InitIInv, NextKeeps, PTL DEF Spec

---------------------------------------------------------------------------
\* The slots and the directory array keep their shape and their bounds.
THEOREM Typed == Spec => []TypeOK
<1>1. IInv => TypeOK
  BY DEF IInv
<1> QED BY <1>1, SpecIInv, PTL

\* No path ever has two slots: what rm removes cannot come back from another one.
THEOREM SlotIsUnique == Spec => []OneSlotPerPath
<1>1. IInv => OneSlotPerPath
  BY DEF IInv
<1> QED BY <1>1, SpecIInv, PTL

\* No overlay file has the path of the root, of a ROM directory or of a directory
\* made by mkdir.
THEOREM FileIsNoMadeDir == Spec => []NoFileIsMadeDir
<1>1. IInv => NoFileIsMadeDir
  BY DEF IInv
<1> QED BY <1>1, SpecIInv, PTL

\* mkdir never spends a second entry of fs_dirs[] on a directory.
THEOREM NoDirTwice == Spec => []DirsDistinct
<1>1. IInv => DirsDistinct
  BY DEF IInv
<1> QED BY <1>1, SpecIInv, PTL
---------------------------------------------------------------------------
(* The arrays seen as a map and a set.  What is said of the slots is said of   *)
(* any value fs of the array, so that it holds before and after a step.        *)

InUse(fs)    == {i \in FileSlot : fs[i].used}
Holding(fs, p) == {i \in InUse(fs) : fs[i].path = p}
OverlayOf(fs) == [p \in {fs[i].path : i \in InUse(fs)} |-> fs[Least(Holding(fs, p))].data]

\* No two slots in use have the same path.
Apart(fs) == \A i, j \in InUse(fs) : fs[i].path = fs[j].path => i = j

LEMMA OverlayIs ==
  /\ Overlay = OverlayOf(files) /\ Overlay' = OverlayOf(files')
  /\ UsedSlots = InUse(files) /\ UsedSlots' = InUse(files')
  /\ OneSlotPerPath <=> Apart(files)
BY DEF Overlay, OverlayOf, UsedSlots, InUse, SlotsOf, Holding, OneSlotPerPath, Apart

\* The map has the paths in use, and for each the data of its one slot.
LEMMA OverlayMaps ==
  ASSUME NEW fs, Apart(fs)
  PROVE  /\ \A p : p \in DOMAIN OverlayOf(fs) <=> \E i \in InUse(fs) : fs[i].path = p
         /\ \A i \in InUse(fs) : OverlayOf(fs)[fs[i].path] = fs[i].data
<1>1. \A p : p \in DOMAIN OverlayOf(fs) <=> \E i \in InUse(fs) : fs[i].path = p
  BY DEF OverlayOf
<1>2. ASSUME NEW i \in InUse(fs) PROVE OverlayOf(fs)[fs[i].path] = fs[i].data
  <2>1. Holding(fs, fs[i].path) \in SUBSET FileSlot /\ Holding(fs, fs[i].path) # {}
    BY DEF Holding, InUse
  <2>2. Least(Holding(fs, fs[i].path)) \in Holding(fs, fs[i].path)
    BY <2>1, LeastIsIn
  <2>3. Least(Holding(fs, fs[i].path)) = i
    BY <2>2 DEF Holding, Apart
  <2> QED BY <1>1, <2>3 DEF OverlayOf
<1> QED BY <1>1, <1>2

\* The two views agree on what there is.
LEMMA ViewsAgree ==
  ASSUME IInv, NEW p
  PROVE  /\ p \in DOMAIN Overlay <=> InOverlay(p)
         /\ p \in Made <=> InDirs(p)
         /\ Store!IsDir(p) <=> IsDir(p)
         /\ Store!HasFile(p) <=> InOverlay(p) \/ InRom(p)
<1>1. \A q : q \in DOMAIN Overlay <=> InOverlay(q)
  BY DEF Overlay, InOverlay, SlotsOf
<1>2. \A q : q \in Made <=> InDirs(q)
  BY DEF Made, InDirs
<1>3. (\E q \in DOMAIN Overlay \cup DOMAIN Rom : Store!Under(q, p)) <=> HasChildren(p)
  <2>1. \A q : Store!Under(q, p) <=> Under(q, p)
    BY DEF Under, Store!Under
  <2>2. (\E q \in DOMAIN Overlay : Under(q, p)) <=> \E i \in UsedSlots : Under(files[i].path, p)
    BY DEF Overlay
  <2> QED BY <2>1, <2>2 DEF HasChildren
<1>4. Store!IsDir(p) <=> IsDir(p)
  BY <1>2, <1>3 DEF IsDir, Store!IsDir
<1> QED BY <1>1, <1>2, <1>4 DEF Store!HasFile, InRom

\* There is room for one more file exactly when a slot is free, ...
LEMMA RoomIsFreeSlot ==
  ASSUME IInv
  PROVE  Cardinality(DOMAIN Overlay) < MaxFiles <=> FreeSlots # {}
<1>1. MaxFiles \in Nat \ {0}
  BY FsAssumption
<1>2. IsFiniteSet(FileSlot) /\ Cardinality(FileSlot) = MaxFiles
  <2>1. /\ IsFiniteSet(0 .. MaxFiles - 1)
        /\ Cardinality(0 .. MaxFiles - 1) = IF 0 > MaxFiles - 1 THEN 0 ELSE (MaxFiles - 1) - 0 + 1
    BY <1>1, FS_Interval
  <2>2. (IF 0 > MaxFiles - 1 THEN 0 ELSE (MaxFiles - 1) - 0 + 1) = MaxFiles
    BY <1>1
  <2> QED BY <2>1, <2>2 DEF FileSlot
<1>3. /\ UsedSlots \in SUBSET FileSlot /\ IsFiniteSet(UsedSlots)
      /\ Cardinality(UsedSlots) <= MaxFiles
      /\ Cardinality(UsedSlots) = MaxFiles => UsedSlots = FileSlot
      /\ Cardinality(UsedSlots) \in Nat
  <2>1. UsedSlots \in SUBSET FileSlot
    BY DEF UsedSlots
  <2> QED BY <1>2, <2>1, FS_Subset, FS_CardinalityType
<1>4. Cardinality(DOMAIN Overlay) = Cardinality(UsedSlots)
  <2> DEFINE D == DOMAIN Overlay
             f == [i \in UsedSlots |-> files[i].path]
  <2>1. D = {files[i].path : i \in UsedSlots}
    BY DEF Overlay
  <2>2. f \in [UsedSlots -> D] /\ \A d \in D : \E i \in UsedSlots : f[i] = d
    BY <2>1
  <2>3. \A i, j \in UsedSlots : f[i] = f[j] => i = j
    BY DEF IInv, OneSlotPerPath
  <2> HIDE DEF D, f
  <2>4. ExistsBijection(UsedSlots, D)
    BY <2>2, <2>3 DEF ExistsBijection, Bijection, Injection, Surjection, IsInjective
  <2>5. Cardinality(D) = Cardinality(UsedSlots)
    BY <1>3, <2>4, FS_Bijection
  <2> QED BY <2>5 DEF D
<1>5. FreeSlots # {} <=> UsedSlots # FileSlot
  BY <1>3 DEF FreeSlots
<1> QED BY <1>1, <1>2, <1>3, <1>4, <1>5

\* ... and for one more directory when an entry is.
LEMMA MadeAreDirs ==
  ASSUME IInv
  PROVE  Cardinality(Made) = Len(dirs)
<1> DEFINE n == Len(dirs)
           f == [k \in 1 .. n |-> dirs[k]]
<1>1. n \in Nat
  BY LenProperties DEF IInv, TypeOK
<1>2. IsFiniteSet(1 .. n) /\ Cardinality(1 .. n) = n
  <2>1. IsFiniteSet(1 .. n) /\ Cardinality(1 .. n) = IF 1 > n THEN 0 ELSE n - 1 + 1
    BY <1>1, FS_Interval
  <2> HIDE DEF n
  <2>2. (IF 1 > n THEN 0 ELSE n - 1 + 1) = n
    BY <1>1
  <2> QED BY <2>1, <2>2
<1>3. f \in [1 .. n -> Made] /\ \A d \in Made : \E k \in 1 .. n : f[k] = d
  BY DEF Made
<1>4. \A j, k \in 1 .. n : f[j] = f[k] => j = k
  BY DEF IInv, DirsDistinct
<1> HIDE DEF f
<1>5. ExistsBijection(1 .. n, Made)
  BY <1>3, <1>4 DEF ExistsBijection, Bijection, Injection, Surjection, IsInjective
<1> QED BY <1>2, <1>5, FS_Bijection
---------------------------------------------------------------------------
(* The refinement, call by call. *)

\* FileStore counts as FileSystem does.
LEMMA StoreCounts == \A S : Store!Cardinality(S) = Cardinality(S)
BY DEF Cardinality, Store!Cardinality

\* A call that changes no array changes neither view.
LEMMA SameArrays ==
  ASSUME UNCHANGED <<files, dirs>>
  PROVE  Overlay' = Overlay /\ Made' = Made
BY DEF Overlay, Made, UsedSlots, SlotsOf

LEMMA InitMaps == Init => Store!Init
<1> SUFFICES ASSUME Init PROVE Store!Init
  OBVIOUS
<1>1. UsedSlots = {}
  BY DEF Init, UsedSlots, NoFile
<1>2. Overlay = [p \in {} |-> Empty]
  BY <1>1 DEF Overlay
<1>3. Len(dirs) = 0
  BY EmptySeq DEF Init
<1>4. Made = {}
  BY <1>3 DEF Made
<1> QED BY <1>2, <1>4 DEF Init, Store!Init

\* Written to the slot of p, or to a free one, d is what the map has for p, and
\* nothing else of the map has changed.
LEMMA PutMaps ==
  ASSUME IInv, IInv', NEW p \in Path, NEW d \in Data, CanWrite(p, d), Put(SlotFor(p), p, d)
  PROVE  Overlay' = [q \in DOMAIN Overlay \cup {p} |-> IF q = p THEN d ELSE Overlay[q]]
<1> DEFINE s == SlotFor(p)
           new == files'
<1>1. /\ s \in FileSlot
      /\ InOverlay(p) => s \in UsedSlots /\ files[s].path = p
      /\ ~InOverlay(p) => s \notin UsedSlots
  BY SlotForFits DEF CanWrite
<1>2. files \in [FileSlot -> File]
  BY DEF IInv, TypeOK
<1>3. \A i \in FileSlot :
        new[i] = IF i = s THEN [used |-> TRUE, path |-> p, data |-> d] ELSE files[i]
  BY <1>2 DEF Put
<1>4. Overlay' = OverlayOf(new) /\ Overlay = OverlayOf(files) /\ UsedSlots = InUse(files)
  BY OverlayIs
<1>5. Apart(files)
  BY OverlayIs DEF IInv
<1>6. Apart(new)
  BY DEF IInv, OneSlotPerPath, Apart, UsedSlots, InUse
<1> HIDE DEF s, new
<1>7. InUse(new) = InUse(files) \cup {s} /\ new[s].path = p /\ new[s].data = d
  BY <1>1, <1>3 DEF InUse
<1>8. \A i \in InUse(files) : i # s => new[i] = files[i] /\ files[i].path # p
  <2>1. \A i \in InUse(files) : i # s => new[i] = files[i]
    BY <1>3 DEF InUse
  <2>2. \A i \in InUse(files) : i # s => files[i].path # p
    BY <1>6, <1>7, <2>1 DEF Apart
  <2> QED BY <2>1, <2>2
<1>9. s \in InUse(files) => files[s].path = p
  BY <1>1, <1>4
<1> DEFINE O == OverlayOf(files)
           N == OverlayOf(new)
<1>10. /\ \A q : q \in DOMAIN O <=> \E i \in InUse(files) : files[i].path = q
       /\ \A i \in InUse(files) : O[files[i].path] = files[i].data
  BY <1>5, OverlayMaps
<1>11. /\ \A q : q \in DOMAIN N <=> \E i \in InUse(new) : new[i].path = q
       /\ \A i \in InUse(new) : N[new[i].path] = new[i].data
  BY <1>6, OverlayMaps
<1>12. N = [q \in DOMAIN N |-> N[q]]
  BY DEF OverlayOf
<1> HIDE DEF O, N
<1>13. DOMAIN N = DOMAIN O \cup {p}
  <2>1. \A i \in InUse(new) : i = s \/ (i \in InUse(files) /\ new[i].path = files[i].path)
    BY <1>7, <1>8
  <2>2. \A i \in InUse(files) : new[i].path = files[i].path
    BY <1>7, <1>8, <1>9
  <2>3. \A q : q \in DOMAIN N <=> q \in DOMAIN O \/ q = p
    BY <1>7, <1>10, <1>11, <2>1, <2>2
  <2> QED BY <2>3
<1>14. N[p] = d
  BY <1>7, <1>11
<1>15. ASSUME NEW q \in DOMAIN O, q # p PROVE N[q] = O[q]
  <2>1. PICK i \in InUse(files) : files[i].path = q
    BY <1>10
  <2>2. i # s
    BY <1>9, <1>15, <2>1
  <2>3. i \in InUse(new) /\ new[i] = files[i]
    BY <1>7, <1>8, <2>2
  <2> QED BY <1>10, <1>11, <2>1, <2>3
<1>16. N = [q \in DOMAIN O \cup {p} |-> IF q = p THEN d ELSE O[q]]
  BY <1>12, <1>13, <1>14, <1>15
<1> QED BY <1>4, <1>16 DEF O, N

LEMMA WriteMaps ==
  ASSUME IInv, IInv', NEW p \in Path, NEW d \in Data, Write(p, d)
  PROVE  Store!Write(p, d)
<1>1. CanWrite(p, d) <=> Store!CanStore(p, d)
  BY ViewsAgree, RoomIsFreeSlot, StoreCounts DEF CanWrite, Store!CanStore
<1>2. CASE CanWrite(p, d)
  <2>1. Put(SlotFor(p), p, d)
    BY <1>2 DEF Write
  <2>2. Made' = Made /\ result' = "ok"
    BY <2>1 DEF Put, Made
  <2> QED BY <1>1, <1>2, <2>1, <2>2, PutMaps DEF Store!Write, Store!Store
<1>3. CASE ~CanWrite(p, d)
  BY <1>1, <1>3, SameArrays DEF Write, Fail, Store!Write, Store!Fail
<1> QED BY <1>2, <1>3

LEMMA TouchMaps ==
  ASSUME IInv, IInv', NEW p \in Path, Touch(p)
  PROVE  Store!Touch(p)
<1>1. Empty \in Data
  BY FsAssumption
<1>2. Store!HasFile(p) <=> InOverlay(p) \/ InRom(p)
  BY ViewsAgree
<1>3. CASE InOverlay(p) \/ InRom(p)
  BY <1>2, <1>3, SameArrays DEF Touch, Store!Touch
<1>4. CASE ~(InOverlay(p) \/ InRom(p))
  BY <1>1, <1>2, <1>4, WriteMaps DEF Touch, Store!Touch
<1> QED BY <1>3, <1>4

LEMMA MkDirMaps ==
  ASSUME IInv, IInv', NEW p \in Path, MkDir(p)
  PROVE  Store!MkDir(p)
<1>1. Exists(p) <=> Store!HasFile(p) \/ Store!IsDir(p)
  BY ViewsAgree DEF Exists
<1>2. Store!Parent(p) = Parent(p)
  BY DEF Parent, Store!Parent
<1>3. IsDir(Parent(p)) <=> Store!IsDir(Store!Parent(p))
  BY <1>2, ViewsAgree
<1>4. Store!Cardinality(Made) = Len(dirs)
  BY MadeAreDirs, StoreCounts
<1>5. CASE ~Exists(p) /\ IsDir(Parent(p)) /\ Len(dirs) < MaxDirs
  <2>1. dirs' = Append(dirs, p) /\ result' = "ok" /\ UNCHANGED files
    BY <1>5 DEF MkDir
  <2>2. Overlay' = Overlay
    BY <2>1 DEF Overlay, UsedSlots, SlotsOf
  <2> DEFINE n == Len(dirs)
  <2>3. /\ Len(dirs') = n + 1 /\ n \in Nat
        /\ \A k \in 1 .. n : dirs'[k] = dirs[k]
        /\ dirs'[n + 1] = p
    BY <2>1, AppendProperties, LenProperties DEF IInv, TypeOK
  <2>4. Made' = {dirs'[k] : k \in 1 .. Len(dirs')} /\ Made = {dirs[k] : k \in 1 .. n}
    BY DEF Made
  <2> HIDE DEF n
  <2>5. Made' = Made \cup {p}
    <3>1. \A k : k \in 1 .. Len(dirs') <=> k \in 1 .. n \/ k = n + 1
      BY <2>3
    <3> QED BY <2>3, <2>4, <3>1
  <2> QED BY <1>1, <1>3, <1>4, <1>5, <2>1, <2>2, <2>5 DEF Store!MkDir
<1>6. CASE ~(~Exists(p) /\ IsDir(Parent(p)) /\ Len(dirs) < MaxDirs)
  BY <1>1, <1>3, <1>4, <1>6, SameArrays DEF MkDir, Fail, Store!MkDir, Store!Fail
<1> QED BY <1>5, <1>6

\* The slot that rm frees was the only one with p.
LEMMA RmMaps ==
  ASSUME IInv, IInv', NEW p \in Path, Rm(p)
  PROVE  Store!Rm(p)
<1>1. p \in DOMAIN Overlay <=> InOverlay(p)
  BY ViewsAgree
<1>2. CASE ~InOverlay(p)
  BY <1>1, <1>2, SameArrays DEF Rm, Store!Rm, InRom
<1>3. CASE InOverlay(p)
  <2> DEFINE s == Least(SlotsOf(p))
             new == files'
  <2>1. s \in UsedSlots /\ files[s].path = p
    BY <1>3, LeastIsIn DEF InOverlay, SlotsOf, UsedSlots
  <2>2. new = [files EXCEPT ![s].used = FALSE] /\ dirs' = dirs /\ result' = "ok"
    BY <1>3 DEF Rm
  <2>3. files \in [FileSlot -> File]
    BY DEF IInv, TypeOK
  <2>4. Overlay' = OverlayOf(new) /\ Overlay = OverlayOf(files) /\ UsedSlots = InUse(files)
    BY OverlayIs
  <2>5. Apart(files)
    BY OverlayIs DEF IInv
  <2>6. Apart(new)
    BY DEF IInv, OneSlotPerPath, Apart, UsedSlots, InUse
  <2> HIDE DEF s, new
  <2>7. s \in FileSlot
    BY <2>1 DEF UsedSlots
  <2>8. InUse(new) = InUse(files) \ {s} /\ \A i \in InUse(new) : new[i] = files[i]
    <3>1. [files[s] EXCEPT !.used = FALSE].used = FALSE
      BY <2>3, <2>7 DEF File
    <3>2. \A i \in FileSlot :
            new[i] = IF i = s THEN [files[s] EXCEPT !.used = FALSE] ELSE files[i]
      BY <2>2, <2>3, <2>7
    <3> QED BY <2>7, <3>1, <3>2 DEF InUse
  <2>9. \A i \in InUse(files) : i # s => files[i].path # p
    BY <2>1, <2>4, <2>5 DEF Apart
  <2> DEFINE O == OverlayOf(files)
             N == OverlayOf(new)
  <2>10. /\ \A q : q \in DOMAIN O <=> \E i \in InUse(files) : files[i].path = q
         /\ \A i \in InUse(files) : O[files[i].path] = files[i].data
    BY <2>5, OverlayMaps
  <2>11. /\ \A q : q \in DOMAIN N <=> \E i \in InUse(new) : new[i].path = q
         /\ \A i \in InUse(new) : N[new[i].path] = new[i].data
    BY <2>6, OverlayMaps
  <2>12. N = [q \in DOMAIN N |-> N[q]]
    BY DEF OverlayOf
  <2> HIDE DEF O, N
  <2>13. DOMAIN N = DOMAIN O \ {p}
    <3>1. \A i \in InUse(new) : new[i] = files[i] /\ files[i].path # p
      BY <2>8, <2>9
    <3>2. \A i \in InUse(files) : files[i].path # p => i \in InUse(new)
      BY <2>1, <2>8
    <3>3. \A q : q \in DOMAIN N <=> q \in DOMAIN O /\ q # p
      BY <2>8, <2>10, <2>11, <3>1, <3>2
    <3> QED BY <3>3
  <2>14. \A q \in DOMAIN N : N[q] = O[q]
    BY <2>8, <2>10, <2>11
  <2>15. Overlay' = [q \in DOMAIN Overlay \ {p} |-> Overlay[q]]
    BY <2>4, <2>12, <2>13, <2>14 DEF O, N
  <2>16. Made' = Made
    BY <2>2 DEF Made
  <2> QED BY <1>1, <1>3, <2>2, <2>15, <2>16 DEF Store!Rm
<1> QED BY <1>2, <1>3

LEMMA NextMaps == IInv /\ IInv' /\ [Next]_vars => [Store!Next]_(Store!vars)
<1> SUFFICES ASSUME IInv, IInv', [Next]_vars PROVE [Store!Next]_(Store!vars)
  OBVIOUS
<1>1. ASSUME NEW p \in Path, NEW d \in Data, Write(p, d) PROVE Store!Next
  BY <1>1, WriteMaps DEF Store!Next
<1>2. ASSUME NEW p \in Path, Touch(p) PROVE Store!Next
  BY <1>2, TouchMaps DEF Store!Next
<1>3. ASSUME NEW p \in Path, MkDir(p) PROVE Store!Next
  BY <1>3, MkDirMaps DEF Store!Next
<1>4. ASSUME NEW p \in Path, Rm(p) PROVE Store!Next
  BY <1>4, RmMaps DEF Store!Next
<1>5. ASSUME UNCHANGED vars PROVE UNCHANGED Store!vars
  BY <1>5, SameArrays DEF vars, Store!vars
<1> QED BY <1>1, <1>2, <1>3, <1>4, <1>5 DEF Next

\* Whatever calls are made, in whatever order, the two arrays of fs.c behave as
\* the map and the set of FileStore: each call does all it says or fails for a
\* reason FileStore lists, and a full array is the only limit there is.
THEOREM Implements == Spec => StoreSpec
BY InitMaps, NextMaps, SpecIInv, PTL DEF Spec, StoreSpec, Store!Spec

---------------------------------------------------------------------------
(* The listing of a directory.  That it is exact needs the arrays to have  *)
(* their types and nothing else: the entries the four loops come by are    *)
(* those there are, each round adds the name of its entry and no other.    *)

Name == UNION {{p[k] : k \in DOMAIN p} : p \in Path}
Entry == [path : Path, made : BOOLEAN, skip : BOOLEAN]

\* What the loops come by is what there is.
IsEntry(e) ==
  \/ e.path \in DOMAIN Rom /\ ~e.made /\ (e.skip <=> InOverlay(e.path))
  \/ ~e.made /\ \E i \in FileSlot : e.path = files[i].path /\ e.skip = ~files[i].used
  \/ e.made /\ ~e.skip /\ (InDirs(e.path) \/ e.path \in RomDir)

LEMMA EntriesAre ==
  ASSUME TypeOK
  PROVE  Entries \in Seq(Entry) /\ Range(Entries) = {e \in Entry : IsEntry(e)}
<1> DEFINE A == [k \in 1 .. Len(RomTable) |-> [path |-> RomTable[k], made |-> FALSE, skip |-> InOverlay(RomTable[k])]]
           B == [k \in 1 .. MaxFiles |-> [path |-> files[k - 1].path, made |-> FALSE, skip |-> ~files[k - 1].used]]
           C == [k \in 1 .. Len(dirs) |-> [path |-> dirs[k], made |-> TRUE, skip |-> FALSE]]
           D == [k \in 1 .. Len(RomDirs) |-> [path |-> RomDirs[k], made |-> TRUE, skip |-> FALSE]]
<1>1. /\ Len(RomTable) \in Nat /\ DOMAIN RomTable = 1 .. Len(RomTable) /\ \A k \in 1 .. Len(RomTable) : RomTable[k] \in Path
      /\ Len(RomDirs) \in Nat /\ DOMAIN RomDirs = 1 .. Len(RomDirs) /\ \A k \in 1 .. Len(RomDirs) : RomDirs[k] \in Path
  BY ListingAssumption, LenProperties, ElementOfSeq
<1>2. Len(dirs) \in Nat /\ \A k \in 1 .. Len(dirs) : dirs[k] \in Path
  BY LenProperties, ElementOfSeq DEF TypeOK
<1>3. /\ MaxFiles \in Nat /\ \A k \in 1 .. MaxFiles : k - 1 \in FileSlot
      /\ \A i \in FileSlot : i + 1 \in 1 .. MaxFiles /\ (i + 1) - 1 = i
      /\ \A i \in FileSlot : files[i].path \in Path /\ files[i].used \in BOOLEAN
  BY FsAssumption DEF TypeOK, FileSlot, File
<1>4. A \in Seq(Entry) /\ \A e : e \in Range(A) <=> \E k \in 1 .. Len(RomTable) : e = A[k]
  <2>1. \A p : InOverlay(p) \in BOOLEAN
    BY DEF InOverlay
  <2>2. \A k \in 1 .. Len(RomTable) : A[k] \in Entry
    BY <1>1, <2>1 DEF Entry
  <2> QED BY <1>1, <2>2, SeqDef DEF Range
<1>5. B \in Seq(Entry) /\ \A e : e \in Range(B) <=> \E k \in 1 .. MaxFiles : e = B[k]
  <2>1. \A k \in 1 .. MaxFiles : B[k] \in Entry
    BY <1>3 DEF Entry
  <2> QED BY <1>3, <2>1, SeqDef DEF Range
<1>6. C \in Seq(Entry) /\ \A e : e \in Range(C) <=> \E k \in 1 .. Len(dirs) : e = C[k]
  <2>1. \A k \in 1 .. Len(dirs) : C[k] \in Entry
    BY <1>2 DEF Entry
  <2> QED BY <1>2, <2>1, SeqDef DEF Range
<1>7. D \in Seq(Entry) /\ \A e : e \in Range(D) <=> \E k \in 1 .. Len(RomDirs) : e = D[k]
  <2>1. \A k \in 1 .. Len(RomDirs) : D[k] \in Entry
    BY <1>1 DEF Entry
  <2> QED BY <1>1, <2>1, SeqDef DEF Range
<1>8. Entries = A \o B \o C \o D
  BY DEF Entries
<1>9. \A e : e \in Range(A) <=> e \in Entry /\ e.path \in DOMAIN Rom /\ ~e.made /\ (e.skip <=> InOverlay(e.path))
  <2>1. ASSUME NEW e, e \in Range(A) PROVE e \in Entry /\ e.path \in DOMAIN Rom /\ ~e.made /\ (e.skip <=> InOverlay(e.path))
    <3>1. PICK k \in 1 .. Len(RomTable) : e = A[k]
      BY <1>4, <2>1
    <3>2. A[k] = [path |-> RomTable[k], made |-> FALSE, skip |-> InOverlay(RomTable[k])] /\ RomTable[k] \in DOMAIN Rom
      BY <1>1, ListingAssumption
    <3>3. e \in Entry
      BY <1>4, <2>1, RangeOfSeq
    <3> QED BY <3>1, <3>2, <3>3
  <2>2. ASSUME NEW e \in Entry, e.path \in DOMAIN Rom, ~e.made, e.skip <=> InOverlay(e.path) PROVE e \in Range(A)
    <3>1. PICK k \in 1 .. Len(RomTable) : RomTable[k] = e.path
      BY <1>1, <2>2, ListingAssumption
    <3>2. e = [path |-> e.path, made |-> FALSE, skip |-> InOverlay(e.path)]
      BY <2>2 DEF Entry, InOverlay
    <3>3. e = A[k]
      BY <3>1, <3>2
    <3> QED BY <1>4, <3>3
  <2> QED BY <2>1, <2>2
<1>10. \A e : e \in Range(B) <=> e \in Entry /\ ~e.made /\ \E i \in FileSlot : e.path = files[i].path /\ e.skip = ~files[i].used
  <2>1. ASSUME NEW e, e \in Range(B) PROVE e \in Entry /\ ~e.made /\ \E i \in FileSlot : e.path = files[i].path /\ e.skip = ~files[i].used
    <3>1. PICK k \in 1 .. MaxFiles : e = B[k]
      BY <1>5, <2>1
    <3>2. B[k] = [path |-> files[k - 1].path, made |-> FALSE, skip |-> ~files[k - 1].used] /\ k - 1 \in FileSlot
      BY <1>3
    <3>3. e \in Entry
      BY <1>5, <2>1, RangeOfSeq
    <3> QED BY <3>1, <3>2, <3>3
  <2>2. ASSUME NEW e \in Entry, ~e.made, NEW i \in FileSlot, e.path = files[i].path, e.skip = ~files[i].used PROVE e \in Range(B)
    <3>1. e = [path |-> files[i].path, made |-> FALSE, skip |-> ~files[i].used]
      BY <2>2 DEF Entry
    <3>2. i + 1 \in 1 .. MaxFiles /\ B[i + 1] = [path |-> files[i].path, made |-> FALSE, skip |-> ~files[i].used]
      BY <1>3
    <3> QED BY <1>5, <3>1, <3>2
  <2> QED BY <2>1, <2>2
<1>11. \A e : e \in Range(C) <=> e \in Entry /\ e.made /\ ~e.skip /\ InDirs(e.path)
  <2>1. ASSUME NEW e, e \in Range(C) PROVE e \in Entry /\ e.made /\ ~e.skip /\ InDirs(e.path)
    <3>1. PICK k \in 1 .. Len(dirs) : e = C[k]
      BY <1>6, <2>1
    <3>2. C[k] = [path |-> dirs[k], made |-> TRUE, skip |-> FALSE]
      OBVIOUS
    <3>3. e \in Entry
      BY <1>6, <2>1, RangeOfSeq
    <3> QED BY <3>1, <3>2, <3>3 DEF InDirs
  <2>2. ASSUME NEW e \in Entry, e.made, ~e.skip, InDirs(e.path) PROVE e \in Range(C)
    <3>1. PICK k \in 1 .. Len(dirs) : dirs[k] = e.path
      BY <2>2 DEF InDirs
    <3>2. e = [path |-> e.path, made |-> TRUE, skip |-> FALSE]
      BY <2>2 DEF Entry
    <3>3. e = C[k]
      BY <3>1, <3>2
    <3> QED BY <1>6, <3>3
  <2> QED BY <2>1, <2>2
<1>12. \A e : e \in Range(D) <=> e \in Entry /\ e.made /\ ~e.skip /\ e.path \in RomDir
  <2>1. ASSUME NEW e, e \in Range(D) PROVE e \in Entry /\ e.made /\ ~e.skip /\ e.path \in RomDir
    <3>1. PICK k \in 1 .. Len(RomDirs) : e = D[k]
      BY <1>7, <2>1
    <3>2. D[k] = [path |-> RomDirs[k], made |-> TRUE, skip |-> FALSE] /\ RomDirs[k] \in RomDir
      BY <1>1, ListingAssumption
    <3>3. e \in Entry
      BY <1>7, <2>1, RangeOfSeq
    <3> QED BY <3>1, <3>2, <3>3
  <2>2. ASSUME NEW e \in Entry, e.made, ~e.skip, e.path \in RomDir PROVE e \in Range(D)
    <3>1. PICK k \in 1 .. Len(RomDirs) : RomDirs[k] = e.path
      BY <1>1, <2>2, ListingAssumption
    <3>2. e = [path |-> e.path, made |-> TRUE, skip |-> FALSE]
      BY <2>2 DEF Entry
    <3>3. e = D[k]
      BY <3>1, <3>2
    <3> QED BY <1>7, <3>3
  <2> QED BY <2>1, <2>2
<1> HIDE DEF A, B, C, D
<1>13. A \in Seq(Entry) /\ B \in Seq(Entry) /\ C \in Seq(Entry) /\ D \in Seq(Entry)
  BY <1>4, <1>5, <1>6, <1>7
<1> DEFINE AB == A \o B
           ABC == AB \o C
<1>14. AB \in Seq(Entry) /\ Range(AB) = Range(A) \cup Range(B)
  BY <1>13, ConcatProperties, RangeConcatenation
<1> HIDE DEF AB
<1>15. ABC \in Seq(Entry) /\ Range(ABC) = Range(AB) \cup Range(C)
  BY <1>13, <1>14, ConcatProperties, RangeConcatenation
<1> HIDE DEF ABC
<1>16. ABC \o D \in Seq(Entry) /\ Range(ABC \o D) = Range(ABC) \cup Range(D)
  BY <1>13, <1>15, ConcatProperties, RangeConcatenation
<1>17. Entries \in Seq(Entry) /\ Range(Entries) = Range(A) \cup Range(B) \cup Range(C) \cup Range(D)
  BY <1>8, <1>14, <1>15, <1>16 DEF AB, ABC
<1>18. ASSUME NEW e PROVE e \in Range(Entries) <=> e \in Entry /\ IsEntry(e)
  <2>1. e \in Range(Entries) <=> e \in Range(A) \/ e \in Range(B) \/ e \in Range(C) \/ e \in Range(D)
    BY <1>17
  <2>2. e \in Range(A) <=> e \in Entry /\ e.path \in DOMAIN Rom /\ ~e.made /\ (e.skip <=> InOverlay(e.path))
    BY <1>9
  <2>3. e \in Range(B) <=> e \in Entry /\ ~e.made /\ \E i \in FileSlot : e.path = files[i].path /\ e.skip = ~files[i].used
    BY <1>10
  <2>4. e \in Range(C) <=> e \in Entry /\ e.made /\ ~e.skip /\ InDirs(e.path)
    BY <1>11
  <2>5. e \in Range(D) <=> e \in Entry /\ e.made /\ ~e.skip /\ e.path \in RomDir
    BY <1>12
  <2>6. IsEntry(e) <=> \/ e.path \in DOMAIN Rom /\ ~e.made /\ (e.skip <=> InOverlay(e.path))
                       \/ ~e.made /\ \E i \in FileSlot : e.path = files[i].path /\ e.skip = ~files[i].used
                       \/ e.made /\ ~e.skip /\ (InDirs(e.path) \/ e.path \in RomDir)
    BY Zenon DEF IsEntry
  <2> QED BY <2>1, <2>2, <2>3, <2>4, <2>5, <2>6, Zenon
<1>19. Range(Entries) = {e \in Entry : IsEntry(e)}
  BY <1>18, Zenon
<1> QED BY <1>17, <1>19
Item == [name : Name, dir : BOOLEAN]
Listed == [seen : Seq(Name), out : Seq(Item)]
NamesOf(s) == {s[k].name : k \in DOMAIN s}

\* A name that is dropped has been listed, and no other name is added.
LEMMA EmitAdds ==
  ASSUME NEW acc \in Listed, NEW c \in Item, Range(acc.seen) \subseteq NamesOf(acc.out)
  PROVE  /\ EmitUnique(acc, c) \in Listed
         /\ NamesOf(EmitUnique(acc, c).out) = NamesOf(acc.out) \cup {c.name}
         /\ Range(EmitUnique(acc, c).seen) \subseteq NamesOf(EmitUnique(acc, c).out)
<1>1. acc.seen \in Seq(Name) /\ acc.out \in Seq(Item) /\ c.name \in Name
  BY DEF Listed, Item
<1>2. CASE \E k \in DOMAIN acc.seen : acc.seen[k] = c.name
  <2>1. EmitUnique(acc, c) = acc
    BY <1>2 DEF EmitUnique
  <2>2. c.name \in Range(acc.seen)
    BY <1>2 DEF Range
  <2> QED BY <2>1, <2>2
<1>3. CASE ~\E k \in DOMAIN acc.seen : acc.seen[k] = c.name
  <2> DEFINE r == EmitUnique(acc, c)
  <2>1. /\ r.out = Append(acc.out, c) /\ r.seen \in {acc.seen, Append(acc.seen, c.name)}
        /\ r = [seen |-> r.seen, out |-> r.out]
    BY <1>3 DEF EmitUnique
  <2> HIDE DEF r
  <2>2. /\ r.out \in Seq(Item) /\ DOMAIN r.out = 1 .. Len(acc.out) + 1 /\ r.out[Len(acc.out) + 1] = c
        /\ \A k \in 1 .. Len(acc.out) : r.out[k] = acc.out[k]
        /\ DOMAIN acc.out = 1 .. Len(acc.out) /\ Len(acc.out) \in Nat
    BY <1>1, <2>1, AppendProperties, LenProperties
  <2>3. NamesOf(r.out) = NamesOf(acc.out) \cup {c.name}
    <3>1. \A k : k \in DOMAIN r.out <=> k \in DOMAIN acc.out \/ k = Len(acc.out) + 1
      BY <2>2
    <3>2. \A k \in DOMAIN acc.out : r.out[k].name = acc.out[k].name
      BY <2>2
    <3>3. r.out[Len(acc.out) + 1].name = c.name
      BY <2>2
    <3> QED BY <3>1, <3>2, <3>3, Zenon DEF NamesOf
  <2>4. r.seen \in Seq(Name) /\ Range(r.seen) \subseteq Range(acc.seen) \cup {c.name}
    <3>1. CASE r.seen = acc.seen
      BY <1>1, <3>1
    <3>2. CASE r.seen = Append(acc.seen, c.name)
      <4> DEFINE s == acc.seen
                 t == Append(s, c.name)
      <4>1. /\ t \in Seq(Name) /\ DOMAIN t = 1 .. Len(s) + 1 /\ t[Len(s) + 1] = c.name
            /\ \A k \in 1 .. Len(s) : t[k] = s[k]
            /\ DOMAIN s = 1 .. Len(s) /\ Len(s) \in Nat
        BY <1>1, AppendProperties, LenProperties
      <4> HIDE DEF t
      <4>2. Range(t) \subseteq Range(s) \cup {c.name}
        BY <4>1 DEF Range
      <4> QED BY <3>2, <4>1, <4>2 DEF t
    <3> QED BY <2>1, <3>1, <3>2
  <2>5. r \in Listed
    BY <2>1, <2>2, <2>4 DEF Listed
  <2>6. Range(r.seen) \subseteq NamesOf(r.out)
    BY <2>3, <2>4
  <2> QED BY <2>3, <2>5, <2>6 DEF r
<1> QED BY <1>2, <1>3

\* The name of an entry inside a directory.
LEMMA ChildIs ==
  ASSUME NEW e \in Entry, NEW dir \in Path, IsInside(e, dir)
  PROVE  Child(e, dir) \in Item /\ Child(e, dir).name = e.path[Len(dir) + 1]
<1>1. e.path \in Seq(UNION {{p[k] : k \in DOMAIN p} : p \in Path}) /\ dir \in Seq(UNION {{p[k] : k \in DOMAIN p} : p \in Path}) /\ e.path \in Path
  BY FsAssumption DEF Entry
<1>2. Len(e.path) > Len(dir) /\ Len(dir) \in Nat /\ Len(e.path) \in Nat /\ DOMAIN e.path = 1 .. Len(e.path)
  BY <1>1, LenProperties DEF IsInside, Under
<1>3. Len(dir) + 1 \in DOMAIN e.path
  BY <1>2
<1>4. e.path[Len(dir) + 1] \in Name
  BY <1>1, <1>3 DEF Name
<1>5. (e.made \/ Len(e.path) > Len(dir) + 1) \in BOOLEAN
  OBVIOUS
<1> QED BY <1>4, <1>5 DEF Child, Item

\* The names of a listing are those of the entries inside the directory, although
\* seen[] forgets: a name it has no room for is listed again.
LEMMA NamesAre ==
  ASSUME TypeOK, NEW dir \in Path
  PROVE  Names(dir) = {e.path[Len(dir) + 1] : e \in {f \in Range(Entries) : IsInside(f, dir)}}
<1> DEFINE N == Len(Entries)
           E == Entries
           c(n) == Child(E[n], dir)
           step(s, n) == IF IsInside(E[n], dir) THEN EmitUnique(s, c(n)) ELSE s
           base == [seen |-> <<>>, out |-> <<>>]
           Good == {s \in Listed : Range(s.seen) \subseteq NamesOf(s.out)}
           g == [x \in Good \X (1 .. N) |-> step(x[1], x[2])]
           Loop(f) == f = [k \in 0 .. N |-> IF k = 0 THEN base
                                            ELSE IF IsInside(E[k], dir) THEN EmitUnique(f[k - 1], Child(E[k], dir))
                                            ELSE f[k - 1]]
<1>1. N \in Nat /\ E \in Seq(Entry) /\ DOMAIN E = 1 .. N /\ \A n \in 1 .. N : E[n] \in Entry
  BY EntriesAre, LenProperties, ElementOfSeq
<1>2. \A n \in 1 .. N : IsInside(E[n], dir) => c(n) \in Item /\ c(n).name = E[n].path[Len(dir) + 1]
  BY <1>1, ChildIs
<1>3. \A n \in 1 .. N : \A s \in Good : IsInside(E[n], dir) =>
        EmitUnique(s, c(n)) \in Good /\ NamesOf(EmitUnique(s, c(n)).out) = NamesOf(s.out) \cup {c(n).name}
  <2> HIDE DEF N, E, c
  <2> QED BY <1>2, EmitAdds
<1>4. base \in Good
  <2>1. <<>> \in Seq(Name) /\ <<>> \in Seq(Item) /\ Range(<<>>) = {}
    BY EmptySeq DEF Range
  <2> QED BY <2>1 DEF Listed
<1> HIDE DEF N, E, c, Good, base
<1>5. g \in [Good \X (1 .. N) -> Good]
  BY <1>3
<1>6. \A s \in Good, n \in 1 .. N : g[<<s, n>>] = step(s, n)
  BY DEF g
<1> HIDE DEF g
<1>7. PICK f : Rounds(N, Good, base, g, f)
  BY <1>1, <1>4, <1>5, CountedLoop
<1>8. f \in [0 .. N -> Good] /\ f[0] = base /\ \A n \in 1 .. N : f[n] = step(f[n - 1], n)
  <2>1. f \in [0 .. N -> Good] /\ f[0] = base /\ \A n \in 1 .. N : f[n] = g[<<f[n - 1], n>>]
    BY <1>7 DEF Rounds
  <2>2. \A n \in 1 .. N : n - 1 \in 0 .. N
    BY <1>1
  <2>3. \A n \in 1 .. N : f[n - 1] \in Good
    BY <2>1, <2>2
  <2> HIDE DEF step
  <2> QED BY <2>1, <2>3, <1>6
<1>9. Loop(f)
  <2>1. \A k \in 0 .. N : k # 0 => k \in 1 .. N
    BY <1>1
  <2>2. \A k \in 0 .. N : f[k] = IF k = 0 THEN base
                                 ELSE IF IsInside(E[k], dir) THEN EmitUnique(f[k - 1], Child(E[k], dir))
                                 ELSE f[k - 1]
    BY <1>8, <2>1 DEF c
  <2> QED BY <1>8, <2>2
<1>10. ASSUME NEW h, Loop(h) PROVE /\ h[N] \in Good
                                   /\ NamesOf(h[N].out) = {c(n).name : n \in {m \in 1 .. N : IsInside(E[m], dir)}}
  <2> DEFINE Before(k) == {c(n).name : n \in {m \in 1 .. k : IsInside(E[m], dir)}}
             T == {k \in 0 .. N : h[k] \in Good /\ NamesOf(h[k].out) = Before(k)}
  <2>1. h[0] = base /\ \A k \in 1 .. N : h[k] = step(h[k - 1], k)
    BY <1>1, <1>10 DEF c
  <2>2. 0 \in T
    <3>1. NamesOf(base.out) = {} /\ Before(0) = {}
      BY DEF NamesOf, base
    <3> QED BY <1>1, <1>4, <2>1, <3>1
  <2>3. ASSUME NEW k \in 1 .. N, k - 1 \in T PROVE k \in T
    <3>1. h[k - 1] \in Good /\ NamesOf(h[k - 1].out) = Before(k - 1) /\ h[k] = step(h[k - 1], k)
      BY <2>1, <2>3
    <3>2. \A m : m \in 1 .. k <=> m \in 1 .. k - 1 \/ m = k
      BY <1>1
    <3>3. CASE IsInside(E[k], dir)
      <4>1. Before(k) = Before(k - 1) \cup {c(k).name}
        BY <3>2, <3>3
      <4>2. h[k] \in Good /\ NamesOf(h[k].out) = Before(k - 1) \cup {c(k).name}
        <5> HIDE DEF Before
        <5> QED BY <1>3, <3>1, <3>3
      <4> QED BY <1>1, <4>1, <4>2
    <3>4. CASE ~IsInside(E[k], dir)
      <4>1. Before(k) = Before(k - 1)
        BY <3>2, <3>4
      <4>2. h[k] = h[k - 1]
        BY <3>1, <3>4
      <4> QED BY <1>1, <3>1, <4>1, <4>2
    <3> QED BY <3>3, <3>4
  <2> HIDE DEF T
  <2>4. \A k \in 0 .. N : k \in T
    BY <1>1, <2>2, <2>3, UpTo
  <2>5. N \in T
    BY <1>1, <2>4
  <2> QED BY <2>5 DEF T
<1>11. PICK h : Loop(h) /\ List(dir) = h[N].out
  BY <1>9, Zenon DEF List, N, E, base
<1>12. Names(dir) = NamesOf(h[N].out)
  BY <1>11 DEF Names, NamesOf
<1>13. NamesOf(h[N].out) = {c(n).name : n \in {m \in 1 .. N : IsInside(E[m], dir)}}
  BY <1>10, <1>11
<1>14. \A e : e \in Range(Entries) <=> \E n \in 1 .. N : e = E[n]
  BY <1>1 DEF Range, E
<1>15. {c(n).name : n \in {m \in 1 .. N : IsInside(E[m], dir)}}
         = {e.path[Len(dir) + 1] : e \in {f1 \in Range(Entries) : IsInside(f1, dir)}}
  BY <1>2, <1>14
<1> QED BY <1>12, <1>13, <1>15

\* The path of a child, and the name it has there.
LEMMA ChildPath ==
  ASSUME NEW p \in Path, NEW dir \in Path, Under(p, dir)
  PROVE  LET q == SubSeq(p, 1, Len(dir) + 1)
         IN  /\ q \in Path /\ Under(q, dir) /\ Len(q) = Len(dir) + 1
             /\ q[Len(dir) + 1] = p[Len(dir) + 1]
             /\ Len(p) = Len(dir) + 1 => q = p
             /\ Len(p) # Len(dir) + 1 => Under(p, q)
<1> DEFINE q == SubSeq(p, 1, Len(dir) + 1)
           n == Len(dir)
<1>1. p \in Seq(Name) /\ dir \in Seq(Name) /\ Len(p) \in Nat /\ n \in Nat /\ Len(p) > n /\ SubSeq(p, 1, n) = dir
  <2>1. p \in Seq(Name) /\ dir \in Seq(Name)
    BY FsAssumption DEF Name
  <2> QED BY <2>1, LenProperties DEF Under
<1>2. q \in Path
  BY <1>1, FsAssumption
<1>3. q \in Seq(Name) /\ Len(q) = n + 1 /\ \A i \in 1 .. n + 1 : q[i] = p[i]
  <2>1. \A i \in 1 .. n + 1 : p[i] \in Name
    BY <1>1, ElementOfSeq
  <2>2. 1 \in Int /\ n + 1 \in Int
    BY <1>1
  <2> HIDE DEF n
  <2> QED BY <1>1, <2>1, <2>2, SubSeqProperties
<1>4. SubSeq(q, 1, n) \in Seq(Name) /\ Len(SubSeq(q, 1, n)) = n /\ \A i \in 1 .. n : SubSeq(q, 1, n)[i] = q[i]
  <2>1. \A i \in 1 .. n : q[i] \in Name
    BY <1>1, <1>3, ElementOfSeq
  <2>2. 1 \in Int /\ n \in Int
    BY <1>1
  <2> HIDE DEF n, q
  <2> QED BY <1>1, <1>3, <2>1, <2>2, SubSeqProperties
<1>5. SubSeq(p, 1, n) \in Seq(Name) /\ Len(SubSeq(p, 1, n)) = n /\ \A i \in 1 .. n : SubSeq(p, 1, n)[i] = p[i]
  <2>1. \A i \in 1 .. n : p[i] \in Name
    BY <1>1, ElementOfSeq
  <2>2. 1 \in Int /\ n \in Int
    BY <1>1
  <2> HIDE DEF n
  <2> QED BY <1>1, <2>1, <2>2, SubSeqProperties
<1> HIDE DEF q, n
<1>6. SubSeq(q, 1, n) = dir
  <2> DEFINE s == SubSeq(q, 1, n)
             t == SubSeq(p, 1, n)
  <2>1. \A i \in 1 .. n : s[i] = t[i]
    BY <1>1, <1>3, <1>4, <1>5
  <2>2. s \in Seq(Name) /\ t \in Seq(Name) /\ Len(s) = n /\ Len(t) = n
    BY <1>4, <1>5
  <2> HIDE DEF s, t
  <2>3. s = t
    BY <2>1, <2>2, SeqEqual
  <2> QED BY <1>1, <2>3 DEF s, t
<1>7. Under(q, dir) /\ q[n + 1] = p[n + 1]
  BY <1>1, <1>3, <1>6 DEF Under, n
<1>8. ASSUME Len(p) = n + 1 PROVE q = p
  BY <1>1, <1>3, <1>8, SeqEqual
<1>9. ASSUME Len(p) # n + 1 PROVE Under(p, q)
  <2>1. Len(p) > Len(q)
    BY <1>1, <1>3, <1>9
  <2> QED BY <1>3, <2>1 DEF Under, q, n
<1> QED BY <1>2, <1>3, <1>7, <1>8, <1>9 DEF q, n

\* What is listed exists: it is on the way to an entry, or is one.
LEMMA ListedIsThere ==
  ASSUME TypeOK, NEW dir \in Path, NEW e \in Entry, IsEntry(e), IsInside(e, dir)
  PROVE  \E p \in Path : /\ Under(p, dir) /\ Len(p) = Len(dir) + 1 /\ Exists(p)
                         /\ p[Len(dir) + 1] = e.path[Len(dir) + 1]
<1> DEFINE q == SubSeq(e.path, 1, Len(dir) + 1)
<1>1. e.path \in Path /\ Under(e.path, dir) /\ ~e.skip /\ (e.made => Len(e.path) = Len(dir) + 1)
      /\ e.skip \in BOOLEAN /\ e.made \in BOOLEAN
  BY DEF IsInside, Entry
<1>2. /\ q \in Path /\ Under(q, dir) /\ Len(q) = Len(dir) + 1 /\ q[Len(dir) + 1] = e.path[Len(dir) + 1]
      /\ Len(e.path) = Len(dir) + 1 => q = e.path
      /\ Len(e.path) # Len(dir) + 1 => Under(e.path, q)
  BY <1>1, ChildPath
<1> HIDE DEF q
<1>3. Exists(q)
  <2>1. CASE e.made
    <3>1. q = e.path
      BY <1>1, <1>2, <2>1
    <3>2. InDirs(e.path) \/ e.path \in RomDir
      BY <2>1 DEF IsEntry
    <3> QED BY <3>1, <3>2 DEF Exists, IsDir
  <2>2. CASE ~e.made /\ e.path \in DOMAIN Rom
    <3>1. CASE q = e.path
      BY <2>2, <3>1 DEF Exists, InRom
    <3>2. CASE Under(e.path, q)
      BY <2>2, <3>2 DEF Exists, IsDir, HasChildren
    <3> QED BY <1>2, <3>1, <3>2
  <2>3. CASE ~e.made /\ \E i \in FileSlot : e.path = files[i].path /\ e.skip = ~files[i].used
    <3>1. PICK i \in FileSlot : e.path = files[i].path /\ e.skip = ~files[i].used
      BY <2>3
    <3>2. files[i].used
      BY <1>1, <3>1
    <3>3. i \in UsedSlots
      BY <3>2 DEF UsedSlots
    <3>4. CASE q = e.path
      BY <3>1, <3>3, <3>4 DEF Exists, InOverlay, SlotsOf
    <3>5. CASE Under(e.path, q)
      BY <3>1, <3>3, <3>5 DEF Exists, IsDir, HasChildren
    <3> QED BY <1>2, <3>4, <3>5
  <2> QED BY <2>1, <2>2, <2>3, Zenon DEF IsEntry
<1> QED BY <1>2, <1>3

\* What exists is listed: a file of the ROM that is hidden has a slot that hides it.
LEMMA ThereIsListed ==
  ASSUME TypeOK, NEW dir \in Path, NEW p \in Path, Under(p, dir), Len(p) = Len(dir) + 1, Exists(p)
  PROVE  \E e \in Entry : IsEntry(e) /\ IsInside(e, dir) /\ e.path[Len(dir) + 1] = p[Len(dir) + 1]
<1>0. /\ p \in Seq(Name) /\ dir \in Seq(Name) /\ Len(p) \in Nat /\ Len(dir) \in Nat
      /\ files \in [FileSlot -> File]
      /\ SubSeq(p, 1, Len(dir)) = dir /\ p # <<>>
  <2>1. p \in Seq(Name) /\ dir \in Seq(Name)
    BY FsAssumption DEF Name
  <2>2. Len(p) \in Nat /\ Len(dir) \in Nat
    BY <2>1, LenProperties
  <2>3. p # <<>>
    <3>1. Len(p) # 0
      BY <2>2
    <3> QED BY <2>1, <3>1, EmptySeq
  <2> QED BY <2>1, <2>2, <2>3 DEF TypeOK, Under
<1>1. ASSUME NEW i \in UsedSlots, NEW f \in Path, files[i].path = f,
             Under(f, dir), f[Len(dir) + 1] = p[Len(dir) + 1]
      PROVE  \E e \in Entry : IsEntry(e) /\ IsInside(e, dir) /\ e.path[Len(dir) + 1] = p[Len(dir) + 1]
  <2> DEFINE e == [path |-> f, made |-> FALSE, skip |-> FALSE]
  <2>1. e \in Entry /\ e.path = f /\ e.made = FALSE /\ e.skip = FALSE
    BY DEF Entry
  <2>2. i \in FileSlot /\ files[i].used /\ files[i].used \in BOOLEAN
    BY <1>0 DEF UsedSlots, File
  <2> HIDE DEF e
  <2>3. e.skip = ~files[i].used
    BY <2>1, <2>2
  <2>4. IsEntry(e)
    BY <1>1, <2>1, <2>2, <2>3 DEF IsEntry
  <2>5. IsInside(e, dir)
    BY <1>1, <2>1 DEF IsInside
  <2> QED BY <1>1, <2>1, <2>4, <2>5
<1>2. ASSUME NEW f \in DOMAIN Rom, Under(f, dir), f[Len(dir) + 1] = p[Len(dir) + 1]
      PROVE  \E e \in Entry : IsEntry(e) /\ IsInside(e, dir) /\ e.path[Len(dir) + 1] = p[Len(dir) + 1]
  <2>0. f \in Path
    BY FsAssumption
  <2>1. CASE InOverlay(f)
    <3>1. PICK i \in UsedSlots : files[i].path = f
      BY <2>1 DEF InOverlay, SlotsOf
    <3> QED BY <1>1, <1>2, <2>0, <3>1
  <2>2. CASE ~InOverlay(f)
    <3> DEFINE e == [path |-> f, made |-> FALSE, skip |-> FALSE]
    <3>1. e \in Entry /\ e.path = f /\ e.made = FALSE /\ e.skip = FALSE
      BY <2>0 DEF Entry
    <3> HIDE DEF e
    <3>2. IsEntry(e)
      BY <2>2, <3>1 DEF IsEntry
    <3>3. IsInside(e, dir)
      BY <1>2, <3>1 DEF IsInside
    <3> QED BY <1>2, <3>1, <3>2, <3>3
  <2> QED BY <2>1, <2>2
<1>3. CASE InOverlay(p)
  <2>1. PICK i \in UsedSlots : files[i].path = p
    BY <1>3 DEF InOverlay, SlotsOf
  <2> QED BY <1>1, <2>1
<1>4. CASE InRom(p)
  BY <1>2, <1>4 DEF InRom
<1>5. CASE p \in RomDir \/ InDirs(p)
  <2> DEFINE e == [path |-> p, made |-> TRUE, skip |-> FALSE]
  <2>1. e \in Entry /\ e.path = p /\ e.made = TRUE /\ e.skip = FALSE
    BY DEF Entry
  <2> HIDE DEF e
  <2>2. IsEntry(e)
    BY <1>5, <2>1 DEF IsEntry
  <2>3. IsInside(e, dir)
    BY <2>1 DEF IsInside
  <2> QED BY <2>1, <2>2, <2>3
<1>6. ASSUME NEW f \in Path, Under(f, p)
      PROVE  Under(f, dir) /\ f[Len(dir) + 1] = p[Len(dir) + 1]
  <2>1. f \in Seq(Name) /\ Len(f) \in Nat /\ Len(f) > Len(p) /\ SubSeq(f, 1, Len(p)) = p
    <3>1. f \in Seq(Name)
      BY FsAssumption DEF Name
    <3> QED BY <1>6, <3>1, LenProperties DEF Under
  <2>2. \A i \in 1 .. Len(p) : p[i] = f[i]
    <3>1. \A i \in 1 .. Len(p) : f[i] \in Name
      BY <1>0, <2>1, ElementOfSeq
    <3>2. \A i \in 1 .. Len(p) : SubSeq(f, 1, Len(p))[i] = f[i]
      BY <1>0, <3>1, SubSeqProperties
    <3> QED BY <2>1, <3>2
  <2>3. SubSeq(f, 1, Len(dir)) = SubSeq(p, 1, Len(dir))
    <3> DEFINE s == SubSeq(f, 1, Len(dir))
               t == SubSeq(p, 1, Len(dir))
    <3>1. \A i \in 1 .. Len(dir) : f[i] \in Name /\ p[i] \in Name /\ p[i] = f[i]
      BY <1>0, <2>1, <2>2, ElementOfSeq
    <3>2. s \in Seq(Name) /\ Len(s) = Len(dir) /\ \A i \in 1 .. Len(dir) : s[i] = f[i]
      BY <1>0, <3>1, SubSeqProperties
    <3>3. t \in Seq(Name) /\ Len(t) = Len(dir) /\ \A i \in 1 .. Len(dir) : t[i] = p[i]
      BY <1>0, <3>1, SubSeqProperties
    <3> HIDE DEF s, t
    <3>4. \A i \in 1 .. Len(s) : s[i] = t[i]
      BY <3>1, <3>2, <3>3
    <3>5. s = t
      BY <3>2, <3>3, <3>4, SeqEqual
    <3> QED BY <3>5 DEF s, t
  <2>4. Len(dir) + 1 \in 1 .. Len(p)
    BY <1>0
  <2>5. Len(f) > Len(dir)
    BY <1>0, <2>1
  <2> QED BY <1>0, <2>2, <2>3, <2>4, <2>5 DEF Under
<1>7. CASE HasChildren(p)
  <2>1. CASE \E f \in DOMAIN Rom : Under(f, p)
    <3>1. PICK f \in DOMAIN Rom : Under(f, p)
      BY <2>1
    <3>2. f \in Path
      BY FsAssumption
    <3> QED BY <1>2, <1>6, <3>1, <3>2
  <2>2. CASE \E i \in UsedSlots : Under(files[i].path, p)
    <3>1. PICK i \in UsedSlots : Under(files[i].path, p)
      BY <2>2
    <3>2. files[i].path \in Path
      BY <1>0 DEF UsedSlots, File
    <3> QED BY <1>1, <1>6, <3>1, <3>2
  <2> QED BY <1>7, <2>1, <2>2 DEF HasChildren
<1> QED BY <1>0, <1>3, <1>4, <1>5, <1>7 DEF Exists, IsDir

LEMMA TypedIsListed == TypeOK => ListingExact
<1> SUFFICES ASSUME TypeOK, NEW dir \in Path
             PROVE  Names(dir) = {p[Len(dir) + 1] :
                       p \in {q \in Path : Under(q, dir) /\ Len(q) = Len(dir) + 1 /\ Exists(q)}}
  BY DEF ListingExact
<1>1. Names(dir) = {e.path[Len(dir) + 1] : e \in {f \in Entry : IsEntry(f) /\ IsInside(f, dir)}}
  <2>1. Range(Entries) = {e \in Entry : IsEntry(e)}
    BY EntriesAre
  <2>2. {f \in Range(Entries) : IsInside(f, dir)} = {f \in Entry : IsEntry(f) /\ IsInside(f, dir)}
    BY <2>1
  <2> QED BY <2>2, NamesAre
<1>2. \A e \in Entry : IsEntry(e) /\ IsInside(e, dir) =>
        \E p \in Path : /\ Under(p, dir) /\ Len(p) = Len(dir) + 1 /\ Exists(p)
                        /\ p[Len(dir) + 1] = e.path[Len(dir) + 1]
  BY ListedIsThere
<1>3. \A p \in Path : Under(p, dir) /\ Len(p) = Len(dir) + 1 /\ Exists(p) =>
        \E e \in Entry : IsEntry(e) /\ IsInside(e, dir) /\ e.path[Len(dir) + 1] = p[Len(dir) + 1]
  BY ThereIsListed
<1> QED BY <1>1, <1>2, <1>3

LEMMA IInvLists == IInv => ListingExact
BY TypedIsListed DEF IInv

\* ls shows every name that leads to a file or to a directory and no other, for any
\* directory, any number of entries and any room in seen[].
THEOREM ListingIsExact == Spec => []ListingExact
BY IInvLists, SpecIInv, PTL

---------------------------------------------------------------------------
(* The names of a path.  Each loop of fs_resolve is a function of the      *)
(* number of its rounds.                                                   *)

Texts == Seq(Byte)

\* Two functions that make the same rounds are the same.
LEMMA SameRounds ==
  ASSUME NEW N \in Nat, NEW f, NEW h, DOMAIN f = 0 .. N, DOMAIN h = 0 .. N, f[0] = h[0],
         f = [k \in 0 .. N |-> f[k]], h = [k \in 0 .. N |-> h[k]],
         \A k \in 1 .. N : f[k - 1] = h[k - 1] => f[k] = h[k]
  PROVE  f = h
<1> DEFINE T == {k \in 0 .. N : f[k] = h[k]}
<1>1. 0 \in T
  OBVIOUS
<1>2. ASSUME NEW k \in 1 .. N, k - 1 \in T PROVE k \in T
  <2>1. k \in 0 .. N /\ f[k - 1] = h[k - 1]
    BY <1>2
  <2> QED BY <2>1
<1> HIDE DEF T
<1>3. \A k \in 0 .. N : k \in T
  BY <1>1, <1>2, UpTo
<1> QED BY <1>3 DEF T

\* The elements at some positions.
KeptBy(s, S, f) ==
  f[0] = <<>> /\ \A k \in 1 .. Len(s) : f[k] = IF k \in S THEN Append(f[k - 1], s[k]) ELSE f[k - 1]

LEMMA KeptIs ==
  ASSUME NEW E, NEW s \in Seq(E), NEW S
  PROVE  \E f \in [0 .. Len(s) -> Seq(E)] : KeptBy(s, S, f) /\ Kept(s, S) = f[Len(s)]
<1> DEFINE N == Len(s)
           step(r, k) == IF k \in S THEN Append(r, s[k]) ELSE r
           g == [x \in Seq(E) \X (1 .. N) |-> step(x[1], x[2])]
           Loop(h) == h = [k \in 0 .. N |-> IF k = 0 THEN <<>>
                                            ELSE IF k \in S THEN Append(h[k - 1], s[k]) ELSE h[k - 1]]
<1>1. N \in Nat /\ \A k \in 1 .. N : s[k] \in E
  BY LenProperties, ElementOfSeq
<1>2. <<>> \in Seq(E)
  BY EmptySeq
<1>3. \A r \in Seq(E), k \in 1 .. N : step(r, k) \in Seq(E)
  BY <1>1, AppendProperties
<1>4. g \in [Seq(E) \X (1 .. N) -> Seq(E)]
  BY <1>3
<1>5. \A r \in Seq(E), k \in 1 .. N : g[<<r, k>>] = step(r, k)
  OBVIOUS
<1> HIDE DEF N, g
<1>6. PICK f : Rounds(N, Seq(E), <<>>, g, f)
  BY <1>1, <1>2, <1>4, CountedLoop
<1>7. f \in [0 .. N -> Seq(E)] /\ f[0] = <<>> /\ \A k \in 1 .. N : f[k] = step(f[k - 1], k)
  <2>1. f \in [0 .. N -> Seq(E)] /\ f[0] = <<>> /\ \A k \in 1 .. N : f[k] = g[<<f[k - 1], k>>]
    BY <1>6 DEF Rounds
  <2>2. \A k \in 1 .. N : f[k - 1] \in Seq(E)
    BY <1>1, <2>1
  <2> HIDE DEF step
  <2> QED BY <2>1, <2>2, <1>5
<1>8. Loop(f)
  <2>1. \A k \in 0 .. N : k # 0 => k \in 1 .. N
    BY <1>1
  <2> QED BY <1>7, <2>1
<1>9. ASSUME NEW h, Loop(h) PROVE h = f
  <2>1. \A k \in 1 .. N : k \in 0 .. N /\ k # 0
    BY <1>1
  <2>2. h[0] = <<>> /\ \A k \in 1 .. N : h[k] = step(h[k - 1], k)
    <3>1. 0 \in 0 .. N
      BY <1>1
    <3> QED BY <1>9, <2>1, <3>1, Zenon
  <2>3. DOMAIN h = 0 .. N /\ h = [k \in 0 .. N |-> h[k]]
    BY <1>9
  <2> HIDE DEF step, Loop
  <2>4. \A k \in 1 .. N : f[k - 1] = h[k - 1] => f[k] = h[k]
    BY <1>7, <2>2
  <2>5. DOMAIN f = 0 .. N /\ f = [k \in 0 .. N |-> f[k]] /\ f[0] = h[0]
    BY <1>7, <2>2
  <2> QED BY <1>1, <2>3, <2>4, <2>5, SameRounds
<1>10. PICK h : Loop(h) /\ Kept(s, S) = h[N]
  BY <1>8, Zenon DEF Kept, N
<1>11. KeptBy(s, S, f) /\ Kept(s, S) = f[Len(s)]
  BY <1>7, <1>9, <1>10 DEF KeptBy, N
<1> QED BY <1>7, <1>11 DEF N

\* The last of the positions names the last element.
LEMMA KeptLast ==
  ASSUME NEW E, NEW s \in Seq(E), NEW S \in SUBSET (1 .. Len(s)), NEW g \in S, \A k \in S : k <= g
  PROVE  Kept(s, S) = Append(Kept(s, S \ {g}), s[g])
<1> DEFINE N == Len(s)
           U == S \ {g}
<1>1. N \in Nat /\ g \in 1 .. N
  BY LenProperties
<1>2. PICK f \in [0 .. N -> Seq(E)] : KeptBy(s, S, f) /\ Kept(s, S) = f[N]
  BY KeptIs
<1>3. PICK h \in [0 .. N -> Seq(E)] : KeptBy(s, U, h) /\ Kept(s, U) = h[N]
  BY KeptIs
<1> DEFINE T == {k \in 0 .. N : f[k] = IF k < g THEN h[k] ELSE Append(h[k], s[g])}
<1>4. 0 \in T
  BY <1>1, <1>2, <1>3 DEF KeptBy
<1>5. ASSUME NEW k \in 1 .. N, k - 1 \in T PROVE k \in T
  <2>1. /\ f[k] = (IF k \in S THEN Append(f[k - 1], s[k]) ELSE f[k - 1])
        /\ h[k] = (IF k \in U THEN Append(h[k - 1], s[k]) ELSE h[k - 1])
    BY <1>2, <1>3 DEF KeptBy, N
  <2>2. f[k - 1] = IF k - 1 < g THEN h[k - 1] ELSE Append(h[k - 1], s[g])
    BY <1>5
  <2>3. k \in 0 .. N /\ k \in Nat
    BY <1>1
  <2>4. CASE k < g
    <3>1. k - 1 < g /\ (k \in S <=> k \in U)
      BY <1>1, <2>3, <2>4
    <3>2. f[k] = h[k]
      BY <2>1, <2>2, <3>1
    <3> QED BY <2>3, <2>4, <3>2
  <2>5. CASE k = g
    <3>1. k - 1 < g /\ k \in S /\ k \notin U /\ ~(k < g)
      BY <1>1, <2>3, <2>5
    <3>2. f[k] = Append(h[k], s[g])
      BY <2>1, <2>2, <2>5, <3>1
    <3> QED BY <2>3, <3>1, <3>2
  <2>6. CASE k > g
    <3>1. ~(k - 1 < g) /\ k \notin S /\ k \notin U /\ ~(k < g)
      BY <1>1, <2>3, <2>6
    <3>2. f[k] = Append(h[k], s[g])
      BY <2>1, <2>2, <3>1
    <3> QED BY <2>3, <3>1, <3>2
  <2> QED BY <1>1, <2>3, <2>4, <2>5, <2>6
<1> HIDE DEF N, T
<1>6. N \in T
  <2>1. \A k \in 0 .. N : k \in T
    BY <1>1, <1>4, <1>5, UpTo
  <2> QED BY <1>1, <2>1
<1>7. f[N] = Append(h[N], s[g])
  BY <1>1, <1>6 DEF T
<1> QED BY <1>2, <1>3, <1>7

LEMMA KeptNone ==
  ASSUME NEW E, NEW s \in Seq(E)
  PROVE  Kept(s, {}) = <<>>
<1> DEFINE N == Len(s)
<1>1. N \in Nat
  BY LenProperties
<1>2. PICK f \in [0 .. N -> Seq(E)] : KeptBy(s, {}, f) /\ Kept(s, {}) = f[N]
  BY KeptIs
<1> DEFINE T == {k \in 0 .. N : f[k] = <<>>}
<1>3. 0 \in T
  BY <1>1, <1>2 DEF KeptBy
<1>4. ASSUME NEW k \in 1 .. N, k - 1 \in T PROVE k \in T
  <2>1. k \in 0 .. N
    BY <1>1
  <2>2. f[k] = f[k - 1]
    BY <1>2 DEF KeptBy
  <2> QED BY <1>4, <2>1, <2>2
<1> HIDE DEF N, T
<1>5. N \in T
  <2>1. \A k \in 0 .. N : k \in T
    BY <1>1, <1>3, <1>4, UpTo
  <2> QED BY <1>1, <2>1
<1> QED BY <1>2, <1>5 DEF T

\* How deep the walk is after each token.
LEMMA RiseIs == \A t : Rise(t) \in {-1, 0, 1}
BY DEF Rise

LEMMA LevelIs ==
  ASSUME NEW E, NEW s \in Seq(E)
  PROVE  /\ Level(s) \in [0 .. Len(s) -> Int]
         /\ \A k \in 1 .. Len(s) : Level(s)[k] = Level(s)[k - 1] + Rise(s[k])
<1> DEFINE N == Len(s)
           g == [x \in Int \X (1 .. N) |-> x[1] + Rise(s[x[2]])]
           Loop(h) == h = [k \in 0 .. N |-> IF k = 0 THEN 0 ELSE h[k - 1] + Rise(s[k])]
<1>1. N \in Nat /\ 0 \in Int
  BY LenProperties
<1>2. \A r \in Int, k \in 1 .. N : r + Rise(s[k]) \in Int
  BY RiseIs
<1>3. g \in [Int \X (1 .. N) -> Int]
  BY <1>2
<1>4. \A r \in Int, k \in 1 .. N : g[<<r, k>>] = r + Rise(s[k])
  OBVIOUS
<1> HIDE DEF N, g
<1>5. PICK f : Rounds(N, Int, 0, g, f)
  BY <1>1, <1>3, CountedLoop
<1>6. f \in [0 .. N -> Int] /\ f[0] = 0 /\ \A k \in 1 .. N : f[k] = f[k - 1] + Rise(s[k])
  <2>1. f \in [0 .. N -> Int] /\ f[0] = 0 /\ \A k \in 1 .. N : f[k] = g[<<f[k - 1], k>>]
    BY <1>5 DEF Rounds
  <2>2. \A k \in 1 .. N : f[k - 1] \in Int
    BY <1>1, <2>1
  <2> QED BY <2>1, <2>2, <1>4
<1>7. Loop(f)
  <2>1. \A k \in 0 .. N : k # 0 => k \in 1 .. N
    BY <1>1
  <2> QED BY <1>6, <2>1
<1>8. ASSUME NEW h, Loop(h) PROVE h = f
  <2>1. \A k \in 1 .. N : k \in 0 .. N /\ k # 0
    BY <1>1
  <2>2. h[0] = 0 /\ \A k \in 1 .. N : h[k] = h[k - 1] + Rise(s[k])
    <3>1. 0 \in 0 .. N
      BY <1>1
    <3> QED BY <1>8, <2>1, <3>1, Zenon
  <2>3. DOMAIN h = 0 .. N /\ h = [k \in 0 .. N |-> h[k]]
    BY <1>8
  <2> HIDE DEF Loop
  <2>4. \A k \in 1 .. N : f[k - 1] = h[k - 1] => f[k] = h[k]
    BY <1>6, <2>2
  <2>5. DOMAIN f = 0 .. N /\ f = [k \in 0 .. N |-> f[k]] /\ f[0] = h[0]
    BY <1>6, <2>2
  <2> QED BY <1>1, <2>3, <2>4, <2>5, SameRounds
<1>9. Loop(Level(s))
  BY <1>7, Zenon DEF Level, N
<1>10. Level(s) = f
  BY <1>8, <1>9, Zenon
<1> QED BY <1>6, <1>10 DEF N

\* What one more token does to the positions of the names that stay.
LEMMA StaysNext ==
  ASSUME NEW N \in Nat, NEW L \in [0 .. N -> Int], NEW k \in 1 .. N
  PROVE  /\ \A i : i \in Stays(L, k) <=> /\ i \in Stays(L, k - 1) \cup {k}
                                         /\ L[i - 1] < L[k]
         /\ \A i \in Stays(L, k - 1) : i \in 1 .. k - 1 /\ \A j \in i .. k - 1 : L[i - 1] < L[j]
<1>1. ASSUME NEW i PROVE i \in 1 .. k <=> i \in 1 .. k - 1 \/ i = k
  OBVIOUS
<1>2. ASSUME NEW i \in 1 .. k - 1, NEW j PROVE j \in i .. k <=> j \in i .. k - 1 \/ j = k
  OBVIOUS
<1>3. \A j \in k .. k : j = k
  OBVIOUS
<1>4. k \in k .. k /\ k \in 1 .. k /\ k \notin 1 .. k - 1
  OBVIOUS
<1>5. ASSUME NEW i
      PROVE  i \in Stays(L, k) <=> i \in Stays(L, k - 1) \cup {k} /\ L[i - 1] < L[k]
  <2>1. CASE i \in 1 .. k - 1
    <3>1. i \in 1 .. k /\ i # k
      BY <1>4, <2>1
    <3>2. (\A j \in i .. k : L[i - 1] < L[j])
            <=> (\A j \in i .. k - 1 : L[i - 1] < L[j]) /\ L[i - 1] < L[k]
      BY <1>2, <2>1, Zenon
    <3> QED BY <2>1, <3>1, <3>2, Zenon DEF Stays
  <2>2. CASE i = k
    <3>1. (\A j \in i .. k : L[i - 1] < L[j]) <=> L[i - 1] < L[k]
      BY <1>3, <1>4, <2>2, Zenon
    <3> QED BY <1>4, <2>2, <3>1, Zenon DEF Stays
  <2>3. CASE i \notin 1 .. k
    BY <1>1, <2>3 DEF Stays
  <2> QED BY <1>1, <2>1, <2>2, <2>3
<1> QED BY <1>5, Zenon DEF Stays

LEMMA StaysDown ==
  ASSUME NEW N \in Nat, NEW L \in [0 .. N -> Int], NEW k \in 1 .. N, L[k] = L[k - 1] + 1
  PROVE  /\ Stays(L, k) = Stays(L, k - 1) \cup {k}
         /\ k \notin Stays(L, k - 1) /\ \A i \in Stays(L, k) : i <= k
<1>1. /\ \A i : i \in Stays(L, k) <=> i \in Stays(L, k - 1) \cup {k} /\ L[i - 1] < L[k]
      /\ \A i \in Stays(L, k - 1) : i \in 1 .. k - 1 /\ \A j \in i .. k - 1 : L[i - 1] < L[j]
  BY StaysNext
<1>2. L[k - 1] < L[k] /\ L[k - 1] \in Int
  OBVIOUS
<1>3. ASSUME NEW i \in Stays(L, k - 1) PROVE i < k /\ L[i - 1] < L[k]
  <2>1. i \in 1 .. k - 1 /\ k - 1 \in i .. k - 1
    BY <1>1
  <2>2. L[i - 1] < L[k - 1] /\ L[i - 1] \in Int
    BY <1>1, <2>1
  <2> QED BY <1>2, <2>1, <2>2
<1> QED BY <1>1, <1>2, <1>3

LEMMA StaysSame ==
  ASSUME NEW N \in Nat, NEW L \in [0 .. N -> Int], NEW k \in 1 .. N, L[k] = L[k - 1]
  PROVE  Stays(L, k) = Stays(L, k - 1)
<1>1. /\ \A i : i \in Stays(L, k) <=> i \in Stays(L, k - 1) \cup {k} /\ L[i - 1] < L[k]
      /\ \A i \in Stays(L, k - 1) : i \in 1 .. k - 1 /\ \A j \in i .. k - 1 : L[i - 1] < L[j]
  BY StaysNext
<1>2. ~(L[k - 1] < L[k])
  OBVIOUS
<1>3. ASSUME NEW i \in Stays(L, k - 1) PROVE L[i - 1] < L[k]
  <2>1. i \in 1 .. k - 1 /\ k - 1 \in i .. k - 1
    BY <1>1
  <2> QED BY <1>1, <2>1
<1> QED BY <1>1, <1>2, <1>3

\* Up: the last name that stays is gone, and only that one.  The names before it are
\* entered further up, and had it been left further down, a later name would stay.
Steady(L, N) ==
  N \in Nat /\ L \in [0 .. N -> Int] /\ \A n \in 1 .. N : L[n] - L[n - 1] \in {-1, 0, 1}
Greatest(S, g) == g \in S /\ \A i \in S : i <= g
Up(L, k, g) == L[k] = L[k - 1] - 1 /\ Greatest(Stays(L, k - 1), g)

LEMMA StaysUp ==
  ASSUME NEW N, NEW L, Steady(L, N), NEW k \in 1 .. N, NEW g, Up(L, k, g)
  PROVE  Stays(L, k) = Stays(L, k - 1) \ {g}
<1>0. /\ N \in Nat /\ L \in [0 .. N -> Int] /\ L[k] = L[k - 1] - 1
      /\ \A n \in 1 .. N : L[n] - L[n - 1] \in {-1, 0, 1}
      /\ g \in Stays(L, k - 1) /\ \A i \in Stays(L, k - 1) : i <= g
  BY DEF Steady, Greatest, Up
<1>1. /\ \A i : i \in Stays(L, k) <=> i \in Stays(L, k - 1) \cup {k} /\ L[i - 1] < L[k]
      /\ \A i \in Stays(L, k - 1) : i \in 1 .. k - 1 /\ \A j \in i .. k - 1 : L[i - 1] < L[j]
  BY <1>0, StaysNext
<1>2. ~(L[k - 1] < L[k]) /\ L[k] \in Int /\ L[k - 1] \in Int /\ L[k] = L[k - 1] - 1
  BY <1>0
<1>3. /\ N \in Nat /\ k \in Nat /\ L \in [0 .. N -> Int]
      /\ g \in 1 .. k - 1 /\ g \in Nat /\ L[g - 1] \in Int /\ \A j \in g .. k - 1 : L[g - 1] < L[j]
  BY <1>0, <1>1
<1>4. L[k - 1] = L[g - 1] + 1
  <2> DEFINE M == {m \in g .. k - 1 : L[m] = L[g - 1] + 1}
  <2>1. g \in M
    <3>1. g \in g .. k - 1 /\ g \in 1 .. N /\ L[g] \in Int
      BY <1>3
    <3>2. L[g - 1] < L[g] /\ L[g] - L[g - 1] \in {-1, 0, 1}
      BY <1>0, <1>3, <3>1
    <3> QED BY <1>3, <3>1, <3>2
  <2>2. M \in SUBSET Nat /\ k \in Nat /\ \A m \in M : m <= k
    BY <1>3
  <2>3. PICK m \in M : \A j \in M : j <= m
    BY <2>1, <2>2, GreatestOf
  <2>4. m \in g .. k - 1 /\ L[m] = L[g - 1] + 1
    BY <2>3
  <2>5. SUFFICES ASSUME m # k - 1 PROVE FALSE
    BY <2>4
  <2>6. ASSUME NEW j \in m + 1 .. k - 1 PROVE L[m] < L[j]
    <3>1. j \in g .. k - 1 /\ ~(j <= m) /\ j \in 0 .. N
      BY <1>3, <2>4
    <3>2. j \notin M
      BY <2>3, <3>1
    <3>3. L[j] # L[g - 1] + 1 /\ L[g - 1] < L[j] /\ L[j] \in Int
      BY <1>3, <3>1, <3>2
    <3> QED BY <1>3, <2>4, <3>3
  <2>7. m + 1 \in 1 .. k - 1 /\ (m + 1) - 1 = m /\ ~(m + 1 <= g)
    BY <1>3, <2>4, <2>5
  <2>8. m + 1 \in Stays(L, k - 1)
    BY <2>6, <2>7 DEF Stays
  <2> QED BY <1>0, <2>7, <2>8
<1>5. ASSUME NEW i \in Stays(L, k - 1), i # g PROVE L[i - 1] < L[k]
  <2>1. i \in 1 .. k - 1 /\ g - 1 \in i .. k - 1 /\ L[i - 1] \in Int
    <3>1. i \in 1 .. k - 1 /\ i <= g
      BY <1>0, <1>1
    <3> QED BY <1>3, <1>5, <3>1
  <2>2. L[i - 1] < L[g - 1]
    BY <1>1, <2>1
  <2> QED BY <1>2, <1>3, <1>4, <2>1, <2>2
<1>6. ~(L[g - 1] < L[k])
  BY <1>2, <1>3, <1>4
<1> QED BY <1>0, <1>1, <1>2, <1>5, <1>6

LEMMA FrontAppend ==
  ASSUME NEW E, NEW r \in Seq(E), NEW e \in E
  PROVE  Front(Append(r, e)) = r
<1> DEFINE t == Append(r, e)
           n == Len(r)
           u == SubSeq(t, 1, n)
<1>1. /\ n \in Nat /\ Len(t) = n + 1 /\ \A i \in 1 .. n : t[i] = r[i]
      /\ \A i \in 1 .. n : r[i] \in E
  BY LenProperties, AppendProperties, ElementOfSeq
<1> HIDE DEF t
<1>2. \A i \in 1 .. n : t[i] \in E
  BY <1>1
<1> HIDE DEF n
<1>3. u \in Seq(E) /\ Len(u) = (IF 1 <= n THEN n - 1 + 1 ELSE 0) /\ \A i \in 1 .. n - 1 + 1 : u[i] = t[1 + i - 1]
  BY <1>1, <1>2, SubSeqProperties
<1>4. Len(u) = n /\ \A i \in 1 .. n : u[i] = r[i]
  <2>1. n - 1 + 1 = n /\ \A i \in 1 .. n : 1 + i - 1 = i
    BY <1>1
  <2> QED BY <1>1, <1>3, <2>1
<1>5. u = r
  BY <1>3, <1>4, SeqEqual DEF n
<1>6. Front(t) = u
  BY <1>1 DEF Front
<1> QED BY <1>5, <1>6 DEF t

LEMMA StandingIs ==
  ASSUME NEW s \in Seq(Texts), NEW k
  PROVE  Standing(s, k) \in Seq(Texts)
<1>1. Len(s) \in 0 .. Len(s)
  BY LenProperties
<1> QED BY <1>1, KeptIs DEF Standing

\* The names that stay, token by token: what the loop does to the stack if it has room.
LEMMA StandingNext ==
  ASSUME NEW s \in Seq(Texts), NEW k \in 1 .. Len(s)
  PROVE  LET r == Standing(s, k - 1)
         IN  /\ Standing(s, k) =
                  IF s[k] = <<".", ".">> THEN IF r # <<>> THEN Front(r) ELSE r
                  ELSE IF IsName(s[k]) /\ Len(s[k]) < NameMax THEN Append(r, s[k])
                  ELSE r
             /\ r \in Seq(Texts)
<1> DEFINE N == Len(s)
           L == Level(s)
           S == Stays(L, k - 1)
           r == Standing(s, k - 1)
<1>1. N \in Nat /\ s[k] \in Texts
  BY LenProperties, ElementOfSeq
<1>2. /\ L \in [0 .. N -> Int] /\ \A n \in 1 .. N : L[n] = L[n - 1] + Rise(s[n])
      /\ Steady(L, N)
  <2>1. L \in [0 .. N -> Int] /\ \A n \in 1 .. N : L[n] = L[n - 1] + Rise(s[n])
    BY LevelIs
  <2>2. ASSUME NEW n \in 1 .. N PROVE L[n] - L[n - 1] \in {-1, 0, 1}
    <3>1. L[n] = L[n - 1] + Rise(s[n]) /\ L[n - 1] \in Int /\ Rise(s[n]) \in {-1, 0, 1}
      BY <1>1, <2>1, <2>2, RiseIs
    <3> QED BY <3>1
  <2> QED BY <1>1, <2>1, <2>2 DEF Steady
<1> HIDE DEF L
<1>3. /\ S \in SUBSET (1 .. N) /\ Stays(L, k) \in SUBSET (1 .. N)
      /\ S \in SUBSET Nat /\ \A i \in S : i <= N
  BY <1>1 DEF Stays
<1>4. r = Kept(s, S) /\ Standing(s, k) = Kept(s, Stays(L, k))
  BY DEF Standing, L
<1>5. r \in Seq(Texts) /\ Standing(s, k) \in Seq(Texts)
  BY StandingIs
<1> HIDE DEF N, S, r
<1>6. CASE s[k] = <<".", ".">>
  <2>1. L[k] = L[k - 1] - 1
    <3>1. Rise(s[k]) = -1 /\ L[k] = L[k - 1] + Rise(s[k])
      BY <1>2, <1>6 DEF Rise, N
    <3>2. L[k - 1] \in Int
      BY <1>1, <1>2 DEF N
    <3> QED BY <3>1, <3>2
  <2>2. CASE S = {}
    <3>1. Stays(L, k) = {}
      <4>1. \A i : i \in Stays(L, k) <=> i \in Stays(L, k - 1) \cup {k} /\ L[i - 1] < L[k]
        BY <1>1, <1>2, StaysNext DEF N
      <4>2. ~(L[k - 1] < L[k])
        BY <1>1, <1>2, <2>1 DEF N
      <4> QED BY <2>2, <4>1, <4>2 DEF S
    <3>2. r = <<>> /\ Standing(s, k) = <<>>
      BY <1>4, <2>2, <3>1, KeptNone
    <3> QED BY <1>4, <1>5, <1>6, <3>2 DEF r
  <2>3. CASE S # {}
    <3>1. PICK g \in S : \A i \in S : i <= g
      BY <1>1, <1>3, <2>3, GreatestOf
    <3>2. Stays(L, k) = S \ {g}
      <4>1. Steady(L, N) /\ k \in 1 .. N /\ Up(L, k, g)
        BY <1>1, <1>2, <2>1, <3>1 DEF S, N, Greatest, Up
      <4>2. Stays(L, k) = Stays(L, k - 1) \ {g}
        BY <4>1, StaysUp
      <4> QED BY <4>2 DEF S
    <3>3. r = Append(Standing(s, k), s[g])
      BY <1>3, <1>4, <3>1, <3>2, KeptLast DEF N
    <3>4. s[g] \in Texts /\ Standing(s, k) \in Seq(Texts)
      <4>1. g \in 1 .. Len(s)
        BY <1>3, <3>1 DEF N
      <4> QED BY <1>5, <4>1, ElementOfSeq
    <3>5. Front(r) = Standing(s, k) /\ r # <<>>
      BY <3>3, <3>4, FrontAppend, AppendProperties
    <3> QED BY <1>4, <1>5, <1>6, <3>5 DEF r
  <2> QED BY <2>2, <2>3
<1>7. CASE s[k] # <<".", ".">> /\ IsName(s[k]) /\ Len(s[k]) < NameMax
  <2>1. L[k] = L[k - 1] + 1
    BY <1>2, <1>7 DEF Rise, N
  <2>2. Stays(L, k) = S \cup {k} /\ k \notin S /\ \A i \in Stays(L, k) : i <= k
    BY <1>1, <1>2, <2>1, StaysDown DEF N, S
  <2>3. k \in Stays(L, k) /\ Stays(L, k) \ {k} = S
    BY <2>2
  <2>4. Standing(s, k) = Append(r, s[k])
    BY <1>3, <1>4, <2>2, <2>3, KeptLast DEF N
  <2> QED BY <1>4, <1>5, <1>7, <2>4 DEF r
<1>8. CASE s[k] # <<".", ".">> /\ ~(IsName(s[k]) /\ Len(s[k]) < NameMax)
  <2>1. L[k] = L[k - 1]
    <3>1. Rise(s[k]) = 0 /\ L[k] = L[k - 1] + Rise(s[k])
      BY <1>2, <1>8 DEF Rise, N
    <3>2. L[k - 1] \in Int
      BY <1>1, <1>2 DEF N
    <3> QED BY <3>1, <3>2
  <2>2. Stays(L, k) = S
    BY <1>1, <1>2, <2>1, StaysSame DEF N, S
  <2>3. Standing(s, k) = r
    BY <1>4, <2>2
  <2> QED BY <1>4, <1>5, <1>8, <2>3 DEF r
<1> QED BY <1>6, <1>7, <1>8

\* The stack, and the names of a path with slashes before them.
StackBy(s, f) == f[0] = <<>> /\ \A k \in 1 .. Len(s) : f[k] = Walk(f[k - 1], s[k])

LEMMA WalkIs ==
  ASSUME NEW r \in Seq(Texts), NEW t \in Texts
  PROVE  Walk(r, t) \in Seq(Texts)
<1>1. Append(r, t) \in Seq(Texts)
  BY AppendProperties
<1>2. Front(r) \in Seq(Texts)
  <2>1. Len(r) \in Nat /\ \A i \in 1 .. Len(r) : r[i] \in Texts
    BY LenProperties, ElementOfSeq
  <2>2. \A i \in 1 .. Len(r) - 1 : r[i] \in Texts
    BY <2>1
  <2> QED BY <2>1, <2>2, SubSeqProperties DEF Front
<1> QED BY <1>1, <1>2 DEF Walk

LEMMA StackIs ==
  ASSUME NEW s \in Seq(Texts)
  PROVE  \E f \in [0 .. Len(s) -> Seq(Texts)] : StackBy(s, f) /\ Stack(s) = f[Len(s)]
<1> DEFINE N == Len(s)
           E == Seq(Texts)
           g == [x \in E \X (1 .. N) |-> Walk(x[1], s[x[2]])]
           Loop(h) == h = [k \in 0 .. N |-> IF k = 0 THEN <<>> ELSE Walk(h[k - 1], s[k])]
<1>1. N \in Nat /\ \A k \in 1 .. N : s[k] \in Texts
  BY LenProperties, ElementOfSeq
<1>2. <<>> \in E
  BY EmptySeq
<1>3. \A r \in E, k \in 1 .. N : Walk(r, s[k]) \in E
  BY <1>1, WalkIs
<1>4. g \in [E \X (1 .. N) -> E]
  BY <1>3
<1>5. \A r \in E, k \in 1 .. N : g[<<r, k>>] = Walk(r, s[k])
  OBVIOUS
<1> HIDE DEF N, E, g
<1>6. PICK f : Rounds(N, E, <<>>, g, f)
  BY <1>1, <1>2, <1>4, CountedLoop
<1>7. f \in [0 .. N -> E] /\ f[0] = <<>> /\ \A k \in 1 .. N : f[k] = Walk(f[k - 1], s[k])
  <2>1. f \in [0 .. N -> E] /\ f[0] = <<>> /\ \A k \in 1 .. N : f[k] = g[<<f[k - 1], k>>]
    BY <1>6 DEF Rounds
  <2>2. \A k \in 1 .. N : f[k - 1] \in E
    BY <1>1, <2>1
  <2> QED BY <2>1, <2>2, <1>5
<1>8. Loop(f)
  <2>1. \A k \in 0 .. N : k # 0 => k \in 1 .. N
    BY <1>1
  <2> QED BY <1>7, <2>1
<1>9. ASSUME NEW h, Loop(h) PROVE h = f
  <2>1. \A k \in 1 .. N : k \in 0 .. N /\ k # 0
    BY <1>1
  <2>2. h[0] = <<>> /\ \A k \in 1 .. N : h[k] = Walk(h[k - 1], s[k])
    <3>1. 0 \in 0 .. N
      BY <1>1
    <3> QED BY <1>9, <2>1, <3>1, Zenon
  <2>3. DOMAIN h = 0 .. N /\ h = [k \in 0 .. N |-> h[k]]
    BY <1>9
  <2> HIDE DEF Loop
  <2>4. \A k \in 1 .. N : f[k - 1] = h[k - 1] => f[k] = h[k]
    BY <1>7, <2>2
  <2>5. DOMAIN f = 0 .. N /\ f = [k \in 0 .. N |-> f[k]] /\ f[0] = h[0]
    BY <1>7, <2>2
  <2> QED BY <1>1, <2>3, <2>4, <2>5, SameRounds
<1>10. PICK h : Loop(h) /\ Stack(s) = h[N]
  BY <1>8, Zenon DEF Stack, N
<1>11. StackBy(s, f) /\ Stack(s) = f[Len(s)]
  BY <1>7, <1>9, <1>10 DEF StackBy, N
<1> QED BY <1>7, <1>11 DEF N, E

\* As long as the stack has room it holds the names that stay.
LEMMA StackStands ==
  ASSUME NEW s \in Seq(Texts), \A k \in DOMAIN s : Len(Standing(s, k)) <= DepthMax
  PROVE  Stack(s) = Standing(s, Len(s))
<1> DEFINE N == Len(s)
<1>1. N \in Nat /\ DOMAIN s = 1 .. N
  BY LenProperties
<1>2. PICK f \in [0 .. N -> Seq(Texts)] : StackBy(s, f) /\ Stack(s) = f[N]
  BY StackIs
<1> DEFINE T == {k \in 0 .. N : f[k] = Standing(s, k)}
<1>3. 0 \in T
  <2>1. Stays(Level(s), 0) = {}
    BY DEF Stays
  <2>2. Standing(s, 0) = <<>>
    BY <2>1, KeptNone DEF Standing
  <2>3. f[0] = <<>> /\ 0 \in 0 .. N
    BY <1>1, <1>2 DEF StackBy
  <2> QED BY <2>2, <2>3
<1>4. ASSUME NEW k \in 1 .. N, k - 1 \in T PROVE k \in T
  <2> DEFINE r == Standing(s, k - 1)
  <2>1. f[k] = Walk(r, s[k])
    BY <1>2, <1>4 DEF StackBy
  <2>2. /\ Standing(s, k) =
             IF s[k] = <<".", ".">> THEN IF r # <<>> THEN Front(r) ELSE r
             ELSE IF IsName(s[k]) /\ Len(s[k]) < NameMax THEN Append(r, s[k])
             ELSE r
        /\ r \in Seq(Texts) /\ s[k] \in Texts
    BY StandingNext, ElementOfSeq
  <2>3. Len(Standing(s, k)) <= DepthMax
    BY <1>1
  <2>4. k \in 0 .. N
    BY <1>1
  <2> HIDE DEF r
  <2>5. Len(r) \in Nat /\ Len(Append(r, s[k])) = Len(r) + 1
    BY <2>2, LenProperties, AppendProperties
  <2>6. CASE s[k] # <<".", ".">> /\ IsName(s[k]) /\ Len(s[k]) < NameMax
    <3>1. Standing(s, k) = Append(r, s[k])
      BY <2>2, <2>6
    <3>2. Len(r) < DepthMax
      BY <2>3, <2>5, <3>1, PathAssumption
    <3>3. Walk(r, s[k]) = Append(r, s[k])
      BY <2>6, <3>2 DEF Walk
    <3> QED BY <2>1, <2>4, <3>1, <3>3
  <2>7. CASE ~(s[k] # <<".", ".">> /\ IsName(s[k]) /\ Len(s[k]) < NameMax)
    <3>1. Standing(s, k) = Walk(r, s[k])
      BY <2>2, <2>7 DEF Walk
    <3> QED BY <2>1, <2>4, <3>1
  <2> QED BY <2>6, <2>7
<1> HIDE DEF N, T
<1>5. N \in T
  <2>1. \A k \in 0 .. N : k \in T
    BY <1>1, <1>3, <1>4, UpTo
  <2> QED BY <1>1, <2>1
<1> QED BY <1>2, <1>5 DEF N, T

\* Texts and names stay texts and names.
LEMMA CutIs ==
  ASSUME NEW t \in Texts, NEW n \in Nat
  PROVE  Cut(t, n) \in Texts /\ (t # <<>> /\ n > 0 => Cut(t, n) # <<>>)
<1>1. Len(t) \in Nat /\ \A i \in 1 .. Len(t) : t[i] \in Byte
  BY LenProperties, ElementOfSeq DEF Texts
<1>2. CASE Len(t) <= n
  BY <1>2 DEF Cut
<1>3. CASE ~(Len(t) <= n)
  <2> DEFINE u == SubSeq(t, 1, n)
  <2>1. \A i \in 1 .. n : t[i] \in Byte
    BY <1>1, <1>3
  <2>2. u \in Texts /\ Len(u) = IF 1 <= n THEN n - 1 + 1 ELSE 0
    BY <2>1, SubSeqProperties DEF Texts
  <2>3. n > 0 => Len(u) # 0
    BY <2>2
  <2>4. Cut(t, n) = u
    BY <1>3 DEF Cut
  <2> HIDE DEF u
  <2>5. u = <<>> => Len(u) = 0
    BY EmptySeq
  <2> QED BY <2>2, <2>3, <2>4, <2>5
<1> QED BY <1>2, <1>3

LEMMA JoinedIs ==
  ASSUME NEW cwd \in Texts, NEW in \in Texts
  PROVE  Joined(cwd, in) \in Texts
<1> DEFINE from == IF in # <<>> /\ Head(in) = "/" THEN <<>>
                   ELSE IF Last(cwd) = "/" THEN cwd ELSE Append(cwd, "/")
           what == IF in = <<>> THEN <<".">> ELSE in
<1>1. from \in Texts
  <2>1. <<>> \in Texts
    BY EmptySeq DEF Texts
  <2>2. Append(cwd, "/") \in Texts
    <3>1. "/" \in Byte
      BY PathAssumption
    <3> QED BY <3>1, AppendProperties DEF Texts
  <2> QED BY <2>1, <2>2
<1>2. what \in Texts
  <2>1. <<".">> \in Texts
    BY PathAssumption DEF Texts
  <2> QED BY <2>1
<1> HIDE DEF from, what
<1>3. from \o what \in Texts
  BY <1>1, <1>2, ConcatProperties DEF Texts
<1>4. TmpMax - 1 \in Nat
  BY PathAssumption
<1>5. Joined(cwd, in) = Cut(from \o what, TmpMax - 1)
  BY DEF Joined, from, what
<1> QED BY <1>3, <1>4, <1>5, CutIs

LEMMA TokensAre ==
  ASSUME NEW text \in Texts
  PROVE  Tokens(text) \in Seq(Texts)
<1> DEFINE N == Len(text)
           E == {s \in Seq(Texts) : s # <<>>}
           step(s, k) == IF text[k] = "/" THEN Append(s, <<>>)
                         ELSE [s EXCEPT ![Len(s)] = Append(s[Len(s)], text[k])]
           base == <<<<>>>>
           g == [x \in E \X (1 .. N) |-> step(x[1], x[2])]
           Loop(h) == h = [k \in 0 .. N |-> IF k = 0 THEN base
                                            ELSE IF text[k] = "/" THEN Append(h[k - 1], <<>>)
                                            ELSE [h[k - 1] EXCEPT ![Len(h[k - 1])] =
                                                    Append(h[k - 1][Len(h[k - 1])], text[k])]]
<1>1. N \in Nat /\ \A k \in 1 .. N : text[k] \in Byte
  BY LenProperties, ElementOfSeq DEF Texts
<1>2. <<>> \in Texts /\ base \in E
  <2>1. <<>> \in Texts
    BY EmptySeq DEF Texts
  <2> QED BY <2>1
<1>3. ASSUME NEW s \in E, NEW k \in 1 .. N PROVE step(s, k) \in E
  <2>1. Append(s, <<>>) \in E
    BY <1>2, AppendProperties
  <2> DEFINE w == s[Len(s)]
             v == Append(w, text[k])
  <2>2. Len(s) \in 1 .. Len(s)
    <3>1. Len(s) \in Nat \ {0}
      BY EmptySeq
    <3> QED BY <3>1
  <2>3. w \in Texts
    BY <2>2, ElementOfSeq
  <2> HIDE DEF w
  <2>4. v \in Texts
    BY <1>1, <2>3, AppendProperties DEF Texts
  <2> HIDE DEF v
  <2>5. [s EXCEPT ![Len(s)] = v] \in Seq(Texts) /\ Len([s EXCEPT ![Len(s)] = v]) = Len(s)
    BY <2>2, <2>4, ExceptSeq
  <2>6. [s EXCEPT ![Len(s)] = v] # <<>>
    <3>1. Len(<<>>) = 0 /\ Len(s) # 0
      BY EmptySeq, <2>2
    <3> QED BY <2>5, <3>1
  <2>7. step(s, k) = IF text[k] = "/" THEN Append(s, <<>>) ELSE [s EXCEPT ![Len(s)] = v]
    BY DEF v, w
  <2> QED BY <2>1, <2>5, <2>6, <2>7
<1>4. g \in [E \X (1 .. N) -> E]
  <2> HIDE DEF step, E, N
  <2> QED BY <1>3
<1>5. \A r \in E, k \in 1 .. N : g[<<r, k>>] = step(r, k)
  BY DEF g
<1> HIDE DEF N, E, g, base
<1>6. PICK f : Rounds(N, E, base, g, f)
  BY <1>1, <1>2, <1>4, CountedLoop
<1>7. f \in [0 .. N -> E] /\ f[0] = base /\ \A k \in 1 .. N : f[k] = step(f[k - 1], k)
  <2>1. f \in [0 .. N -> E] /\ f[0] = base /\ \A k \in 1 .. N : f[k] = g[<<f[k - 1], k>>]
    BY <1>6 DEF Rounds
  <2>2. \A k \in 1 .. N : f[k - 1] \in E
    BY <1>1, <2>1
  <2> HIDE DEF step
  <2> QED BY <2>1, <2>2, <1>5
<1>8. Loop(f)
  <2>1. \A k \in 0 .. N : k # 0 => k \in 1 .. N
    BY <1>1
  <2> QED BY <1>7, <2>1, Zenon
<1>9. ASSUME NEW h, Loop(h) PROVE h = f
  <2>1. \A k \in 1 .. N : k \in 0 .. N /\ k # 0
    BY <1>1
  <2>2. h[0] = base /\ \A k \in 1 .. N : h[k] = step(h[k - 1], k)
    <3>1. 0 \in 0 .. N
      BY <1>1
    <3> QED BY <1>9, <2>1, <3>1, Zenon
  <2>3. DOMAIN h = 0 .. N /\ h = [k \in 0 .. N |-> h[k]]
    BY <1>9
  <2> HIDE DEF step, Loop
  <2>4. \A k \in 1 .. N : f[k - 1] = h[k - 1] => f[k] = h[k]
    BY <1>7, <2>2
  <2>5. DOMAIN f = 0 .. N /\ f = [k \in 0 .. N |-> f[k]] /\ f[0] = h[0]
    BY <1>7, <2>2
  <2> QED BY <1>1, <2>3, <2>4, <2>5, SameRounds
<1>10. PICK h : Loop(h) /\ Tokens(text) = h[N]
  BY <1>8, Zenon DEF Tokens, N, base
<1>11. Tokens(text) = f[N]
  BY <1>9, <1>10, Zenon
<1>12. N \in 0 .. N
  BY <1>1
<1> QED BY <1>7, <1>11, <1>12 DEF E

LEMMA SpelledIs ==
  ASSUME NEW s \in Seq(Texts)
  PROVE  Spelled(s) \in Texts /\ Spelled(s) # <<>>
<1> DEFINE N == Len(s)
           E == {t \in Texts : t # <<>>}
           next(k) == IF k = 1 THEN s[k] ELSE <<"/">> \o s[k]
           base == <<"/">>
           g == [x \in E \X (1 .. N) |-> x[1] \o next(x[2])]
           Loop(h) == h = [k \in 0 .. N |-> IF k = 0 THEN base
                                            ELSE h[k - 1] \o (IF k = 1 THEN s[k] ELSE <<"/">> \o s[k])]
<1>1. N \in Nat /\ \A k \in 1 .. N : s[k] \in Texts
  BY LenProperties, ElementOfSeq
<1>2. base \in Texts /\ base \in E
  BY PathAssumption DEF Texts
<1>3. ASSUME NEW k \in 1 .. N PROVE next(k) \in Texts
  <2>1. <<"/">> \o s[k] \in Texts
    BY <1>1, <1>2, ConcatProperties DEF Texts
  <2> QED BY <1>1, <2>1
<1>4. ASSUME NEW t \in E, NEW k \in 1 .. N PROVE t \o next(k) \in E
  <2> HIDE DEF next, N
  <2>1. t \in Texts /\ t # <<>> /\ next(k) \in Texts
    BY <1>3
  <2> DEFINE u == next(k)
  <2> HIDE DEF u
  <2>2. u \in Seq(Byte) /\ t \in Seq(Byte)
    BY <2>1 DEF u, Texts
  <2>3. t \o u \in Seq(Byte) /\ Len(t \o u) = Len(t) + Len(u) /\ Len(t) \in Nat /\ Len(u) \in Nat
    BY <2>2, ConcatProperties, LenProperties
  <2>4. Len(t) # 0 /\ Len(<<>>) = 0
    BY <2>1, <2>2, EmptySeq
  <2>5. t \o u # <<>>
    BY <2>3, <2>4
  <2> QED BY <2>3, <2>5 DEF u, Texts
<1>5. g \in [E \X (1 .. N) -> E]
  <2> HIDE DEF next, E, N
  <2> QED BY <1>4
<1>6. \A t \in E, k \in 1 .. N : g[<<t, k>>] = t \o next(k)
  BY DEF g
<1> HIDE DEF N, E, g, base
<1>7. PICK f : Rounds(N, E, base, g, f)
  BY <1>1, <1>2, <1>5, CountedLoop
<1>8. f \in [0 .. N -> E] /\ f[0] = base /\ \A k \in 1 .. N : f[k] = f[k - 1] \o next(k)
  <2>1. f \in [0 .. N -> E] /\ f[0] = base /\ \A k \in 1 .. N : f[k] = g[<<f[k - 1], k>>]
    BY <1>7 DEF Rounds
  <2>2. \A k \in 1 .. N : f[k - 1] \in E
    BY <1>1, <2>1
  <2> HIDE DEF next
  <2> QED BY <2>1, <2>2, <1>6
<1>9. Loop(f)
  <2>1. \A k \in 0 .. N : k # 0 => k \in 1 .. N
    BY <1>1
  <2> QED BY <1>8, <2>1, Zenon
<1>10. ASSUME NEW h, Loop(h) PROVE h = f
  <2>1. \A k \in 1 .. N : k \in 0 .. N /\ k # 0
    BY <1>1
  <2>2. h[0] = base /\ \A k \in 1 .. N : h[k] = h[k - 1] \o next(k)
    <3>1. 0 \in 0 .. N
      BY <1>1
    <3> QED BY <1>10, <2>1, <3>1, Zenon
  <2>3. DOMAIN h = 0 .. N /\ h = [k \in 0 .. N |-> h[k]]
    BY <1>10
  <2> HIDE DEF next, Loop
  <2>4. \A k \in 1 .. N : f[k - 1] = h[k - 1] => f[k] = h[k]
    BY <1>8, <2>2
  <2>5. DOMAIN f = 0 .. N /\ f = [k \in 0 .. N |-> f[k]] /\ f[0] = h[0]
    BY <1>8, <2>2
  <2> QED BY <1>1, <2>3, <2>4, <2>5, SameRounds
<1>11. PICK h : Loop(h) /\ Spelled(s) = Cut(h[N], PathMax - 1)
  BY <1>9, Zenon DEF Spelled, N, base
<1>12. Spelled(s) = Cut(f[N], PathMax - 1)
  BY <1>10, <1>11, Zenon
<1>13. f[N] \in Texts /\ f[N] # <<>>
  <2>1. N \in 0 .. N
    BY <1>1
  <2> QED BY <1>8, <2>1 DEF E
<1>14. PathMax - 1 \in Nat /\ PathMax - 1 > 0
  BY PathAssumption
<1> QED BY <1>12, <1>13, <1>14, CutIs

LEMMA PathsResolve ==
  ASSUME NEW p \in Path, NEW in \in Inputs
  PROVE  WellResolved(Spelled(p), in)
<1> DEFINE s == Tokens(Joined(Spelled(p), in))
<1>1. s \in Seq(Texts)
  <2>1. p \in Seq(Texts) /\ in \in Texts
    BY PathAssumption DEF Texts
  <2> QED BY <2>1, SpelledIs, JoinedIs, TokensAre
<1>2. Resolve(Spelled(p), in) = Spelled(Stack(s))
  BY DEF Resolve
<1> HIDE DEF s
<1>3. ASSUME ~(\E k \in DOMAIN s : Len(Standing(s, k)) > DepthMax)
      PROVE  Stack(s) = Standing(s, Len(s))
  <2>1. ASSUME NEW k \in DOMAIN s PROVE Len(Standing(s, k)) <= DepthMax
    <3>1. DOMAIN s = 1 .. Len(s) /\ Len(s) \in Nat
      BY <1>1, LenProperties
    <3>2. Standing(s, k) \in Seq(Texts)
      BY <1>1, <3>1, StandingIs
    <3>3. Len(Standing(s, k)) \in Nat /\ ~(Len(Standing(s, k)) > DepthMax)
      BY <1>3, <3>2, LenProperties
    <3> QED BY <3>3, PathAssumption
  <2> QED BY <1>1, <2>1, StackStands
<1> QED BY <1>2, <1>3 DEF WellResolved, s

\* Whatever path a command is given, in whatever directory, it is the path that is meant,
\* for every size of the arrays of fs_resolve.
THEOREM PathsAreMeant == Spec => []ResolvesLexically
<1>1. ResolvesLexically
  BY PathsResolve DEF ResolvesLexically, GoodStart
<1> QED BY <1>1, PTL

---------------------------------------------------------------------------
(* The editors. *)

EditorTyped ==
  /\ buf \in [Cell -> Char] /\ len \in 0 .. EditMax /\ cur \in 0 .. len
  /\ top \in 0 .. EditMax /\ view \in Nat /\ topLine \in Nat
  /\ file \in Seq(Char)

\* Where the line of a position starts and ends.
LEMMA LineStartIs ==
  ASSUME NEW i \in 0 .. EditMax
  PROVE  /\ LineStart(i) \in 0 .. i
         /\ \A k \in LineStart(i) .. i - 1 : buf[k] # NL
         /\ LineStart(i) > 0 => buf[LineStart(i) - 1] = NL
<1>1. i \in Nat
  BY EditorAssumption
<1>2. CASE Newlines(i) = {}
  BY <1>1, <1>2 DEF LineStart, Newlines
<1>3. CASE Newlines(i) # {}
  <2> DEFINE N == Newlines(i)
             x == Max(N)
  <2>1. N \in SUBSET Nat /\ \A k \in N : k <= i
    BY <1>1 DEF Newlines
  <2>2. \E m \in N : \A k \in N : k <= m
    BY <1>1, <1>3, <2>1, GreatestOf
  <2>3. \E m \in N : \A k \in N : m >= k
    <3>1. \A a, b \in N : a <= b => b >= a
      BY <2>1
    <3> QED BY <2>2, <3>1
  <2>4. x \in N /\ \A k \in N : x >= k
    BY <2>3 DEF Max
  <2>5. LineStart(i) = x + 1
    BY <1>3 DEF LineStart
  <2> HIDE DEF x, N
  <2>6. x \in 0 .. i - 1 /\ buf[x] = NL
    BY <2>4 DEF N, Newlines
  <2>7. ASSUME NEW k \in x + 1 .. i - 1 PROVE buf[k] # NL
    <3>1. k \in 0 .. i - 1 /\ ~(x >= k)
      BY <1>1, <2>6
    <3>2. k \notin N
      BY <2>4, <3>1
    <3> QED BY <3>1, <3>2 DEF N, Newlines
  <2>8. x + 1 \in 0 .. i /\ (x + 1) - 1 = x
    BY <1>1, <2>6
  <2> QED BY <2>5, <2>6, <2>7, <2>8
<1> QED BY <1>2, <1>3

LEMMA LineEndIs ==
  ASSUME len \in Nat, NEW i \in Nat
  PROVE  /\ i >= len => LineEnd(i) = i
         /\ i < len => /\ LineEnd(i) \in i .. len
                       /\ \A k \in i .. LineEnd(i) - 1 : buf[k] # NL
                       /\ LineEnd(i) < len => buf[LineEnd(i)] = NL
<1>1. CASE i >= len
  BY <1>1 DEF LineEnd
<1>2. CASE i < len
  <2> DEFINE B == {len} \cup {k \in i .. len - 1 : buf[k] = NL}
             x == Min(B)
  <2>1. B \in SUBSET Nat /\ B # {}
    OBVIOUS
  <2>2. \E m \in B : \A k \in B : m <= k
    BY <2>1, LeastOf
  <2>3. x \in B /\ \A k \in B : x =< k
    BY <2>2 DEF Min
  <2>4. LineEnd(i) = x
    BY <1>2 DEF LineEnd
  <2> HIDE DEF x
  <2>5. x \in i .. len /\ (x < len => buf[x] = NL)
    BY <1>2, <2>3
  <2>6. ASSUME NEW k \in i .. x - 1 PROVE buf[k] # NL
    <3>1. k \in i .. len - 1 /\ ~(x =< k)
      BY <2>5
    <3> QED BY <2>3, <3>1
  <2> QED BY <1>2, <2>4, <2>5, <2>6
<1> QED BY <1>1, <1>2

\* The line of a position.
LEMMA LineOfIs ==
  ASSUME NEW i \in 0 .. EditMax
  PROVE  IsFiniteSet(Newlines(i)) /\ LineOf(i) \in 0 .. i
<1>1. i \in Nat /\ 0 \in Int /\ i - 1 \in Int
  BY EditorAssumption
<1>2. IsFiniteSet(0 .. i - 1) /\ Cardinality(0 .. i - 1) = i
  BY <1>1, FS_Interval
<1>3. Newlines(i) \in SUBSET (0 .. i - 1)
  BY DEF Newlines
<1>4. IsFiniteSet(Newlines(i)) /\ Cardinality(Newlines(i)) <= i
  BY <1>2, <1>3, FS_Subset
<1>5. Cardinality(Newlines(i)) \in Nat
  BY <1>4, FS_CardinalityType
<1> QED BY <1>1, <1>4, <1>5 DEF LineOf

LEMMA LineOfGrows ==
  ASSUME NEW j \in 0 .. EditMax, NEW i \in 0 .. j
  PROVE  /\ LineOf(i) <= LineOf(j)
         /\ (\A k \in i .. j - 1 : buf[k] # NL) => LineOf(i) = LineOf(j)
<1>1. i \in 0 .. EditMax /\ j \in Nat /\ i \in Nat
  BY EditorAssumption
<1>2. Newlines(i) \in SUBSET Newlines(j)
  BY <1>1 DEF Newlines
<1>3. LineOf(i) <= LineOf(j)
  BY <1>1, <1>2, LineOfIs, FS_Subset DEF LineOf
<1>4. ASSUME \A k \in i .. j - 1 : buf[k] # NL PROVE Newlines(i) = Newlines(j)
  <2>1. ASSUME NEW k \in Newlines(j) PROVE k \in Newlines(i)
    <3>1. k \in 0 .. j - 1 /\ k \notin i .. j - 1 /\ buf[k] = NL
      BY <1>4, <2>1 DEF Newlines
    <3>2. k \in 0 .. i - 1
      BY <1>1, <3>1
    <3> QED BY <3>1, <3>2 DEF Newlines
  <2> QED BY <1>2, <2>1
<1> QED BY <1>3, <1>4 DEF LineOf

LEMMA LineOfNext ==
  ASSUME NEW i \in Cell, buf[i] = NL
  PROVE  LineOf(i + 1) = LineOf(i) + 1
<1>1. i \in 0 .. EditMax /\ i \in Nat
  BY EditorAssumption DEF Cell
<1>2. Newlines(i + 1) = Newlines(i) \cup {i} /\ i \notin Newlines(i)
  <2>1. \A k : k \in 0 .. (i + 1) - 1 <=> k \in 0 .. i - 1 \/ k = i
    BY <1>1
  <2>2. i \notin 0 .. i - 1
    BY <1>1
  <2> QED BY <2>1, <2>2 DEF Newlines
<1> QED BY <1>1, <1>2, LineOfIs, FS_AddElement DEF LineOf

\* The two loops end, and what every round keeps holds then.
LEMMA UpIs ==
  ASSUME EditorTyped, NEW I \in SUBSET Place, \A s \in I : Above(s) => ScrollUp(s) \in I
  PROVE  \A s \in I : up[s] \in I /\ ~Above(up[s])
<1> DEFINE G == {s \in Place : Above(s)}
           step == [s \in Place |-> IF s \in G THEN ScrollUp(s) ELSE s]
           m == [s \in Place |-> s.line]
<1>1. ASSUME NEW s \in Place, Above(s)
      PROVE  ScrollUp(s) \in Place /\ ScrollUp(s).line < s.line
  <2>1. s.top \in 1 .. EditMax /\ s.line \in 0 .. EditMax /\ s.top - 1 \in 0 .. EditMax /\ EditMax \in Nat
    BY <1>1, EditorAssumption DEF Above, Place
  <2>2. LineOf(cur) \in Nat
    BY LineOfIs, EditorAssumption DEF EditorTyped
  <2>3. LineStart(s.top - 1) \in 0 .. s.top - 1
    BY <2>1, LineStartIs
  <2>4. s.line - 1 \in 0 .. EditMax /\ s.line - 1 < s.line /\ LineStart(s.top - 1) \in 0 .. EditMax
    BY <1>1, <2>1, <2>2, <2>3 DEF Above
  <2> QED BY <2>1, <2>4 DEF ScrollUp, Place
<1>2. step \in [Place -> Place]
  BY <1>1
<1>3. \A s \in G : step[s] = ScrollUp(s)
  OBVIOUS
<1>4. m \in [Place -> Nat]
  BY EditorAssumption DEF Place
<1>5. ASSUME NEW s \in G PROVE m[step[s]] < m[s]
  <2>1. step[s] = ScrollUp(s) /\ ScrollUp(s) \in Place /\ ScrollUp(s).line < s.line
    BY <1>1, <1>3
  <2> HIDE DEF step
  <2> QED BY <2>1
<1>6. G \in SUBSET Place /\ \A s \in G : m[step[s]] < m[s]
  BY <1>5
<1>7. \A s \in Place : s \in G <=> Above(s)
  OBVIOUS
<1> HIDE DEF G, step, m
<1>8. \E f : LoopFunction(Place, G, step, f)
  BY <1>2, <1>4, <1>6, LoopEnds
<1>9. \A f : LoopFunction(Place, G, step, f)
               <=> f = [s \in Place |-> IF Above(s) THEN f[ScrollUp(s)] ELSE s]
  BY <1>3, <1>7 DEF LoopFunction
<1>10. LoopFunction(Place, G, step, up)
  <2>1. \E f : f = [s \in Place |-> IF Above(s) THEN f[ScrollUp(s)] ELSE s]
    BY <1>8, <1>9
  <2>2. up = [s \in Place |-> IF Above(s) THEN up[ScrollUp(s)] ELSE s]
    BY <2>1 DEF up
  <2> QED BY <1>9, <2>2
<1>11. \A s \in I \cap G : step[s] \in I /\ m[step[s]] < m[s]
  BY <1>3, <1>6, <1>7
<1>12. \A s \in I : up[s] \in I \ G
  BY <1>4, <1>6, <1>10, <1>11, LoopKeeps
<1> QED BY <1>7, <1>12

LEMMA DownIs ==
  ASSUME EditorTyped, NEW I \in SUBSET Place, \A s \in I : Below(s) => ScrollDown(s) \in I
  PROVE  \A s \in I : down[s] \in I /\ ~Below(down[s])
<1> DEFINE G == {s \in Place : Below(s)}
           step == [s \in Place |-> IF s \in G THEN ScrollDown(s) ELSE s]
           m == [s \in Place |-> EditMax - s.line]
<1>1. ASSUME NEW s \in Place, Below(s)
      PROVE  ScrollDown(s) \in Place /\ EditMax - ScrollDown(s).line < EditMax - s.line
  <2>1. /\ s.top \in 0 .. EditMax /\ s.line \in 0 .. EditMax /\ EditMax \in Nat /\ Rows \in Nat \ {0}
        /\ len \in 0 .. EditMax /\ len \in Nat /\ s.top \in Nat
    BY <1>1, EditorAssumption DEF Place, EditorTyped
  <2>2. LineOf(cur) \in 0 .. EditMax
    <3>1. cur \in 0 .. EditMax /\ LineOf(cur) \in 0 .. cur
      BY LineOfIs, EditorAssumption DEF EditorTyped
    <3> QED BY <2>1, <3>1
  <2>3. s.line + 1 \in 0 .. EditMax /\ EditMax - (s.line + 1) < EditMax - s.line
    BY <1>1, <2>1, <2>2 DEF Below
  <2>4. (IF LineEnd(s.top) < len THEN LineEnd(s.top) + 1 ELSE len) \in 0 .. EditMax
    <3>1. CASE s.top >= len
      BY <2>1, <3>1, LineEndIs
    <3>2. CASE s.top < len
      <4>1. LineEnd(s.top) \in s.top .. len
        BY <2>1, <3>2, LineEndIs
      <4> QED BY <2>1, <4>1
    <3> QED BY <2>1, <3>1, <3>2
  <2> QED BY <2>1, <2>3, <2>4 DEF ScrollDown, Place
<1>2. step \in [Place -> Place]
  BY <1>1
<1>3. \A s \in G : step[s] = ScrollDown(s)
  OBVIOUS
<1>4. m \in [Place -> Nat]
  BY EditorAssumption DEF Place
<1>5. ASSUME NEW s \in G PROVE m[step[s]] < m[s]
  <2>1. step[s] = ScrollDown(s) /\ ScrollDown(s) \in Place
        /\ EditMax - ScrollDown(s).line < EditMax - s.line
    BY <1>1, <1>3
  <2> HIDE DEF step
  <2> QED BY <2>1
<1>6. G \in SUBSET Place /\ \A s \in G : m[step[s]] < m[s]
  BY <1>5
<1>7. \A s \in Place : s \in G <=> Below(s)
  OBVIOUS
<1> HIDE DEF G, step, m
<1>8. \E f : LoopFunction(Place, G, step, f)
  BY <1>2, <1>4, <1>6, LoopEnds
<1>9. \A f : LoopFunction(Place, G, step, f)
               <=> f = [s \in Place |-> IF Below(s) THEN f[ScrollDown(s)] ELSE s]
  BY <1>3, <1>7 DEF LoopFunction
<1>10. LoopFunction(Place, G, step, down)
  <2>1. \E f : f = [s \in Place |-> IF Below(s) THEN f[ScrollDown(s)] ELSE s]
    BY <1>8, <1>9
  <2>2. down = [s \in Place |-> IF Below(s) THEN down[ScrollDown(s)] ELSE s]
    BY <2>1 DEF down
  <2> QED BY <1>9, <2>2
<1>11. \A s \in I \cap G : step[s] \in I /\ m[step[s]] < m[s]
  BY <1>3, <1>6, <1>7
<1>12. \A s \in I : down[s] \in I \ G
  BY <1>4, <1>6, <1>10, <1>11, LoopKeeps
<1> QED BY <1>7, <1>12

\* From a screen that starts below the cursor the first loop ends on its line or at the
\* beginning of the text; from one above it the second counts the lines it passes.
LEMMA ScrolledFits ==
  ASSUME EditorTyped
  PROVE  /\ Scrolled \in Place /\ LineOf(cur) - Scrolled.line < Rows
         /\ LineOf(cur) - LineOf(Scrolled.top) < Rows
<1> DEFINE L == LineOf(cur)
           s0 == [top |-> top, line |-> LineOf(top)]
<1>1. /\ EditMax \in Nat /\ Rows \in Nat \ {0} /\ len \in Nat /\ cur \in 0 .. EditMax
      /\ top \in 0 .. EditMax /\ len \in 0 .. EditMax /\ cur <= len
  BY EditorAssumption DEF EditorTyped
<1>2. \A i \in 0 .. EditMax : LineOf(i) \in 0 .. i /\ LineOf(i) \in Nat /\ LineOf(i) \in 0 .. EditMax
  <2>1. ASSUME NEW i \in 0 .. EditMax PROVE LineOf(i) \in 0 .. EditMax
    <3>1. LineOf(i) \in 0 .. i
      BY LineOfIs
    <3> QED BY <1>1, <3>1
  <2> QED BY <1>1, <2>1, LineOfIs
<1>3. L \in Nat /\ s0 \in Place /\ s0.line = LineOf(s0.top)
  BY <1>1, <1>2 DEF Place
<1>4. Scrolled = down[up[s0]]
  BY DEF Scrolled
<1>5. ASSUME LineOf(top) > L PROVE /\ Scrolled \in Place /\ L - Scrolled.line < Rows
                                   /\ L - LineOf(Scrolled.top) < Rows
  <2> DEFINE I == {s \in Place : s.line >= L /\ s.line <= LineOf(s.top)}
  <2>1. ASSUME NEW s \in I, Above(s) PROVE ScrollUp(s) \in I
    <3>1. /\ s.top \in 1 .. EditMax /\ s.line \in 0 .. EditMax /\ s.line > L
          /\ s.top - 1 \in 0 .. EditMax /\ s.top - 1 \in Cell /\ s.line <= LineOf(s.top)
          /\ (s.top - 1) + 1 = s.top
      BY <1>1, <1>3, <2>1 DEF Above, Place, Cell
    <3>2. CASE buf[s.top - 1] = NL
      <4>1. LineOf(s.top) = LineOf(s.top - 1) + 1
        BY <3>1, <3>2, LineOfNext
      <4>2. s.line - 1 >= L /\ s.line - 1 <= LineOf(s.top - 1) /\ s.line - 1 \in 0 .. EditMax
        <5>1. LineOf(s.top - 1) \in Nat
          BY <1>2, <3>1
        <5> HIDE DEF L
        <5> QED BY <1>1, <1>3, <3>1, <4>1, <5>1
      <4>3. ScrollUp(s) = [top |-> s.top - 1, line |-> s.line - 1]
        BY <3>2 DEF ScrollUp
      <4> QED BY <3>1, <4>2, <4>3 DEF Place
    <3>3. CASE buf[s.top - 1] # NL
      <4> DEFINE b == LineStart(s.top - 1)
      <4>1. b \in 0 .. s.top - 1 /\ \A k \in b .. (s.top - 1) - 1 : buf[k] # NL
        BY <3>1, LineStartIs
      <4>2. b \in 0 .. EditMax /\ b \in 0 .. s.top
        BY <1>1, <3>1, <4>1
      <4>3. \A k \in b .. s.top - 1 : buf[k] # NL
        <5>1. \A k \in b .. s.top - 1 : k = s.top - 1 \/ k \in b .. (s.top - 1) - 1
          BY <3>1, <4>2
        <5> QED BY <3>3, <4>1, <5>1
      <4> HIDE DEF b
      <4>4. LineOf(b) = LineOf(s.top)
        BY <3>1, <4>2, <4>3, LineOfGrows
      <4>5. s.line - 1 >= L /\ s.line - 1 <= LineOf(b) /\ s.line - 1 \in 0 .. EditMax
        <5>1. LineOf(b) \in Nat
          BY <1>2, <4>2
        <5> HIDE DEF L
        <5> QED BY <1>1, <1>3, <3>1, <4>4, <5>1
      <4>6. ScrollUp(s) = [top |-> b, line |-> s.line - 1]
        BY <3>3 DEF ScrollUp, b
      <4> QED BY <4>2, <4>5, <4>6 DEF Place
    <3> QED BY <3>2, <3>3
  <2>2. I \in SUBSET Place /\ s0 \in I
    BY <1>1, <1>2, <1>3, <1>5
  <2>3. up[s0] \in I
    BY <2>1, <2>2, UpIs
  <2> DEFINE u == up[s0]
             J == {u}
  <2>4. u \in Place /\ u.line >= L /\ u.line <= LineOf(u.top) /\ u.line \in Nat /\ u.top \in 0 .. EditMax
    BY <1>1, <2>3 DEF Place
  <2> HIDE DEF u
  <2>5. ~Below(u)
    BY <1>1, <1>3, <2>4 DEF Below
  <2>6. J \in SUBSET Place /\ \A s \in J : Below(s) => ScrollDown(s) \in J
    BY <2>4, <2>5
  <2>7. \A s \in J : down[s] \in J
    BY <2>6, DownIs
  <2>8. Scrolled = u
    BY <1>4, <2>7 DEF u
  <2> QED BY <1>1, <1>2, <1>3, <2>4, <2>8
<1>6. ASSUME ~(LineOf(top) > L) PROVE /\ Scrolled \in Place /\ L - Scrolled.line < Rows
                                      /\ L - LineOf(Scrolled.top) < Rows
  <2> DEFINE I == {s \in Place : s.line = LineOf(s.top)}
             J == {s0}
  <2>1. ~Above(s0)
    BY <1>2, <1>3, <1>6 DEF Above
  <2>2. J \in SUBSET Place /\ \A s \in J : Above(s) => ScrollUp(s) \in J
    BY <1>3, <2>1
  <2>3. \A s \in J : up[s] \in J
    BY <2>2, UpIs
  <2>4. up[s0] = s0
    BY <2>3
  <2>5. ASSUME NEW s \in I, Below(s) PROVE ScrollDown(s) \in I
    <3>1. /\ s.top \in 0 .. EditMax /\ s.top \in Nat /\ s.line \in 0 .. EditMax /\ s.line = LineOf(s.top)
          /\ L >= s.line + Rows /\ L \in 0 .. EditMax
      BY <1>1, <1>2, <2>5 DEF Below, Place
    <3>2. s.top < cur
      <4> SUFFICES ASSUME cur <= s.top PROVE FALSE
        BY <1>1, <3>1
      <4>1. cur \in 0 .. s.top
        BY <1>1, <3>1
      <4>2. L <= s.line
        BY <3>1, <4>1, LineOfGrows
      <4> QED BY <1>1, <3>1, <4>2
    <3> DEFINE e == LineEnd(s.top)
    <3>3. /\ e \in s.top .. len /\ \A k \in s.top .. e - 1 : buf[k] # NL
          /\ e < len => buf[e] = NL
      BY <1>1, <3>1, <3>2, LineEndIs
    <3> HIDE DEF e
    <3>4. e \in 0 .. EditMax /\ s.top \in 0 .. e /\ e \in Nat
      BY <1>1, <3>1, <3>3
    <3>5. LineOf(s.top) = LineOf(e)
      BY <3>3, <3>4, LineOfGrows
    <3>6. e < len
      <4> SUFFICES ASSUME ~(e < len) PROVE FALSE
        OBVIOUS
      <4>1. cur \in 0 .. e
        BY <1>1, <3>3
      <4>2. L <= LineOf(e)
        BY <3>4, <4>1, LineOfGrows
      <4> QED BY <1>1, <3>1, <3>5, <4>2
    <3>7. e \in Cell /\ e + 1 \in 0 .. EditMax
      BY <1>1, <3>4, <3>6 DEF Cell
    <3>8. LineOf(e + 1) = s.line + 1
      BY <3>1, <3>3, <3>5, <3>6, <3>7, LineOfNext
    <3>9. ScrollDown(s) = [top |-> e + 1, line |-> s.line + 1]
      BY <3>6 DEF ScrollDown, e
    <3>10. s.line + 1 \in 0 .. EditMax
      BY <1>1, <3>1
    <3> QED BY <3>7, <3>8, <3>9, <3>10 DEF Place
  <2>6. I \in SUBSET Place /\ s0 \in I
    BY <1>3
  <2>7. down[s0] \in I /\ ~Below(down[s0])
    BY <2>5, <2>6, DownIs
  <2> DEFINE d == down[s0]
  <2>8. d \in Place /\ d.line = LineOf(d.top) /\ ~Below(d) /\ d.top \in 0 .. EditMax
    BY <2>7 DEF Place
  <2> HIDE DEF d
  <2>9. L - d.line < Rows
    <3>1. CASE d.top < len
      BY <1>1, <1>2, <1>3, <2>8, <3>1 DEF Below
    <3>2. CASE ~(d.top < len)
      <4>1. cur \in 0 .. d.top
        BY <1>1, <2>8, <3>2
      <4>2. L <= LineOf(d.top)
        BY <2>8, <4>1, LineOfGrows
      <4> QED BY <1>1, <1>2, <1>3, <2>8, <4>2
    <3> QED BY <3>1, <3>2
  <2>10. Scrolled = d
    BY <1>4, <2>4 DEF d
  <2> QED BY <2>8, <2>9, <2>10
<1> QED BY <1>5, <1>6

LEMMA EditorStarts == EditorInit => EditorTyped
BY EditorAssumption DEF EditorInit, EditorTyped, Cell

\* Where the keys move the cursor.
LEMMA CursorKeys ==
  ASSUME EditorTyped
  PROVE  /\ LineStart(cur) \in 0 .. cur
         /\ LineEnd(cur) \in cur .. len
         /\ LineStart(cur) > 0 =>
              LET prev == LineStart(LineStart(cur) - 1)
              IN  prev \in 0 .. LineStart(cur) - 1 /\ LineEnd(prev) \in prev .. LineStart(cur) - 1
         /\ LineEnd(cur) < len =>
              LineEnd(cur) + 1 \in 0 .. len /\ LineEnd(LineEnd(cur) + 1) \in LineEnd(cur) + 1 .. len
<1>1. /\ EditMax \in Nat /\ len \in Nat /\ len \in 0 .. EditMax /\ cur \in 0 .. EditMax /\ cur \in Nat
      /\ cur <= len
  BY EditorAssumption DEF EditorTyped
<1>2. ASSUME NEW i \in Nat, i <= len PROVE LineEnd(i) \in i .. len
  <2>1. CASE i >= len
    BY <1>1, <1>2, <2>1, LineEndIs
  <2>2. CASE i < len
    BY <1>1, <2>2, LineEndIs
  <2> QED BY <1>1, <2>1, <2>2
<1>3. LineStart(cur) \in 0 .. cur
  BY <1>1, LineStartIs
<1>4. LineEnd(cur) \in cur .. len
  BY <1>1, <1>2
<1>5. ASSUME LineStart(cur) > 0
      PROVE  LET prev == LineStart(LineStart(cur) - 1)
             IN  prev \in 0 .. LineStart(cur) - 1 /\ LineEnd(prev) \in prev .. LineStart(cur) - 1
  <2> DEFINE h == LineStart(cur)
             prev == LineStart(h - 1)
             e == LineEnd(prev)
  <2>1. buf[h - 1] = NL
    BY <1>1, <1>5, LineStartIs
  <2> HIDE DEF h
  <2>2. h \in Nat /\ h - 1 \in 0 .. EditMax /\ h <= len /\ h - 1 \in Nat
    BY <1>1, <1>3, <1>5 DEF h
  <2>3. prev \in 0 .. h - 1
    BY <2>2, LineStartIs
  <2> HIDE DEF prev
  <2>4. prev \in Nat /\ prev < len
    BY <1>1, <2>2, <2>3
  <2>5. e \in prev .. len /\ \A k \in prev .. e - 1 : buf[k] # NL
    BY <1>1, <2>4, LineEndIs
  <2> HIDE DEF e
  <2>6. h - 1 \notin prev .. e - 1
    BY <2>1, <2>5
  <2>7. e \in prev .. h - 1
    BY <2>2, <2>3, <2>4, <2>5, <2>6
  <2> QED BY <2>3, <2>7 DEF e, prev, h
<1>6. ASSUME LineEnd(cur) < len
      PROVE  LineEnd(cur) + 1 \in 0 .. len /\ LineEnd(LineEnd(cur) + 1) \in LineEnd(cur) + 1 .. len
  <2>1. LineEnd(cur) + 1 \in Nat /\ LineEnd(cur) + 1 <= len
    BY <1>1, <1>4, <1>6
  <2> QED BY <1>1, <1>2, <2>1
<1> QED BY <1>3, <1>4, <1>5, <1>6

LEMMA MovedIs ==
  ASSUME EditorTyped, NEW from \in Int, NEW d \in Int, from >= 0
  PROVE  Moved(from, d) \in [Cell -> Char]
<1>1. ASSUME NEW i \in Cell, i - d \in from .. len - 1 PROVE i - d \in Cell
  BY <1>1, EditorAssumption DEF EditorTyped, Cell
<1> QED BY <1>1 DEF Moved, EditorTyped

\* The keys that change or move.
Keyed == \/ \E c \in Char : Insert(c)
         \/ Backspace \/ DeleteKey \/ Ignored
         \/ MoveLeft \/ MoveRight \/ MoveHome \/ MoveEnd \/ MoveUp \/ MoveDown

LEMMA KeyedTyped == EditorTyped /\ Keyed => EditorTyped'
<1> SUFFICES ASSUME EditorTyped, Keyed PROVE EditorTyped'
  OBVIOUS
<1>1. /\ EditMax \in Nat /\ len \in 0 .. EditMax /\ len \in Nat /\ cur \in 0 .. len /\ cur \in Nat
      /\ buf \in [Cell -> Char] /\ top \in 0 .. EditMax /\ view \in Nat /\ topLine \in Nat /\ file \in Seq(Char)
  BY EditorAssumption DEF EditorTyped
<1>2. ASSUME NEW b \in [Cell -> Char], NEW n \in 0 .. EditMax, NEW c \in 0 .. n, Edited(b, n, c)
      PROVE  EditorTyped'
  BY <1>1, <1>2 DEF Edited, EditorTyped
<1>3. ASSUME NEW c \in 0 .. len, MoveTo(c) PROVE EditorTyped'
  BY <1>1, <1>2, <1>3 DEF MoveTo
<1>4. ASSUME NEW c \in Char, Insert(c) PROVE EditorTyped'
  <2>1. [Moved(cur, 1) EXCEPT ![cur] = c] \in [Cell -> Char]
    <3>1. Moved(cur, 1) \in [Cell -> Char]
      BY <1>1, MovedIs
    <3>2. \A f \in [Cell -> Char] : [f EXCEPT ![cur] = c] \in [Cell -> Char]
      OBVIOUS
    <3> QED BY <3>1, <3>2
  <2>2. len + 1 \in 0 .. EditMax /\ cur + 1 \in 0 .. len + 1
    BY <1>1, <1>4 DEF Insert
  <2> QED BY <1>2, <1>4, <2>1, <2>2 DEF Insert
<1>5. CASE Backspace
  <2>1. Moved(cur, -1) \in [Cell -> Char]
    BY <1>1, MovedIs
  <2>2. len - 1 \in 0 .. EditMax /\ cur - 1 \in 0 .. len - 1
    BY <1>1, <1>5 DEF Backspace
  <2> QED BY <1>2, <1>5, <2>1, <2>2 DEF Backspace
<1>6. CASE DeleteKey
  <2>1. Moved(cur + 1, -1) \in [Cell -> Char]
    BY <1>1, MovedIs
  <2>2. len - 1 \in 0 .. EditMax /\ cur \in 0 .. len - 1
    BY <1>1, <1>6 DEF DeleteKey
  <2> QED BY <1>2, <1>6, <2>1, <2>2 DEF DeleteKey
<1>7. LineStart(cur) \in 0 .. cur /\ LineEnd(cur) \in cur .. len
  BY CursorKeys
<1>8. CASE Ignored \/ MoveLeft \/ MoveRight \/ MoveHome \/ MoveEnd
  BY <1>1, <1>3, <1>7, <1>8 DEF Ignored, MoveLeft, MoveRight, MoveHome, MoveEnd
<1>9. Column \in Nat
  BY <1>1, <1>7 DEF Column
<1>10. CASE MoveUp
  <2> DEFINE prev == LineStart(LineStart(cur) - 1)
             c == AtMost(prev + Column, LineEnd(prev))
  <2>1. prev \in 0 .. LineStart(cur) - 1 /\ LineEnd(prev) \in prev .. LineStart(cur) - 1
    BY <1>10, CursorKeys DEF MoveUp
  <2>2. MoveTo(c)
    BY <1>10 DEF MoveUp
  <2> HIDE DEF prev
  <2>3. c \in 0 .. len
    BY <1>1, <1>7, <1>9, <2>1 DEF AtMost
  <2> QED BY <1>3, <2>2, <2>3
<1>11. CASE MoveDown
  <2> DEFINE next == LineEnd(cur) + 1
             c == AtMost(next + Column, LineEnd(next))
  <2>1. next \in 0 .. len /\ LineEnd(next) \in next .. len
    BY <1>11, CursorKeys DEF MoveDown
  <2>2. MoveTo(c)
    BY <1>11 DEF MoveDown
  <2> HIDE DEF next
  <2>3. c \in 0 .. len
    BY <1>1, <1>9, <2>1 DEF AtMost
  <2> QED BY <1>3, <2>2, <2>3
<1> QED BY <1>4, <1>5, <1>6, <1>8, <1>10, <1>11 DEF Keyed

LEMMA EditorKeeps == EditorTyped /\ [EditorNext]_editorVars => EditorTyped'
<1> SUFFICES ASSUME EditorTyped, [EditorNext]_editorVars PROVE EditorTyped'
  OBVIOUS
<1>1. /\ EditMax \in Nat /\ len \in 0 .. EditMax /\ len \in Nat /\ cur \in 0 .. len /\ cur \in Nat
      /\ buf \in [Cell -> Char] /\ top \in 0 .. EditMax /\ view \in Nat /\ topLine \in Nat /\ file \in Seq(Char)
  BY EditorAssumption DEF EditorTyped
<1>2. CASE Draw
  <2>1. Scrolled \in Place
    BY ScrolledFits
  <2>2. Scrolled.top \in 0 .. EditMax /\ Scrolled.line \in Nat
    BY <1>1, <2>1 DEF Place
  <2>3. LineOf(Scrolled.top) \in Nat
    BY <2>2, LineOfIs
  <2>4. ViewAfter \in Nat
    <3>1. Column \in Nat
      BY <1>1, CursorKeys DEF Column
    <3> QED BY <1>1, <3>1, EditorAssumption DEF ViewAfter
  <2>5. topLine' \in Nat
    BY <1>2, <2>2, <2>3 DEF Draw
  <2> QED BY <1>1, <1>2, <2>2, <2>4, <2>5 DEF Draw, EditorTyped
<1>3. CASE Keyed
  BY <1>3, KeyedTyped
<1>4. ASSUME NEW ok \in BOOLEAN, Save(ok) \/ SaveAndExit(ok) PROVE EditorTyped'
  <2>1. BufText \in Seq(Char)
    <3>1. \A i \in 1 .. len : i - 1 \in Cell
      BY <1>1 DEF Cell
    <3> QED BY <1>1, <3>1 DEF BufText
  <2>2. file' \in Seq(Char) /\ UNCHANGED <<buf, len, cur, top, view, topLine>>
    BY <1>1, <1>4, <2>1 DEF Save, SaveAndExit, Written
  <2> QED BY <1>1, <2>2 DEF EditorTyped, Cell
<1>5. ASSUME NEW w \in BOOLEAN, Start(w) PROVE EditorTyped'
  <2> DEFINE n == AtMost(Len(file), EditMax)
  <2>1. Len(file) \in Nat /\ \A i \in 1 .. Len(file) : file[i] \in Char
    BY <1>1
  <2>2. n \in 0 .. EditMax /\ n <= Len(file)
    BY <1>1, <2>1 DEF AtMost
  <2>3. buf' = [i \in Cell |-> IF i < n THEN file[i + 1] ELSE buf[i]] /\ len' = n /\ cur' = n
    BY <1>5 DEF Start
  <2> HIDE DEF n
  <2>4. \A i \in Cell : i < n => i + 1 \in 1 .. Len(file)
    BY <2>1, <2>2 DEF Cell
  <2>5. buf' \in [Cell -> Char]
    BY <1>1, <2>1, <2>3, <2>4
  <2> QED BY <1>1, <1>5, <2>2, <2>3, <2>5 DEF Start, EditorTyped
<1>6. CASE Escape \/ UNCHANGED editorVars
  BY <1>1, <1>6 DEF Escape, editorVars, EditorTyped
<1> QED BY <1>2, <1>3, <1>4, <1>5, <1>6 DEF EditorNext, Keyed

LEMMA EditorSpecTyped == EditorSpec => []EditorTyped
BY EditorStarts, EditorKeeps, PTL DEF EditorSpec

\* Once drawn, the cursor is on the screen: the line the first row is taken for is at most
\* Rows - 1 above the cursor's, however far behind the end of the text the screen began.
THEOREM CursorIsShown == EditorSpec => []CursorOnScreen
<1>1. EditorInit => CursorOnScreen
  BY DEF EditorInit, CursorOnScreen
<1>2. EditorTyped /\ CursorOnScreen /\ [EditorNext]_editorVars => CursorOnScreen'
  <2> SUFFICES ASSUME EditorTyped, CursorOnScreen, [EditorNext]_editorVars, open', drawn'
               PROVE  (LineOf(cur) - topLine < Rows /\ cur - LineStart(cur) - view \in 0 .. Cols - 1)'
    BY DEF CursorOnScreen
  <2>1. CASE Draw
    <3>1. LineOf(cur)' = LineOf(cur) /\ LineStart(cur)' = LineStart(cur)
      BY <2>1 DEF Draw, LineOf, LineStart, Newlines
    <3>2. LineOf(cur) - topLine' < Rows
      BY <2>1, ScrolledFits DEF Draw
    <3>3. cur - LineStart(cur) \in Nat /\ Cols \in Nat \ {0} /\ view \in Nat
      BY CursorKeys, EditorAssumption DEF EditorTyped
    <3>4. (cur - LineStart(cur)) - ViewAfter \in 0 .. Cols - 1
      BY <3>3 DEF ViewAfter, Column
    <3>5. cur' = cur /\ view' = ViewAfter
      BY <2>1 DEF Draw
    <3> QED BY <3>1, <3>2, <3>4, <3>5
  <2>2. CASE UNCHANGED editorVars
    BY <2>2 DEF CursorOnScreen, editorVars, LineOf, LineStart, Newlines
  <2>3. ~Keyed /\ (\A ok \in BOOLEAN : ~Save(ok) /\ ~SaveAndExit(ok)) /\ ~Escape
        /\ \A w \in BOOLEAN : ~Start(w)
    BY DEF Keyed, Insert, Backspace, DeleteKey, Ignored, MoveLeft, MoveRight, MoveHome, MoveEnd,
           MoveUp, MoveDown, MoveTo, Edited, Save, SaveAndExit, Escape, Start
  <2> QED BY <2>1, <2>2, <2>3 DEF EditorNext, Keyed
<1> QED BY <1>1, <1>2, EditorSpecTyped, PTL DEF EditorSpec

\* What edit.c says at the next drawing is true, and it does not say it of an older text.
SavedStays ==
  ~windowed => /\ claim => file = BufText
               /\ flash => ~drawn /\ file = BufText

THEOREM SavedIsSaved == EditorSpec => []SavedMeansSaved
<1>1. EditorInit => SavedStays
  BY DEF EditorInit, SavedStays
<1>2. SavedStays /\ [EditorNext]_editorVars => SavedStays'
  <2> SUFFICES ASSUME SavedStays, [EditorNext]_editorVars PROVE SavedStays'
    OBVIOUS
  <2>1. CASE Draw
    BY <2>1 DEF Draw, SavedStays, BufText
  <2>2. CASE Keyed
    <3>1. PICK b, n, c : Edited(b, n, c) /\ Reads
      BY <2>2 DEF Keyed, Insert, Backspace, DeleteKey, Ignored, MoveLeft, MoveRight, MoveHome, MoveEnd,
                  MoveUp, MoveDown, MoveTo
    <3> QED BY <3>1 DEF Edited, Reads, SavedStays
  <2>3. ASSUME NEW ok \in BOOLEAN, Save(ok) PROVE SavedStays'
    <3>1. BufText' = BufText
      BY <2>3 DEF Save, BufText
    <3> QED BY <2>3, <3>1 DEF Save, Reads, Written, SavedStays
  <2>4. ASSUME NEW ok \in BOOLEAN, SaveAndExit(ok) PROVE SavedStays'
    <3>1. BufText' = BufText
      BY <2>4 DEF SaveAndExit, BufText
    <3> QED BY <2>4, <3>1 DEF SaveAndExit, Reads, Written, SavedStays
  <2>5. CASE Escape \/ UNCHANGED editorVars
    BY <2>5 DEF Escape, editorVars, SavedStays, BufText
  <2>6. ASSUME NEW w \in BOOLEAN, Start(w) PROVE SavedStays'
    BY <2>6 DEF Start, SavedStays
  <2> QED BY <2>1, <2>2, <2>3, <2>4, <2>5, <2>6 DEF EditorNext, Keyed
<1>3. SavedStays => SavedMeansSaved
  BY DEF SavedStays, SavedMeansSaved
<1> QED BY <1>1, <1>2, <1>3, PTL DEF EditorSpec
---------------------------------------------------------------------------
(* The array is a text with a cursor.                                      *)

\* The cells i .. j - 1 as a sequence.
Cells(b, i, j) == [k \in 1 .. j - i |-> b[i + k - 1]]

LEMMA CellsSeq ==
  ASSUME NEW b \in [Cell -> Char], NEW j \in 0 .. EditMax, NEW i \in 0 .. j
  PROVE  /\ Cells(b, i, j) \in Seq(Char) /\ Len(Cells(b, i, j)) = j - i /\ j - i \in Nat
         /\ \A k \in 1 .. j - i : Cells(b, i, j)[k] = b[i + k - 1] /\ i + k - 1 \in Cell
<1>1. \A k \in 1 .. j - i : i + k - 1 \in Cell /\ b[i + k - 1] \in Char
  <2>1. \A k \in 1 .. j - i : i + k - 1 \in Cell
    BY EditorAssumption DEF Cell
  <2> QED BY <2>1
<1>2. j - i \in Nat
  BY EditorAssumption
<1> QED BY <1>1, <1>2 DEF Cells

LEMMA CellsSub ==
  ASSUME NEW b \in [Cell -> Char], NEW n \in 0 .. EditMax, NEW d \in 0 .. n, NEW c \in 0 .. d
  PROVE  SubSeq(Cells(b, 0, n), c + 1, d) = Cells(b, c, d)
<1> DEFINE t == Cells(b, 0, n)
           s == SubSeq(t, c + 1, d)
           r == Cells(b, c, d)
<1>1. /\ n \in Nat /\ c \in Nat /\ d \in Nat /\ c <= d /\ d <= n /\ d \in 0 .. EditMax
      /\ 0 \in 0 .. n /\ n - 0 = n
  BY EditorAssumption
<1>2. /\ t \in Seq(Char) /\ Len(t) = n
      /\ \A k \in 1 .. n : t[k] = b[0 + k - 1] /\ t[k] \in Char
  <2>1. t \in Seq(Char) /\ Len(t) = n - 0 /\ \A k \in 1 .. n - 0 : t[k] = b[0 + k - 1]
    BY <1>1, CellsSeq
  <2> HIDE DEF t
  <2>2. Len(t) = n /\ \A k \in 1 .. n : t[k] = b[0 + k - 1]
    BY <1>1, <2>1
  <2>3. DOMAIN t = 1 .. n /\ \A k \in 1 .. n : t[k] \in Char
    BY <1>1, <2>1, <2>2
  <2> QED BY <2>1, <2>2, <2>3
<1>3. /\ r \in Seq(Char) /\ Len(r) = d - c
      /\ \A k \in 1 .. d - c : r[k] = b[c + k - 1]
  BY <1>1, CellsSeq
<1> HIDE DEF t, r
<1>4. \A i \in c + 1 .. d : i \in 1 .. n
  BY <1>1
<1>5. /\ s \in Seq(Char) /\ Len(s) = (IF c + 1 <= d THEN d - (c + 1) + 1 ELSE 0)
      /\ \A i \in 1 .. d - (c + 1) + 1 : s[i] = t[(c + 1) + i - 1]
  <2>1. c + 1 \in Int /\ d \in Int /\ \A i \in c + 1 .. d : t[i] \in Char
    BY <1>1, <1>2, <1>4
  <2> QED BY <2>1, SubSeqProperties
<1> HIDE DEF s
<1>6. Len(s) = d - c /\ d - (c + 1) + 1 = d - c
  BY <1>1, <1>5
<1>7. ASSUME NEW i \in 1 .. d - c PROVE s[i] = r[i]
  <2>1. (c + 1) + i - 1 = c + i /\ c + i \in 1 .. n /\ 0 + (c + i) - 1 = c + i - 1
    BY <1>1
  <2> QED BY <1>2, <1>3, <1>5, <1>6, <2>1
<1> QED BY <1>3, <1>5, <1>6, <1>7, SeqEqual DEF s, t, r

LEMMA CellsCat ==
  ASSUME NEW b \in [Cell -> Char], NEW n \in 0 .. EditMax, NEW c \in 0 .. n
  PROVE  Cells(b, 0, c) \o Cells(b, c, n) = Cells(b, 0, n)
<1> DEFINE s == Cells(b, 0, c)
           t == Cells(b, c, n)
           r == Cells(b, 0, n)
<1>1. n \in Nat /\ c \in Nat /\ c <= n /\ c \in 0 .. EditMax /\ 0 \in 0 .. n /\ 0 \in 0 .. c
  BY EditorAssumption
<1>2. s \in Seq(Char) /\ Len(s) = c - 0 /\ \A k \in 1 .. c - 0 : s[k] = b[0 + k - 1]
  BY <1>1, CellsSeq
<1>3. t \in Seq(Char) /\ Len(t) = n - c /\ \A k \in 1 .. n - c : t[k] = b[c + k - 1]
  BY <1>1, CellsSeq
<1>4. r \in Seq(Char) /\ Len(r) = n - 0 /\ \A k \in 1 .. n - 0 : r[k] = b[0 + k - 1]
  BY <1>1, CellsSeq
<1> HIDE DEF s, t, r
<1>5. /\ s \o t \in Seq(Char) /\ Len(s \o t) = n
      /\ \A i \in 1 .. n : (s \o t)[i] = IF i <= c THEN s[i] ELSE t[i - c]
  <2>1. Len(s) = c /\ Len(s) + Len(t) = n
    BY <1>1, <1>2, <1>3
  <2>2. /\ s \o t \in Seq(Char) /\ Len(s \o t) = Len(s) + Len(t)
        /\ \A i \in 1 .. Len(s) + Len(t) : (s \o t)[i] = IF i <= Len(s) THEN s[i] ELSE t[i - Len(s)]
    BY <1>2, <1>3, ConcatProperties
  <2> QED BY <2>1, <2>2
<1>6. ASSUME NEW i \in 1 .. n PROVE (s \o t)[i] = r[i]
  <2>1. r[i] = b[i - 1]
    <3>1. i \in 1 .. n - 0 /\ 0 + i - 1 = i - 1
      BY <1>1
    <3> QED BY <1>4, <3>1
  <2>2. CASE i <= c
    <3>1. i \in 1 .. c - 0 /\ 0 + i - 1 = i - 1
      BY <1>1, <2>2
    <3>2. (s \o t)[i] = s[i]
      BY <1>5, <2>2
    <3> QED BY <1>2, <2>1, <3>1, <3>2
  <2>3. CASE ~(i <= c)
    <3>1. i - c \in 1 .. n - c /\ c + (i - c) - 1 = i - 1
      BY <1>1, <2>3
    <3>2. (s \o t)[i] = t[i - c]
      BY <1>5, <2>3
    <3>3. t[i - c] = b[c + (i - c) - 1]
      BY <1>3, <3>1
    <3> QED BY <2>1, <3>1, <3>2, <3>3
  <2> QED BY <2>2, <2>3
<1>7. Len(s \o t) = n /\ Len(r) = n
  BY <1>1, <1>4, <1>5
<1> QED BY <1>4, <1>5, <1>6, <1>7, SeqEqual DEF s, t, r

\* The line and the column of a position are those of the text before it.
LEMMA BufferCounts == \A S : Buffer!Cardinality(S) = Cardinality(S)
BY DEF Cardinality, Buffer!Cardinality

\* What the abstract editor sees of the array.
Before(b, c)   == Cells(b, 0, c)
After(b, n, c) == Cells(b, c, n)

LEMMA BufferIs ==
  ASSUME NEW b \in [Cell -> Char], NEW n \in 0 .. EditMax, NEW c \in 0 .. n
  PROVE  LET t == [i \in 1 .. n |-> b[i - 1]]
         IN  /\ SubSeq(t, 1, c) = Before(b, c) /\ SubSeq(t, c + 1, n) = After(b, n, c)
             /\ Before(b, c) \o After(b, n, c) = t /\ t = Cells(b, 0, n)
<1> DEFINE t == [i \in 1 .. n |-> b[i - 1]]
<1>1. /\ n \in Nat /\ c \in Nat /\ 0 + 1 = 1 /\ 0 \in 0 .. c /\ n \in 0 .. n /\ c \in 0 .. EditMax
      /\ n - 0 = n
  BY EditorAssumption
<1>2. t = Cells(b, 0, n)
  <2>1. \A k \in 1 .. n : 0 + k - 1 = k - 1
    BY <1>1
  <2> QED BY <1>1, <2>1 DEF Cells
<1> HIDE DEF t
<1>3. SubSeq(Cells(b, 0, n), 0 + 1, c) = Cells(b, 0, c)
  BY <1>1, CellsSub
<1>4. SubSeq(Cells(b, 0, n), c + 1, n) = Cells(b, c, n)
  BY <1>1, CellsSub
<1>5. Cells(b, 0, c) \o Cells(b, c, n) = Cells(b, 0, n)
  BY CellsCat
<1>6. SubSeq(t, 1, c) = Before(b, c) /\ SubSeq(t, c + 1, n) = After(b, n, c)
      /\ Before(b, c) \o After(b, n, c) = t /\ t = Cells(b, 0, n)
  BY <1>1, <1>2, <1>3, <1>4, <1>5 DEF Before, After
<1> QED BY <1>6 DEF t

LEMMA LineOfText ==
  ASSUME EditorTyped, NEW i \in 0 .. len
  PROVE  /\ Buffer!Line(Before(buf, i)) = LineOf(i)
         /\ Buffer!Column(Before(buf, i)) = i - LineStart(i)
         /\ Len(Before(buf, i)) = i
<1> DEFINE t == Before(buf, i)
           N == Newlines(i)
           B == Buffer!Breaks(t)
<1>1. i \in 0 .. EditMax /\ i \in Nat /\ i - 0 = i /\ 0 \in 0 .. i /\ buf \in [Cell -> Char]
  BY EditorAssumption DEF EditorTyped
<1>2. Len(t) = i /\ \A k \in 1 .. i : t[k] = buf[k - 1]
  <2>1. Len(t) = i - 0 /\ \A k \in 1 .. i - 0 : t[k] = buf[0 + k - 1]
    BY <1>1, CellsSeq DEF Before
  <2>2. \A k \in 1 .. i : 0 + k - 1 = k - 1
    BY <1>1
  <2> HIDE DEF t
  <2> QED BY <1>1, <2>1, <2>2
<1> HIDE DEF t
<1>3. B = {k \in 1 .. i : buf[k - 1] = NL}
  BY <1>2 DEF Buffer!Breaks
<1>4. N = {k \in 0 .. i - 1 : buf[k] = NL}
  BY DEF Newlines
<1> HIDE DEF B, N
<1>5. \A k \in N : k + 1 \in B /\ k \in Nat
  BY <1>1, <1>3, <1>4
<1>6. \A k \in B : k - 1 \in N /\ k \in Nat /\ (k - 1) + 1 = k
  BY <1>1, <1>3, <1>4
<1>7. Cardinality(B) = Cardinality(N)
  <2> DEFINE f == [k \in N |-> k + 1]
  <2>1. f \in [N -> B]
    BY <1>5
  <2>2. \A a, b \in N : f[a] = f[b] => a = b
    BY <1>5
  <2>3. \A b \in B : \E a \in N : f[a] = b
    BY <1>6
  <2> HIDE DEF f
  <2>4. f \in Bijection(N, B)
    BY <2>1, <2>2, <2>3, Fun_IsBij
  <2>5. ExistsBijection(N, B)
    BY <2>4 DEF ExistsBijection
  <2>6. IsFiniteSet(N)
    BY <1>1, LineOfIs DEF N
  <2> QED BY <2>5, <2>6, FS_Bijection
<1>8. Buffer!Line(t) = LineOf(i)
  BY <1>7, BufferCounts DEF Buffer!Line, LineOf, B, N
<1>9. Buffer!Max({0} \cup B) = LineStart(i)
  <2> DEFINE M == {0} \cup B
             h == LineStart(i)
  <2>1. h \in 0 .. i /\ (\A k \in h .. i - 1 : buf[k] # NL) /\ (h > 0 => buf[h - 1] = NL)
    BY <1>1, LineStartIs
  <2> HIDE DEF h
  <2>2. h \in M
    BY <1>1, <1>3, <2>1
  <2>3. ASSUME NEW y \in M PROVE h >= y
    <3>1. CASE y = 0
      BY <1>1, <2>1, <3>1
    <3>2. CASE y \in B
      <4>1. y \in 1 .. i /\ buf[y - 1] = NL /\ y - 1 \notin h .. i - 1
        BY <1>3, <2>1, <3>2
      <4> QED BY <1>1, <2>1, <4>1
    <3> QED BY <3>1, <3>2
  <2>4. \A x \in M : x \in Nat
    BY <1>6
  <2> HIDE DEF M
  <2>5. \A x \in M : (\A y \in M : x >= y) => x = h
    <3>1. \A a, b \in Nat : a >= b /\ b >= a => a = b
      OBVIOUS
    <3> QED BY <2>2, <2>3, <2>4, <3>1
  <2>6. Buffer!Max(M) = h
    BY <2>2, <2>3, <2>5 DEF Buffer!Max
  <2> QED BY <2>6 DEF M, h
<1>10. Buffer!Column(t) = i - LineStart(i)
  BY <1>2, <1>9 DEF Buffer!Column, B
<1> QED BY <1>2, <1>8, <1>10 DEF t

LEMMA BufferNow ==
  ASSUME EditorTyped
  PROVE  /\ SubSeq(BufText, 1, cur) = Before(buf, cur)
         /\ SubSeq(BufText, cur + 1, len) = After(buf, len, cur)
         /\ Buffer!Text = Cells(buf, 0, len) /\ Len(Buffer!Text) = len
<1>1. /\ SubSeq(BufText, 1, cur) = Before(buf, cur)
      /\ SubSeq(BufText, cur + 1, len) = After(buf, len, cur)
      /\ Before(buf, cur) \o After(buf, len, cur) = BufText
      /\ BufText = Cells(buf, 0, len)
  BY BufferIs DEF EditorTyped, BufText
<1>2. Buffer!Text = Cells(buf, 0, len)
  BY <1>1 DEF Buffer!Text
<1>3. Len(Cells(buf, 0, len)) = len
  <2>1. len \in Nat /\ 0 \in 0 .. len /\ len - 0 = len /\ buf \in [Cell -> Char] /\ len \in 0 .. EditMax
    BY EditorAssumption DEF EditorTyped
  <2> QED BY <2>1, CellsSeq
<1> QED BY <1>1, <1>2, <1>3

LEMMA BufferNext ==
  ASSUME EditorTyped'
  PROVE  /\ (SubSeq(BufText, 1, cur))' = Before(buf', cur')
         /\ (SubSeq(BufText, cur + 1, len))' = After(buf', len', cur')
<1> DEFINE t == [i \in 1 .. len' |-> buf'[i - 1]]
<1>1. buf' \in [Cell -> Char] /\ len' \in 0 .. EditMax /\ cur' \in 0 .. len'
  BY DEF EditorTyped, Cell
<1>2. SubSeq(t, 1, cur') = Before(buf', cur') /\ SubSeq(t, cur' + 1, len') = After(buf', len', cur')
  BY <1>1, BufferIs
<1>3. BufText' = t
  BY DEF BufText
<1> HIDE DEF t
<1> QED BY <1>2, <1>3

\* A move of the cursor.
LEMMA MoveIsAt ==
  ASSUME EditorTyped, EditorTyped', NEW k \in 0 .. len, MoveTo(k)
  PROVE  /\ Buffer!At(k)
         /\ (SubSeq(BufText, 1, cur))' = Before(buf, k)
         /\ (SubSeq(BufText, cur + 1, len))' = After(buf, len, k)
<1>1. buf' = buf /\ len' = len /\ cur' = k
  BY DEF MoveTo, Edited
<1>2. /\ (SubSeq(BufText, 1, cur))' = Before(buf, k)
      /\ (SubSeq(BufText, cur + 1, len))' = After(buf, len, k)
  BY <1>1, BufferNext
<1>3. /\ SubSeq(Cells(buf, 0, len), 1, k) = Before(buf, k)
      /\ SubSeq(Cells(buf, 0, len), k + 1, len) = After(buf, len, k)
  <2>1. buf \in [Cell -> Char] /\ len \in 0 .. EditMax
    BY DEF EditorTyped
  <2> QED BY <2>1, BufferIs
<1>4. Buffer!Text = Cells(buf, 0, len) /\ Len(Buffer!Text) = len
  BY BufferNow
<1>5. Buffer!At(k)
  BY <1>2, <1>3, <1>4 DEF Buffer!At
<1> QED BY <1>2, <1>5

\* The first of the cells.
LEMMA CellsHead ==
  ASSUME NEW b \in [Cell -> Char], NEW n \in 0 .. EditMax, NEW c \in 0 .. n
  PROVE  /\ c = n => After(b, n, c) = <<>>
         /\ c < n => /\ After(b, n, c) # <<>> /\ Head(After(b, n, c)) = b[c]
                     /\ Tail(After(b, n, c)) = After(b, n, c + 1)
<1> DEFINE t == After(b, n, c)
<1>1. n \in Nat /\ c \in Nat /\ c <= n
  BY EditorAssumption
<1>2. /\ t \in Seq(Char) /\ Len(t) = n - c
      /\ \A k \in 1 .. n - c : t[k] = b[c + k - 1]
  BY CellsSeq DEF After
<1> HIDE DEF t
<1>3. ASSUME c = n PROVE t = <<>>
  BY <1>1, <1>2, <1>3, EmptySeq
<1>4. ASSUME c < n PROVE t # <<>> /\ Head(t) = b[c] /\ Tail(t) = After(b, n, c + 1)
  <2>1. t # <<>>
    BY <1>1, <1>2, <1>4, EmptySeq
  <2>2. Head(t) = t[1]
    OBVIOUS
  <2>3. 1 \in 1 .. n - c /\ c + 1 - 1 = c
    BY <1>1, <1>4
  <2>4. t[1] = b[c + 1 - 1]
    BY <1>2, <2>3
  <2> DEFINE s == After(b, n, c + 1)
             r == Tail(t)
  <2>5. c + 1 \in 0 .. n
    BY <1>1, <1>4
  <2>6. s \in Seq(Char) /\ Len(s) = n - (c + 1) /\ \A k \in 1 .. n - (c + 1) : s[k] = b[(c + 1) + k - 1]
    BY <2>5, CellsSeq DEF After
  <2>7. r \in Seq(Char) /\ Len(r) = Len(t) - 1 /\ \A k \in 1 .. Len(r) : r[k] = t[k + 1]
    BY <1>2, <2>1, HeadTailProperties
  <2> HIDE DEF s, r
  <2>8. Len(r) = n - (c + 1) /\ Len(r) = Len(s)
    BY <1>1, <1>2, <2>6, <2>7
  <2>9. ASSUME NEW k \in 1 .. Len(r) PROVE r[k] = s[k]
    <3>1. k \in 1 .. n - (c + 1) /\ k + 1 \in 1 .. n - c /\ c + (k + 1) - 1 = c + k /\ (c + 1) + k - 1 = c + k
      BY <1>1, <2>8
    <3>2. r[k] = b[c + k]
      BY <1>2, <2>7, <3>1
    <3>3. s[k] = b[c + k]
      BY <2>6, <3>1
    <3> QED BY <3>2, <3>3
  <2>10. r = s
    BY <2>6, <2>7, <2>8, <2>9, SeqEqual
  <2> QED BY <2>1, <2>2, <2>3, <2>4, <2>10 DEF r, s
<1> QED BY <1>3, <1>4 DEF t

\* The end of a line is where the text ends or a line feed is.
LEMMA EndOfLine ==
  ASSUME EditorTyped, NEW p \in 0 .. len
  PROVE  /\ LineEnd(p) \in p .. len /\ \A k \in p .. LineEnd(p) - 1 : buf[k] # NL
         /\ After(buf, len, LineEnd(p)) = <<>> \/ Head(After(buf, len, LineEnd(p))) = NL
<1>1. /\ EditMax \in Nat /\ len \in Nat /\ p \in Nat /\ buf \in [Cell -> Char] /\ len \in 0 .. EditMax
      /\ p <= len
  BY EditorAssumption DEF EditorTyped
<1> DEFINE e == LineEnd(p)
<1>2. e \in p .. len /\ (\A k \in p .. e - 1 : buf[k] # NL) /\ (e < len => buf[e] = NL)
  <2>1. CASE p >= len
    <3>1. e = p /\ p = len
      BY <1>1, <2>1, LineEndIs
    <3> HIDE DEF e
    <3> QED BY <1>1, <3>1
  <2>2. CASE p < len
    BY <1>1, <2>2, LineEndIs
  <2> QED BY <1>1, <2>1, <2>2
<1> HIDE DEF e
<1>3. e \in 0 .. len /\ e \in Nat
  BY <1>1, <1>2
<1>4. After(buf, len, e) = <<>> \/ Head(After(buf, len, e)) = NL
  <2>1. CASE e = len
    BY <1>1, <1>3, <2>1, CellsHead
  <2>2. CASE e # len
    <3>1. e < len
      BY <1>1, <1>3, <2>2
    <3> QED BY <1>1, <1>2, <1>3, <3>1, CellsHead
  <2> QED BY <2>1, <2>2
<1> QED BY <1>2, <1>4 DEF e

\* Scanning backwards from within a line finds its first position.
LEMMA StartOfLine ==
  ASSUME EditorTyped, NEW p \in 0 .. len, p > 0 => buf[p - 1] = NL,
         NEW k \in p .. len, \A j \in p .. k - 1 : buf[j] # NL
  PROVE  LineStart(k) = p /\ LineOf(k) = LineOf(p)
<1>1. EditMax \in Nat /\ len \in Nat /\ k \in Nat /\ p \in Nat /\ k \in 0 .. EditMax /\ p \in 0 .. k
  BY EditorAssumption DEF EditorTyped
<1> DEFINE h == LineStart(k)
<1>2. h \in 0 .. k /\ (\A j \in h .. k - 1 : buf[j] # NL) /\ (h > 0 => buf[h - 1] = NL)
  BY <1>1, LineStartIs
<1> HIDE DEF h
<1>3. ~(h < p)
  <2> SUFFICES ASSUME h < p PROVE FALSE
    OBVIOUS
  <2>1. p - 1 \in h .. k - 1 /\ p > 0
    BY <1>1, <1>2
  <2> QED BY <1>2, <2>1
<1>4. ~(p < h)
  <2> SUFFICES ASSUME p < h PROVE FALSE
    OBVIOUS
  <2>1. h - 1 \in p .. k - 1 /\ h > 0
    BY <1>1, <1>2
  <2> QED BY <1>2, <2>1
<1>5. h = p
  BY <1>1, <1>2, <1>3, <1>4
<1>6. LineOf(p) = LineOf(k)
  BY <1>1, LineOfGrows
<1> QED BY <1>5, <1>6 DEF h

\* Where the keys for the line above and below go.
LEMMA MoveIsToLine ==
  ASSUME EditorTyped, EditorTyped', NEW p \in 0 .. len, p > 0 => buf[p - 1] = NL,
         MoveTo(AtMost(p + Column, LineEnd(p)))
  PROVE  Buffer!ToLine(LineOf(p))
<1> DEFINE e == LineEnd(p)
           k == AtMost(p + Column, e)
           bef == SubSeq(BufText, 1, cur)
           aft == SubSeq(BufText, cur + 1, len)
<1>1. /\ e \in p .. len /\ \A j \in p .. e - 1 : buf[j] # NL
      /\ After(buf, len, e) = <<>> \/ Head(After(buf, len, e)) = NL
  BY EndOfLine
<1>2. /\ len \in Nat /\ p \in Nat /\ Column \in Nat /\ cur \in 0 .. len /\ Len(Buffer!Text) = len
      /\ Column = cur - LineStart(cur)
  <2>1. len \in Nat /\ cur \in 0 .. len /\ p \in Nat
    BY EditorAssumption DEF EditorTyped
  <2>2. LineStart(cur) \in 0 .. cur
    BY CursorKeys
  <2>3. Len(Buffer!Text) = len
    BY BufferNow
  <2>4. Column = cur - LineStart(cur)
    BY DEF Column
  <2>5. Column \in Nat
    BY <2>1, <2>2, <2>4
  <2> QED BY <2>1, <2>3, <2>4, <2>5
<1>3. MoveTo(k)
  OBVIOUS
<1> HIDE DEF e
<1>4. k \in p .. e /\ (k = p + Column \/ (k = e /\ e - p < Column))
  BY <1>1, <1>2 DEF AtMost
<1> HIDE DEF k
<1>5. k \in p .. len /\ k \in 0 .. len /\ \A j \in p .. k - 1 : buf[j] # NL
  BY <1>1, <1>2, <1>4
<1>6. LineStart(k) = p /\ LineOf(k) = LineOf(p)
  BY <1>5, StartOfLine
<1>7. Buffer!At(k) /\ bef' = Before(buf, k) /\ aft' = After(buf, len, k)
  BY <1>3, <1>5, MoveIsAt
<1>8. bef = Before(buf, cur)
  BY BufferNow
<1>9. Buffer!Line(Before(buf, k)) = LineOf(p) /\ Buffer!Column(Before(buf, k)) = k - p
  BY <1>5, <1>6, LineOfText
<1>10. Buffer!Column(Before(buf, cur)) = Column
  BY <1>2, LineOfText
<1> HIDE DEF bef, aft
<1>11. Buffer!Line(bef') = LineOf(p) /\ Buffer!Column(bef') = k - p /\ Buffer!Column(bef) = Column
  BY <1>7, <1>8, <1>9, <1>10
<1>12. \/ Buffer!Column(bef') = Buffer!Column(bef)
       \/ Buffer!Column(bef') < Buffer!Column(bef) /\ (aft' = <<>> \/ Head(aft') = NL)
  <2>1. CASE k = p + Column
    <3>1. k - p = Column
      BY <1>2, <2>1
    <3> QED BY <1>11, <3>1
  <2>2. CASE k = e /\ e - p < Column
    BY <1>1, <1>7, <1>11, <2>2
  <2> QED BY <1>4, <2>1, <2>2
<1>13. k \in 0 .. Len(Buffer!Text)
  BY <1>2, <1>5
<1> QED BY <1>7, <1>11, <1>12, <1>13 DEF Buffer!ToLine, bef, aft

LEMMA MoveKeysMap ==
  ASSUME EditorTyped, EditorTyped',
         MoveLeft \/ MoveRight \/ MoveHome \/ MoveEnd \/ MoveUp \/ MoveDown
  PROVE  Buffer!Next
<1> DEFINE bef == SubSeq(BufText, 1, cur)
           aft == SubSeq(BufText, cur + 1, len)
<1>1. /\ len \in Nat /\ cur \in 0 .. len /\ cur \in Nat /\ buf \in [Cell -> Char] /\ len \in 0 .. EditMax
      /\ cur <= len
  BY EditorAssumption DEF EditorTyped
<1>2. bef = Before(buf, cur) /\ aft = After(buf, len, cur) /\ Len(Buffer!Text) = len
  BY BufferNow
<1>3. /\ Len(bef) = cur /\ Buffer!Column(bef) = cur - LineStart(cur) /\ Buffer!Line(bef) = LineOf(cur)
  BY <1>1, <1>2, LineOfText
<1>4. ASSUME NEW k \in 0 .. len, MoveTo(k)
      PROVE  Buffer!At(k) /\ bef' = Before(buf, k) /\ aft' = After(buf, len, k)
  BY <1>4, MoveIsAt
<1>5. /\ LineStart(cur) \in 0 .. cur /\ LineEnd(cur) \in cur .. len
      /\ \A k \in LineStart(cur) .. cur - 1 : buf[k] # NL
      /\ LineStart(cur) > 0 => buf[LineStart(cur) - 1] = NL
  <2>1. cur \in 0 .. EditMax
    BY <1>1, EditorAssumption
  <2> QED BY <2>1, CursorKeys, LineStartIs
<1>6. CASE MoveLeft
  <2>1. cur - 1 \in 0 .. len /\ MoveTo(cur - 1) /\ cur # 0
    BY <1>1, <1>6 DEF MoveLeft
  <2>2. bef # <<>>
    <3>1. Len(<<>>) = 0
      OBVIOUS
    <3> HIDE DEF bef
    <3> QED BY <1>3, <2>1, <3>1
  <2>3. Buffer!At(cur - 1)
    BY <1>4, <2>1
  <2>4. Buffer!At(Len(bef) - 1)
    BY <1>3, <2>3
  <2> QED BY <2>2, <2>4 DEF Buffer!Left, Buffer!Next
<1>7. CASE MoveRight
  <2>1. cur + 1 \in 0 .. len /\ MoveTo(cur + 1) /\ cur < len
    BY <1>1, <1>7 DEF MoveRight
  <2>2. aft # <<>>
    BY <1>1, <1>2, <2>1, CellsHead
  <2>3. Buffer!At(cur + 1)
    BY <1>4, <2>1
  <2>4. Buffer!At(Len(bef) + 1)
    BY <1>3, <2>3
  <2> QED BY <2>2, <2>4 DEF Buffer!Right, Buffer!Next
<1>8. CASE MoveHome
  <2>1. LineStart(cur) \in 0 .. len /\ MoveTo(LineStart(cur))
    BY <1>1, <1>5, <1>8 DEF MoveHome
  <2>2. Buffer!At(LineStart(cur))
    BY <1>4, <2>1
  <2>3. cur - (cur - LineStart(cur)) = LineStart(cur)
    BY <1>1, <1>5
  <2>4. Len(bef) - Buffer!Column(bef) = LineStart(cur)
    BY <1>3, <2>3
  <2> HIDE DEF bef
  <2>5. Buffer!At(Len(bef) - Buffer!Column(bef))
    BY <2>2, <2>4
  <2> QED BY <2>5 DEF Buffer!Home, Buffer!Next, bef
<1>9. CASE MoveEnd
  <2> DEFINE e == LineEnd(cur)
  <2>1. e \in cur .. len /\ e \in 0 .. len /\ MoveTo(e)
    BY <1>1, <1>5, <1>9 DEF MoveEnd
  <2>2. /\ \A k \in cur .. e - 1 : buf[k] # NL
        /\ After(buf, len, e) = <<>> \/ Head(After(buf, len, e)) = NL
    BY <1>1, EndOfLine
  <2> HIDE DEF e
  <2>3. Buffer!At(e) /\ bef' = Before(buf, e) /\ aft' = After(buf, len, e)
    BY <1>4, <2>1
  <2>4. LineOf(e) = LineOf(cur)
    <3>1. e \in 0 .. EditMax /\ cur \in 0 .. e
      BY <1>1, <2>1, EditorAssumption
    <3> QED BY <2>2, <3>1, LineOfGrows
  <2>5. Buffer!Line(Before(buf, e)) = LineOf(cur)
    BY <2>1, <2>4, LineOfText
  <2> HIDE DEF bef, aft
  <2>6. Buffer!Line(bef') = Buffer!Line(bef) /\ (aft' = <<>> \/ Head(aft') = NL)
    BY <1>3, <2>2, <2>3, <2>5
  <2>7. e \in Len(bef) .. Len(Buffer!Text)
    BY <1>2, <1>3, <2>1
  <2> QED BY <2>3, <2>6, <2>7 DEF Buffer!End, Buffer!Next, bef, aft
<1>10. CASE MoveUp
  <2> DEFINE h == LineStart(cur)
             p == LineStart(h - 1)
  <2>1. h > 0 /\ MoveTo(AtMost(p + Column, LineEnd(p)))
    BY <1>10 DEF MoveUp
  <2>2. h \in 0 .. cur /\ buf[h - 1] = NL /\ \A k \in h .. cur - 1 : buf[k] # NL
    BY <1>5, <2>1
  <2> HIDE DEF h
  <2>3. h - 1 \in 0 .. EditMax /\ h - 1 \in Cell /\ (h - 1) + 1 = h /\ cur \in 0 .. EditMax /\ h \in Nat
    BY <1>1, <2>1, <2>2, EditorAssumption DEF Cell
  <2>4. p \in 0 .. h - 1 /\ (\A k \in p .. (h - 1) - 1 : buf[k] # NL) /\ (p > 0 => buf[p - 1] = NL)
    BY <2>3, LineStartIs
  <2> HIDE DEF p
  <2>5. p \in 0 .. len
    BY <1>1, <2>2, <2>4
  <2>6. LineOf(h) = LineOf(cur) /\ LineOf(p) = LineOf(h - 1) /\ LineOf(h) = LineOf(h - 1) + 1
    BY <2>2, <2>3, <2>4, LineOfGrows, LineOfNext
  <2>7. LineOf(h - 1) \in Nat
    BY <2>3, LineOfIs
  <2>8. LineOf(p) = LineOf(cur) - 1
    BY <2>6, <2>7
  <2>9. Buffer!ToLine(LineOf(p))
    BY <2>1, <2>4, <2>5, MoveIsToLine
  <2> HIDE DEF bef
  <2>10. Buffer!ToLine(Buffer!Line(bef) - 1)
    BY <1>3, <2>8, <2>9
  <2> QED BY <2>10 DEF Buffer!Up, Buffer!Next, bef
<1>11. CASE MoveDown
  <2> DEFINE e == LineEnd(cur)
             p == e + 1
  <2>1. e < len /\ MoveTo(AtMost(p + Column, LineEnd(p)))
    BY <1>11 DEF MoveDown
  <2>2. e \in cur .. len /\ (\A k \in cur .. e - 1 : buf[k] # NL) /\ buf[e] = NL
    <3>1. e >= cur /\ cur < len
      BY <1>1, <1>5, <2>1
    <3> QED BY <1>1, <2>1, <3>1, LineEndIs
  <2> HIDE DEF e
  <2>3. e \in 0 .. EditMax /\ e \in Cell /\ cur \in 0 .. e /\ p \in 0 .. len /\ p - 1 = e
    BY <1>1, <2>1, <2>2, EditorAssumption DEF Cell
  <2>4. LineOf(cur) = LineOf(e) /\ LineOf(p) = LineOf(e) + 1
    BY <2>2, <2>3, LineOfGrows, LineOfNext
  <2>5. p > 0 => buf[p - 1] = NL
    BY <2>2, <2>3
  <2>6. LineOf(p) = LineOf(cur) + 1
    BY <2>4
  <2> HIDE DEF p
  <2>7. Buffer!ToLine(LineOf(p))
    BY <2>1, <2>3, <2>5, MoveIsToLine
  <2> HIDE DEF bef
  <2>8. Buffer!ToLine(Buffer!Line(bef) + 1)
    BY <1>3, <2>6, <2>7
  <2> QED BY <2>8 DEF Buffer!Down, Buffer!Next, bef
<1> QED BY <1>6, <1>7, <1>8, <1>9, <1>10, <1>11

LEMMA InsertMaps ==
  ASSUME EditorTyped, EditorTyped', NEW c \in Char, Insert(c)
  PROVE  Buffer!Next
<1> DEFINE bef == SubSeq(BufText, 1, cur)
           aft == SubSeq(BufText, cur + 1, len)
           b   == [Moved(cur, 1) EXCEPT ![cur] = c]
<1>1. /\ EditMax \in Nat /\ len \in Nat /\ cur \in 0 .. len /\ cur \in Nat /\ buf \in [Cell -> Char]
      /\ len \in 0 .. EditMax /\ cur \in 0 .. EditMax /\ cur <= len
  BY EditorAssumption DEF EditorTyped
<1>2. len < EditMax - 1 /\ buf' = b /\ len' = len + 1 /\ cur' = cur + 1
  BY DEF Insert, Edited
<1>3. /\ \A i \in 0 .. cur - 1 : b[i] = buf[i]
      /\ b[cur] = c
      /\ \A i \in cur .. len - 1 : b[i + 1] = buf[i]
  <2>1. ASSUME NEW i \in 0 .. cur - 1 PROVE b[i] = buf[i]
    <3>1. i \in Cell /\ i # cur /\ i - 1 \notin cur .. len - 1
      BY <1>1 DEF Cell
    <3> QED BY <3>1 DEF Moved
  <2>2. b[cur] = c
    <3>1. cur \in Cell
      BY <1>1, <1>2 DEF Cell
    <3> QED BY <3>1 DEF Moved
  <2>3. ASSUME NEW i \in cur .. len - 1 PROVE b[i + 1] = buf[i]
    <3>1. i + 1 \in Cell /\ i + 1 # cur /\ (i + 1) - 1 = i /\ i \in Cell
      BY <1>1, <1>2 DEF Cell
    <3> QED BY <3>1 DEF Moved
  <2> QED BY <2>1, <2>2, <2>3
<1>4. b \in [Cell -> Char]
  BY <1>2 DEF EditorTyped, Cell
<1> HIDE DEF b
<1>5. bef = Before(buf, cur) /\ aft = After(buf, len, cur) /\ Len(Buffer!Text) = len
  BY BufferNow
<1>6. bef' = Before(b, cur + 1) /\ aft' = After(b, len + 1, cur + 1)
  BY <1>2, BufferNext
<1>7. Before(b, cur + 1) = Append(Before(buf, cur), c)
  <2> DEFINE r == Before(b, cur + 1)
             s == Before(buf, cur)
             t == Append(s, c)
  <2>1. cur + 1 \in 0 .. EditMax /\ 0 \in 0 .. cur + 1 /\ 0 \in 0 .. cur
    BY <1>1, <1>2
  <2>2. r \in Seq(Char) /\ Len(r) = (cur + 1) - 0 /\ \A k \in 1 .. (cur + 1) - 0 : r[k] = b[0 + k - 1]
    BY <1>4, <2>1, CellsSeq DEF Before
  <2>3. s \in Seq(Char) /\ Len(s) = cur - 0 /\ \A k \in 1 .. cur - 0 : s[k] = buf[0 + k - 1]
    BY <1>1, <2>1, CellsSeq DEF Before
  <2>4. Len(s) = cur /\ Len(r) = cur + 1
    BY <1>1, <2>2, <2>3
  <2> HIDE DEF r, s
  <2>5. /\ t \in Seq(Char) /\ Len(t) = cur + 1
        /\ \A i \in 1 .. cur : t[i] = s[i]
        /\ t[cur + 1] = c
    BY <2>3, <2>4, AppendProperties
  <2> HIDE DEF t
  <2>6. ASSUME NEW k \in 1 .. cur + 1 PROVE r[k] = t[k]
    <3>1. k \in 1 .. (cur + 1) - 0 /\ 0 + k - 1 = k - 1
      BY <1>1
    <3>2. r[k] = b[k - 1]
      BY <2>2, <3>1
    <3>3. CASE k = cur + 1
      <4>1. k - 1 = cur
        BY <1>1, <3>3
      <4> QED BY <1>3, <2>5, <3>2, <3>3, <4>1
    <3>4. CASE k # cur + 1
      <4>1. k \in 1 .. cur - 0 /\ k \in 1 .. cur /\ k - 1 \in 0 .. cur - 1
        BY <1>1, <3>4
      <4>2. t[k] = buf[k - 1]
        BY <2>3, <2>5, <3>1, <4>1
      <4> QED BY <1>3, <3>2, <4>1, <4>2
    <3> QED BY <3>3, <3>4
  <2>7. r = t
    BY <2>2, <2>4, <2>5, <2>6, SeqEqual
  <2> QED BY <2>7 DEF r, t, s
<1>8. After(b, len + 1, cur + 1) = After(buf, len, cur)
  <2> DEFINE n == len - cur
             p == cur + 1
             q == len + 1
  <2>1. n \in Nat /\ p \in Nat /\ q \in Nat /\ q - p = n /\ len - cur = n
    BY <1>1
  <2>2. ASSUME NEW k \in 0 .. n - 1 PROVE b[p + k] = buf[cur + k]
    <3>1. cur + k \in cur .. len - 1 /\ (cur + 1) + k = (cur + k) + 1
      BY <1>1
    <3> QED BY <1>3, <3>1
  <2> HIDE DEF n, p, q
  <2>3. ASSUME NEW k \in 1 .. n PROVE b[p + k - 1] = buf[cur + k - 1]
    <3>1. k - 1 \in 0 .. n - 1 /\ p + (k - 1) = p + k - 1 /\ cur + (k - 1) = cur + k - 1
      BY <1>1, <2>1
    <3>2. b[p + (k - 1)] = buf[cur + (k - 1)]
      BY <2>2, <3>1
    <3> QED BY <3>1, <3>2
  <2>4. Cells(b, p, q) = Cells(buf, cur, len)
    <3>1. [k \in 1 .. n |-> b[p + k - 1]] = [k \in 1 .. n |-> buf[cur + k - 1]]
      BY <2>3
    <3> QED BY <2>1, <3>1 DEF Cells
  <2> QED BY <2>4 DEF After, p, q
<1>9. Len(Buffer!Text) < EditMax - 1
  BY <1>2, <1>5
<1>10. bef' = Append(bef, c) /\ aft' = aft
  BY <1>5, <1>6, <1>7, <1>8
<1> QED BY <1>9, <1>10 DEF Buffer!Insert, Buffer!Next

LEMMA EraseMaps ==
  ASSUME EditorTyped, EditorTyped', Backspace \/ DeleteKey
  PROVE  Buffer!Next
<1> DEFINE bef == SubSeq(BufText, 1, cur)
           aft == SubSeq(BufText, cur + 1, len)
<1>1. /\ EditMax \in Nat /\ len \in Nat /\ cur \in 0 .. len /\ cur \in Nat /\ buf \in [Cell -> Char]
      /\ len \in 0 .. EditMax /\ cur \in 0 .. EditMax /\ cur <= len
  BY EditorAssumption DEF EditorTyped
<1>2. bef = Before(buf, cur) /\ aft = After(buf, len, cur)
  BY BufferNow
<1>3. ASSUME NEW at \in 0 .. len - 1
      PROVE  /\ \A i \in 0 .. at - 1 : Moved(at + 1, -1)[i] = buf[i]
             /\ \A i \in at + 1 .. len - 1 : Moved(at + 1, -1)[i - 1] = buf[i]
  <2>1. ASSUME NEW i \in 0 .. at - 1 PROVE Moved(at + 1, -1)[i] = buf[i]
    <3>1. i \in Cell /\ i - (-1) = i + 1 /\ i + 1 \notin at + 1 .. len - 1
      BY <1>1 DEF Cell
    <3> QED BY <3>1 DEF Moved
  <2>2. ASSUME NEW i \in at + 1 .. len - 1 PROVE Moved(at + 1, -1)[i - 1] = buf[i]
    <3>1. i - 1 \in Cell /\ (i - 1) - (-1) = i
      BY <1>1 DEF Cell
    <3> QED BY <3>1 DEF Moved
  <2> QED BY <2>1, <2>2
<1>4. ASSUME NEW at \in 0 .. len - 1, buf' = Moved(at + 1, -1), len' = len - 1, cur' = at
      PROVE  bef' = Before(buf, at) /\ aft' = After(buf, len, at + 1)
  <2> DEFINE b == Moved(at + 1, -1)
  <2>1. bef' = Before(b, at) /\ aft' = After(b, len - 1, at)
    BY <1>4, BufferNext
  <2>2. /\ \A i \in 0 .. at - 1 : b[i] = buf[i]
        /\ \A i \in at + 1 .. len - 1 : b[i - 1] = buf[i]
    BY <1>3
  <2> HIDE DEF b
  <2>3. Before(b, at) = Before(buf, at)
    <3>1. at \in Nat /\ at - 0 = at
      BY <1>1
    <3>2. \A k \in 1 .. at : b[0 + k - 1] = buf[0 + k - 1]
      BY <2>2, <3>1
    <3>3. [k \in 1 .. at |-> b[0 + k - 1]] = [k \in 1 .. at |-> buf[0 + k - 1]]
      BY <3>2
    <3> QED BY <3>1, <3>3 DEF Before, Cells
  <2>4. After(b, len - 1, at) = After(buf, len, at + 1)
    <3> DEFINE n == len - 1 - at
               p == at + 1
               q == len - 1
    <3>1. n \in Nat /\ at \in Nat /\ p \in Nat /\ q \in Nat /\ q - at = n /\ len - p = n
      BY <1>1
    <3>2. ASSUME NEW k \in 0 .. n - 1 PROVE b[at + k] = buf[p + k]
      <4>1. (at + 1) + k \in at + 1 .. len - 1 /\ ((at + 1) + k) - 1 = at + k
        BY <1>1
      <4>2. b[((at + 1) + k) - 1] = buf[(at + 1) + k]
        BY <2>2, <4>1
      <4> QED BY <4>1, <4>2
    <3> HIDE DEF n, p, q
    <3>3. ASSUME NEW k \in 1 .. n PROVE b[at + k - 1] = buf[p + k - 1]
      <4>1. k - 1 \in 0 .. n - 1 /\ at + (k - 1) = at + k - 1 /\ p + (k - 1) = p + k - 1
        BY <3>1
      <4>2. b[at + (k - 1)] = buf[p + (k - 1)]
        BY <3>2, <4>1
      <4> QED BY <4>1, <4>2
    <3>4. Cells(b, at, q) = Cells(buf, p, len)
      <4>1. [k \in 1 .. n |-> b[at + k - 1]] = [k \in 1 .. n |-> buf[p + k - 1]]
        BY <3>3
      <4> QED BY <3>1, <4>1 DEF Cells
    <3> QED BY <3>4 DEF After, p, q
  <2> QED BY <2>1, <2>3, <2>4
<1>5. CASE Backspace
  <2>1. /\ cur - 1 \in 0 .. len - 1 /\ (cur - 1) + 1 = cur /\ cur # 0
        /\ buf' = Moved(cur, -1) /\ len' = len - 1 /\ cur' = cur - 1
    BY <1>1, <1>5 DEF Backspace, Edited
  <2>2. bef' = Before(buf, cur - 1) /\ aft' = After(buf, len, cur)
    <3>1. buf' = Moved((cur - 1) + 1, -1)
      BY <2>1
    <3>2. bef' = Before(buf, cur - 1) /\ aft' = After(buf, len, (cur - 1) + 1)
      BY <1>4, <2>1, <3>1
    <3> QED BY <2>1, <3>2
  <2>3. Len(Before(buf, cur)) = cur
    BY <1>1, LineOfText
  <2>4. SubSeq(Before(buf, cur), 1, cur - 1) = Before(buf, cur - 1)
    <3>1. cur - 1 \in 0 .. cur /\ 0 \in 0 .. cur - 1 /\ 0 + 1 = 1
      BY <1>1, <2>1
    <3>2. SubSeq(Cells(buf, 0, cur), 0 + 1, cur - 1) = Cells(buf, 0, cur - 1)
      BY <1>1, <3>1, CellsSub
    <3> QED BY <3>1, <3>2 DEF Before
  <2>5. Before(buf, cur) # <<>>
    <3>1. Len(<<>>) = 0
      OBVIOUS
    <3> QED BY <2>1, <2>3, <3>1
  <2> HIDE DEF bef, aft
  <2>6. bef # <<>> /\ bef' = SubSeq(bef, 1, Len(bef) - 1) /\ aft' = aft
    BY <1>2, <2>2, <2>3, <2>4, <2>5
  <2> QED BY <2>6 DEF Buffer!Erase, Buffer!Next, bef, aft
<1>6. CASE DeleteKey
  <2>1. /\ cur \in 0 .. len - 1 /\ cur < len
        /\ buf' = Moved(cur + 1, -1) /\ len' = len - 1 /\ cur' = cur
    BY <1>1, <1>6 DEF DeleteKey, Edited
  <2>2. bef' = Before(buf, cur) /\ aft' = After(buf, len, cur + 1)
    BY <1>4, <2>1
  <2>3. After(buf, len, cur) # <<>> /\ Tail(After(buf, len, cur)) = After(buf, len, cur + 1)
    BY <1>1, <2>1, CellsHead
  <2> HIDE DEF bef, aft
  <2>4. aft # <<>> /\ aft' = Tail(aft) /\ bef' = bef
    BY <1>2, <2>2, <2>3
  <2> QED BY <2>4 DEF Buffer!Delete, Buffer!Next, bef, aft
<1> QED BY <1>5, <1>6

\* A program is started; what leaves text and cursor alone.
LEMMA StartMaps ==
  ASSUME EditorTyped, EditorTyped', NEW w \in BOOLEAN, Start(w)
  PROVE  Buffer!Next
<1> DEFINE n == AtMost(Len(file), EditMax)
           bef == SubSeq(BufText, 1, cur)
           aft == SubSeq(BufText, cur + 1, len)
<1>1. /\ len' = n /\ cur' = n
  BY DEF Start
<1>2. EditMax \in Nat \ {0} /\ Len(file) \in Nat
  BY EditorAssumption DEF EditorTyped
<1>3. n \in 0 .. EditMax /\ n \in Nat /\ n \in 0 .. n /\ 0 \in 0 .. n /\ n - 0 = n /\ n <= (EditMax - 1) + 1
  BY <1>2 DEF AtMost
<1>4. buf' \in [Cell -> Char]
  BY DEF EditorTyped, Cell
<1> HIDE DEF n
<1>5. bef' = Before(buf', n) /\ aft' = After(buf', n, n)
  BY <1>1, BufferNext
<1>6. After(buf', n, n) = <<>>
  BY <1>3, <1>4, CellsHead
<1>7. Before(buf', n) \in Seq(Char) /\ Len(Before(buf', n)) = n
  BY <1>3, <1>4, CellsSeq DEF Before
<1> HIDE DEF bef, aft
<1>8. aft' = <<>> /\ bef' \in Seq(Char) /\ Len(bef') <= (EditMax - 1) + 1
  BY <1>3, <1>5, <1>6, <1>7
<1> QED BY <1>8 DEF Buffer!Open, Buffer!Next, bef, aft

\* The keys change the array as the keys of an editor change a text.
THEOREM IsTextBuffer == EditorSpec => TextSpec
<1>1. EditorInit => Buffer!Init
  <2> SUFFICES ASSUME EditorInit PROVE Buffer!Init
    OBVIOUS
  <2>1. cur = 0 /\ len = 0
    BY DEF EditorInit
  <2>2. SubSeq(BufText, 1, cur) = <<>> /\ SubSeq(BufText, cur + 1, len) = <<>>
    BY <2>1, SubSeqEmpty
  <2> QED BY <2>2 DEF Buffer!Init
<1>2. EditorTyped /\ EditorTyped' /\ [EditorNext]_editorVars => [Buffer!Next]_(Buffer!vars)
  <2> SUFFICES ASSUME EditorTyped, EditorTyped', [EditorNext]_editorVars
               PROVE  Buffer!Next \/ UNCHANGED Buffer!vars
    OBVIOUS
  <2>1. ASSUME UNCHANGED <<buf, len, cur>> PROVE UNCHANGED Buffer!vars
    BY <2>1 DEF Buffer!vars, BufText
  <2>2. CASE Draw \/ Escape \/ UNCHANGED editorVars
    BY <2>1, <2>2 DEF Draw, Escape, editorVars
  <2>3. CASE Ignored
    BY <2>1, <2>3 DEF Ignored, MoveTo, Edited
  <2>4. ASSUME NEW ok \in BOOLEAN, Save(ok) \/ SaveAndExit(ok) PROVE UNCHANGED Buffer!vars
    BY <2>1, <2>4 DEF Save, SaveAndExit
  <2>5. ASSUME NEW c \in Char, Insert(c) PROVE Buffer!Next
    BY <2>5, InsertMaps
  <2>6. CASE Backspace \/ DeleteKey
    BY <2>6, EraseMaps
  <2>7. CASE MoveLeft \/ MoveRight \/ MoveHome \/ MoveEnd \/ MoveUp \/ MoveDown
    BY <2>7, MoveKeysMap
  <2>8. ASSUME NEW w \in BOOLEAN, Start(w) PROVE Buffer!Next
    BY <2>8, StartMaps
  <2> QED BY <2>2, <2>3, <2>4, <2>5, <2>6, <2>7, <2>8 DEF EditorNext
<1> QED BY <1>1, <1>2, EditorSpecTyped, PTL DEF EditorSpec, TextSpec, Buffer!Spec

=============================================================================
