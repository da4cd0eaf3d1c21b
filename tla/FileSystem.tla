---------------------------- MODULE FileSystem ----------------------------
(***************************************************************************)
(* fs.c: a read-only tree linked into the kernel (ramfs_table, ramfs_dirs) *)
(* and, over it, an array of file slots and an array of directory names in *)
(* memory.  Paths are normalized (fs_resolve has run): sequences of names. *)
(* A path string "d/x" has the prefix "d/" exactly when the sequence of x  *)
(* extends that of d.                                                      *)
(***************************************************************************)
EXTENDS Integers, Sequences, FiniteSets

CONSTANTS Path, Data, Empty, Fits, Rom, RomDir, MaxFiles, MaxDirs

ASSUME FsAssumption ==
  /\ Path \subseteq Seq(UNION {{p[k] : k \in DOMAIN p} : p \in Path})
  /\ \A p \in Path : \A k \in 0 .. Len(p) : SubSeq(p, 1, k) \in Path
  /\ <<>> \in Path
  /\ DOMAIN Rom \subseteq Path \ {<<>>}
  /\ \A p \in DOMAIN Rom : Rom[p] \in Data
  /\ RomDir \subseteq Path \ {<<>>}
  /\ DOMAIN Rom \cap RomDir = {}
  /\ Empty \in Fits /\ Fits \subseteq Data
  /\ MaxFiles \in Nat \ {0} /\ MaxDirs \in Nat

FileSlot == 0 .. MaxFiles - 1

File     == [used : BOOLEAN, path : Path, data : Data]
NoFile   == [used |-> FALSE, path |-> <<>>, data |-> Empty]

VARIABLES
  files,    \* fs_files[]
  dirs,     \* fs_dirs[0..fs_ndirs-1]: nothing ever leaves it
  result    \* what the last call returned

vars == <<files, dirs, result>>

---------------------------------------------------------------------------
(* Looking things up. *)

UsedSlots == {i \in FileSlot : files[i].used}
SlotsOf(p) == {i \in UsedSlots : files[i].path = p}
Least(S)  == CHOOSE i \in S : \A j \in S : i <= j

\* fs_find_ov, fs_find_rom.
InOverlay(p) == SlotsOf(p) # {}
InRom(p)     == p \in DOMAIN Rom

Under(p, d) == Len(p) > Len(d) /\ SubSeq(p, 1, Len(d)) = d
Parent(p)   == SubSeq(p, 1, Len(p) - 1)

InDirs(p) == \E k \in 1 .. Len(dirs) : dirs[k] = p

HasChildren(p) ==
  \/ \E q \in DOMAIN Rom : Under(q, p)
  \/ \E i \in UsedSlots : Under(files[i].path, p)

IsDir(p)  == p = <<>> \/ p \in RomDir \/ InDirs(p) \/ HasChildren(p)
Exists(p) == InOverlay(p) \/ InRom(p) \/ IsDir(p)

\* fs_read: the overlay hides the ROM.
NotFound == "not found"
Content(p) ==
  IF InOverlay(p) THEN files[Least(SlotsOf(p))].data
  ELSE IF InRom(p) THEN Rom[p] ELSE NotFound

---------------------------------------------------------------------------
(* The calls. *)

Fail == result' = "error" /\ UNCHANGED <<files, dirs>>

FreeSlots == FileSlot \ UsedSlots

SlotFor(p) == IF InOverlay(p) THEN Least(SlotsOf(p)) ELSE Least(FreeSlots)

Put(i, p, d) ==
  /\ files' = [files EXCEPT ![i] = [used |-> TRUE, path |-> p, data |-> d]]
  /\ result' = "ok"
  /\ UNCHANGED dirs

CanWrite(p, d) ==
  d \in Fits /\ ~IsDir(p) /\ (InOverlay(p) \/ FreeSlots # {})

\* Mutants: always a new slot; a directory is written over.
WriteAnew(p, d) ==
  IF CanWrite(p, d) /\ FreeSlots # {} THEN Put(Least(FreeSlots), p, d) ELSE Fail
WriteOverDir(p, d) ==
  IF d \in Fits /\ (InOverlay(p) \/ FreeSlots # {}) THEN Put(SlotFor(p), p, d) ELSE Fail

Write(p, d) == IF CanWrite(p, d) THEN Put(SlotFor(p), p, d) ELSE Fail

Touch(p) ==
  IF InOverlay(p) \/ InRom(p)
  THEN result' = "ok" /\ UNCHANGED <<files, dirs>>
  ELSE Write(p, Empty)

MkDir(p) ==
  IF ~Exists(p) /\ IsDir(Parent(p)) /\ Len(dirs) < MaxDirs
  THEN dirs' = Append(dirs, p) /\ result' = "ok" /\ UNCHANGED files
  ELSE Fail

\* Mutant: the ROM is asked first, so a file that shadows it cannot go.
RemoveRomFirst(p) ==
  IF InRom(p) THEN result' = "rom" /\ UNCHANGED <<files, dirs>>
  ELSE IF InOverlay(p)
  THEN /\ files' = [files EXCEPT ![Least(SlotsOf(p))].used = FALSE]
       /\ result' = "ok" /\ UNCHANGED dirs
  ELSE Fail

Rm(p) ==
  IF InOverlay(p)
  THEN /\ files' = [files EXCEPT ![Least(SlotsOf(p))].used = FALSE]
       /\ result' = "ok" /\ UNCHANGED dirs
  ELSE /\ result' = IF InRom(p) THEN "rom" ELSE "error"
       /\ UNCHANGED <<files, dirs>>

Init == files = [i \in FileSlot |-> NoFile] /\ dirs = <<>> /\ result = "ok"

Next ==
  \/ \E p \in Path, d \in Data : Write(p, d)
  \/ \E p \in Path : Touch(p) \/ MkDir(p) \/ Rm(p)

Spec == Init /\ [][Next]_vars
---------------------------------------------------------------------------
(* What makes the file system correct. *)

TypeOK ==
  /\ files \in [FileSlot -> File]
  /\ dirs \in Seq(Path) /\ Len(dirs) <= MaxDirs
  /\ result \in {"ok", "error", "rom"}

\* fs_find_ov returns the first slot with the path: a second one would bring an
\* old content back when the first is removed.
OneSlotPerPath ==
  \A i, j \in UsedSlots : files[i].path = files[j].path => i = j

\* mkdir and write, in whatever order, never make a file of the overlay share its
\* path with the root, a directory of the ROM or a directory made by mkdir.
NoFileIsMadeDir ==
  \A i \in UsedSlots :
    LET p == files[i].path IN p # <<>> /\ p \notin RomDir /\ ~InDirs(p)

\* fs_dirs[] is never compacted, so an entry made twice would use it up for good.
DirsDistinct ==
  /\ \A j, k \in 1 .. Len(dirs) : dirs[j] = dirs[k] => j = k
  /\ \A k \in 1 .. Len(dirs) : dirs[k] # <<>> /\ dirs[k] \notin RomDir

\* Seen as a map and a set, the arrays do what FileStore promises.
Overlay == [p \in {files[i].path : i \in UsedSlots} |-> files[Least(SlotsOf(p))].data]
Made    == {dirs[k] : k \in 1 .. Len(dirs)}

Store == INSTANCE FileStore WITH over <- Overlay, made <- Made
StoreSpec == Store!Spec
=============================================================================
