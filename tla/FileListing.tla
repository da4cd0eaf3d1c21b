---------------------------- MODULE FileListing ----------------------------
(***************************************************************************)
(* fs_list: the children of a directory, from the ROM files the overlay    *)
(* does not hide, the overlay, the directories of mkdir and those of the   *)
(* ROM, in this order.  fs_emit_unique drops a name it has seen, but has   *)
(* room for MaxSeen names only.                                            *)
(***************************************************************************)
EXTENDS FileSystem

CONSTANTS
  RomTable,   \* ramfs_table[]: the paths of the ROM files, in order
  RomDirs,    \* ramfs_dirs[]: the directories of the ROM, in order
  MaxSeen     \* the entries of seen[]

ASSUME ListingAssumption ==
  /\ RomTable \in Seq(Path) /\ {RomTable[k] : k \in DOMAIN RomTable} = DOMAIN Rom
  /\ RomDirs \in Seq(Path) /\ {RomDirs[k] : k \in DOMAIN RomDirs} = RomDir
  /\ MaxSeen \in Nat

\* The entries the four loops come by: a file may be hidden or its slot be free.
Entries ==
     [k \in 1 .. Len(RomTable) |-> [path |-> RomTable[k], made |-> FALSE, skip |-> InOverlay(RomTable[k])]]
  \o [k \in 1 .. MaxFiles |-> [path |-> files[k - 1].path, made |-> FALSE, skip |-> ~files[k - 1].used]]
  \o [k \in 1 .. Len(dirs) |-> [path |-> dirs[k], made |-> TRUE, skip |-> FALSE]]
  \o [k \in 1 .. Len(RomDirs) |-> [path |-> RomDirs[k], made |-> TRUE, skip |-> FALSE]]

\* Mutant: only files directly in the directory are listed.
IsInsideFlat(e, dir) == ~e.skip /\ Under(e.path, dir) /\ Len(e.path) = Len(dir) + 1

\* A file anywhere under dir stands for the directory on the way to it.
IsInside(e, dir) == ~e.skip /\ Under(e.path, dir) /\ (e.made => Len(e.path) = Len(dir) + 1)

\* comp, and whether it is a directory.
Child(e, dir) == [name |-> e.path[Len(dir) + 1], dir |-> e.made \/ Len(e.path) > Len(dir) + 1]

\* fs_emit_unique.
EmitUnique(acc, c) ==
  IF \E k \in DOMAIN acc.seen : acc.seen[k] = c.name THEN acc
  ELSE [seen |-> IF Len(acc.seen) < MaxSeen THEN Append(acc.seen, c.name) ELSE acc.seen,
        out  |-> Append(acc.out, c)]

List(dir) ==
  LET after[k \in 0 .. Len(Entries)] ==
        IF k = 0 THEN [seen |-> <<>>, out |-> <<>>]
        ELSE IF IsInside(Entries[k], dir) THEN EmitUnique(after[k - 1], Child(Entries[k], dir))
        ELSE after[k - 1]
  IN  after[Len(Entries)].out

Names(dir) == {List(dir)[k].name : k \in DOMAIN List(dir)}
---------------------------------------------------------------------------
\* ls and the explorer show exactly what is there: every name under dir that
\* leads to a file or a directory, and no other.
ListingExact ==
  \A dir \in Path :
    Names(dir) = {p[Len(dir) + 1] :
                    p \in {q \in Path : Under(q, dir) /\ Len(q) = Len(dir) + 1 /\ Exists(q)}}
=============================================================================
