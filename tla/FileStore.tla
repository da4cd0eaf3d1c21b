----------------------------- MODULE FileStore -----------------------------
(***************************************************************************)
(* What the file system promises: a map from paths to contents laid over a *)
(* read-only tree, and a set of directories.  A call either does all that  *)
(* it says or fails and changes nothing; it fails only for the reasons     *)
(* listed.  FileSystem implements this with the arrays of fs.c.            *)
(***************************************************************************)
EXTENDS Naturals, Sequences, FiniteSets

CONSTANTS
  Path,      \* normalized paths: sequences of names, the root is <<>>
  Data,      \* contents of files
  Empty,     \* the content of length 0
  Fits,      \* the contents that are not larger than FS_MAX_SIZE
  Rom,       \* ramfs_table[]: a function from some paths to contents
  RomDir,    \* ramfs_dirs[]
  MaxFiles,  \* FS_MAX_FILES
  MaxDirs    \* FS_MAX_DIRS

VARIABLES
  over,      \* the overlay: a function from some paths to contents
  made,      \* the directories made by mkdir
  result     \* what the last call returned: "ok", "error", "rom" (-2)

vars == <<over, made, result>>

Under(p, d) == Len(p) > Len(d) /\ SubSeq(p, 1, Len(d)) = d
Parent(p)   == SubSeq(p, 1, Len(p) - 1)

HasFile(p) == p \in DOMAIN over \cup DOMAIN Rom
IsDir(p) ==
  \/ p = <<>> \/ p \in RomDir \cup made
  \/ \E q \in DOMAIN over \cup DOMAIN Rom : Under(q, p)

Fail == result' = "error" /\ UNCHANGED <<over, made>>

Store(p, d) ==
  /\ over' = [q \in DOMAIN over \cup {p} |-> IF q = p THEN d ELSE over[q]]
  /\ result' = "ok"
  /\ UNCHANGED made

CanStore(p, d) ==
  /\ d \in Fits /\ ~IsDir(p)
  /\ p \in DOMAIN over \/ Cardinality(DOMAIN over) < MaxFiles

Write(p, d) == IF CanStore(p, d) THEN Store(p, d) ELSE Fail

Touch(p) ==
  IF HasFile(p)
  THEN result' = "ok" /\ UNCHANGED <<over, made>>
  ELSE Write(p, Empty)

MkDir(p) ==
  IF ~HasFile(p) /\ ~IsDir(p) /\ IsDir(Parent(p)) /\ Cardinality(made) < MaxDirs
  THEN made' = made \cup {p} /\ result' = "ok" /\ UNCHANGED over
  ELSE Fail

Rm(p) ==
  IF p \in DOMAIN over
  THEN /\ over' = [q \in DOMAIN over \ {p} |-> over[q]]
       /\ result' = "ok" /\ UNCHANGED made
  ELSE /\ result' = IF p \in DOMAIN Rom THEN "rom" ELSE "error"
       /\ UNCHANGED <<over, made>>

Init == over = [p \in {} |-> Empty] /\ made = {} /\ result = "ok"

Next ==
  \/ \E p \in Path, d \in Data : Write(p, d)
  \/ \E p \in Path : Touch(p) \/ MkDir(p) \/ Rm(p)

Spec == Init /\ [][Next]_vars
=============================================================================
