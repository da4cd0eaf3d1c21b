--------------------------- MODULE MCFileSystem ---------------------------
(* A ROM of one directory r with one file; two names on each of two levels*)
(* over it, two slots for files and two for directories; one content too *)
(* large.  seen[] has room for two names, so that some listings fit and  *)
(* others do not: the root of the real image has 23 entries for 16.  Paths*)
(* typed are all texts of up to six characters, most of them too long for*)
(* one array or another.                                                 *)
EXTENDS PathNames

a == <<"a">>
b == <<"a", "a">>
r == <<"r">>

MCPath == {<<>>, <<r>>, <<r, a>>, <<r, b>>, <<a>>, <<b>>, <<a, a>>, <<a, b>>}
MCData == {"", "x", "huge"}
MCFits == {"", "x"}
MCRom  == [p \in {<<r, a>>} |-> "x"]
MCRomDir   == {<<r>>}
MCRomTable == <<<<r, a>>>>
MCRomDirs  == <<<<r>>>>
MCByte  == {"a", "r", ".", "/"}
MCInputs == UNION {[1 .. n -> {"a", ".", "/"}] : n \in 0 .. 6}
=============================================================================
