----------------------------- MODULE PathNames -----------------------------
(***************************************************************************)
(* fs_resolve: what a path typed in a directory stands for.  Everything is *)
(* done on arrays of a fixed size and nothing reports that one was too     *)
(* small: the text is cut, or a name is left out.  The names in a path of  *)
(* FileSystem are sequences of characters here.                            *)
(***************************************************************************)
EXTENDS FileListing, SequencesExt

CONSTANTS
  TmpMax, PathMax,     \* sizeof(tmp), cap: the zero byte at the end included
  NameMax, DepthMax,   \* the sides of stack[][]
  Byte,                \* the characters of a text
  Inputs               \* bound: the texts that are typed

ASSUME PathAssumption ==
  /\ {TmpMax, PathMax, NameMax, DepthMax} \subseteq Nat \ {0}
  /\ PathMax > 1 /\ TmpMax > PathMax
  /\ {".", "/"} \subseteq Byte /\ Path \subseteq Seq(Seq(Byte)) /\ Inputs \subseteq Seq(Byte)

Cut(text, n) == IF Len(text) <= n THEN text ELSE SubSeq(text, 1, n)

\* tmp: nothing typed is the directory itself.
Joined(cwd, in) ==
  LET from == IF in # <<>> /\ Head(in) = "/" THEN <<>>
              ELSE IF Last(cwd) = "/" THEN cwd ELSE Append(cwd, "/")
  IN  Cut(from \o (IF in = <<>> THEN <<".">> ELSE in), TmpMax - 1)

\* What stands between the slashes, the empty texts included.
Tokens(text) ==
  LET seen[k \in 0 .. Len(text)] ==
        IF k = 0 THEN <<<<>>>>
        ELSE IF text[k] = "/" THEN Append(seen[k - 1], <<>>)
        ELSE [seen[k - 1] EXCEPT ![Len(seen[k - 1])] = Append(@, text[k])]
  IN  seen[Len(text)]

IsName(t) == t \notin {<<>>, <<".">>, <<".", ".">>}

\* Mutant: ".." never takes the last name away.
WalkAboveRoot(stack, t) ==
  IF t = <<".", ".">> THEN IF Len(stack) > 1 THEN Front(stack) ELSE stack
  ELSE IF IsName(t) /\ Len(stack) < DepthMax /\ Len(t) < NameMax THEN Append(stack, t)
  ELSE stack

Walk(stack, t) ==
  IF t = <<".", ".">> THEN IF stack # <<>> THEN Front(stack) ELSE stack
  ELSE IF IsName(t) /\ Len(stack) < DepthMax /\ Len(t) < NameMax THEN Append(stack, t)
  ELSE stack

\* stack[0 .. depth - 1] after the loop.
Stack(tokens) ==
  LET stack[k \in 0 .. Len(tokens)] == IF k = 0 THEN <<>> ELSE Walk(stack[k - 1], tokens[k])
  IN  stack[Len(tokens)]

\* out: a slash before the first name and between two of them.
Spelled(names) ==
  LET out[d \in 0 .. Len(names)] ==
        IF d = 0 THEN <<"/">>
        ELSE out[d - 1] \o (IF d = 1 THEN names[d] ELSE <<"/">> \o names[d])
  IN  Cut(out[Len(names)], PathMax - 1)

Resolve(cwd, in) == Spelled(Stack(Tokens(Joined(cwd, in))))
---------------------------------------------------------------------------
(* The same without a stack: a name stays if what follows it never comes   *)
(* back up to where it was entered.  A name too long for its cell counts   *)
(* for nothing.                                                            *)

Rise(t) == IF t = <<".", ".">> THEN -1 ELSE IF IsName(t) /\ Len(t) < NameMax THEN 1 ELSE 0

\* How far down each token leads, if there were directories above the root.
Level(tokens) ==
  LET level[k \in 0 .. Len(tokens)] == IF k = 0 THEN 0 ELSE level[k - 1] + Rise(tokens[k])
  IN  level

\* The elements at the positions in S.
Kept(s, S) ==
  LET kept[k \in 0 .. Len(s)] ==
        IF k = 0 THEN <<>> ELSE IF k \in S THEN Append(kept[k - 1], s[k]) ELSE kept[k - 1]
  IN  kept[Len(s)]

Stays(level, n) == {i \in 1 .. n : \A j \in i .. n : level[i - 1] < level[j]}
Standing(tokens, n) == Kept(tokens, Stays(Level(tokens), n))

WellResolved(cwd, in) ==
  LET tokens == Tokens(Joined(cwd, in))
      deep   == \E n \in DOMAIN tokens : Len(Standing(tokens, n)) > DepthMax
  IN  ~deep => Resolve(cwd, in) = Spelled(Standing(tokens, Len(tokens)))

GoodStart == {p \in Path : \A in \in Inputs : WellResolved(Spelled(p), in)}

\* Every command names its files through fs_resolve.  From whatever directory there is,
\* and however what is typed wanders, it gives the path that is meant by as much of the
\* text as tmp holds, cut at the end of the array; but a name of NameMax characters or
\* more is as if it had not been typed, and a walk that is too deep on its way ends
\* elsewhere (fs.c:85).
ResolvesLexically == \A p \in Path : IsDir(p) => p \in GoodStart
=============================================================================
