----------------------------- MODULE TextBuffer -----------------------------
(***************************************************************************)
(* What a text editor promises: a text with a cursor between two of its    *)
(* characters.  edit.c and the Notepad implement it on an array (Editor).  *)
(***************************************************************************)
EXTENDS Integers, Sequences, FiniteSets, FiniteSetsExt

CONSTANTS
  Char, NL,   \* the characters, the line feed among them
  Capacity    \* the longest text that can still be added to is shorter than this

VARIABLES before, after

vars == <<before, after>>

Text == before \o after
Breaks(s) == {k \in 1 .. Len(s) : s[k] = NL}
Line(s)   == Cardinality(Breaks(s))
Column(s) == Len(s) - Max({0} \cup Breaks(s))

\* The cursor stands after the first k characters.
At(k) == before' = SubSeq(Text, 1, k) /\ after' = SubSeq(Text, k + 1, Len(Text))

Insert(c) ==
  /\ Len(Text) < Capacity
  /\ before' = Append(before, c) /\ UNCHANGED after

Erase == before # <<>> /\ before' = SubSeq(before, 1, Len(before) - 1) /\ UNCHANGED after
Delete == after # <<>> /\ after' = Tail(after) /\ UNCHANGED before

Left  == before # <<>> /\ At(Len(before) - 1)
Right == after # <<>> /\ At(Len(before) + 1)
Home  == At(Len(before) - Column(before))
End   == \E k \in Len(before) .. Len(Text) :
           At(k) /\ Line(before') = Line(before) /\ (after' = <<>> \/ Head(after') = NL)

\* To the line above or below: the same column, or the end of a shorter line.
ToLine(n) ==
  \E k \in 0 .. Len(Text) :
    /\ At(k) /\ Line(before') = n
    /\ \/ Column(before') = Column(before)
       \/ Column(before') < Column(before) /\ (after' = <<>> \/ Head(after') = NL)

Up   == ToLine(Line(before) - 1)
Down == ToLine(Line(before) + 1)

\* A program is started on a text, with the cursor at its end.
Open == after' = <<>> /\ before' \in Seq(Char) /\ Len(before') <= Capacity + 1

Init == before = <<>> /\ after = <<>>

Next == \/ \E c \in Char : Insert(c)
        \/ Erase \/ Delete \/ Left \/ Right \/ Home \/ End \/ Up \/ Down \/ Open

Spec == Init /\ [][Next]_vars
=============================================================================
