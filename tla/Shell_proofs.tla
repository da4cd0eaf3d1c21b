---------------------------- MODULE Shell_proofs ----------------------------
(***************************************************************************)
(* The capture of output and the line on the screen, for every prompt, set *)
(* of names, length of line, width of the screen and size of buffer,       *)
(* however deep redirected commands are nested.                            *)
(*                                                                         *)
(* What makes the two properties of the capture hold is one relation       *)
(* between the global pointer and the stack of calls: the call that is     *)
(* captured is the last one that was redirected, and its buffer holds what *)
(* it said.                                                                *)
(*                                                                         *)
(* What makes the third one hold is that the row of the cursor shows the   *)
(* prompt and the line whenever a key is waited for.  console_puts is one  *)
(* character after another (Steps), so each piece of what redraw_line      *)
(* prints is a fact about one row (OnRow); the blanks it prints reach as   *)
(* far as the last line was shown, so nothing of that line is left.        *)
(***************************************************************************)
EXTENDS Shell, SequenceTheorems, CommonLemmas, TLAPS

Cell == Glyph \cup {Junk}
Call ==
  [redir : BOOLEAN, does : {"program", "shell", "nothing"},
   buf : [1 .. CapSize - 1 -> Cell], out : Nat, said : Text, inner : BOOLEAN]

LineOK ==
  line \in Text /\ Len(line) < LineMax /\ pos \in 0 .. Len(line) /\ shown \in Nat

RecallOK ==
  /\ hist \in Seq(Text) /\ Len(hist) <= HistMax /\ histPos \in 0 .. Len(hist)
  /\ \A k \in 1 .. Len(hist) : Len(hist[k]) < LineMax
  /\ draft \in Text /\ Len(draft) < LineMax

CallsOK == calls \in Seq(Call) /\ cap \in 0 .. Len(calls) /\ capLen \in 0 .. CapSize - 1

TypeOK ==
  LineOK /\ RecallOK /\ CallsOK /\ mode \in {"reading", "executing", "running", "over"}

\* A call has a redirected one inside it if one is on the stack above it; the captured
\* call is the redirected one that has none, and its buffer holds the beginning of
\* what it said.
Capture(cs, to, n) ==
  /\ \A j, k \in 1 .. Len(cs) : j < k /\ cs[k].redir => cs[j].inner
  /\ \A k \in 1 .. Len(cs) : to = k <=> cs[k].redir /\ ~cs[k].inner
  /\ to # 0 => /\ n = Smaller(Len(cs[to].said), CapSize - 1)
               /\ \A j \in 1 .. n : cs[to].buf[j] = cs[to].said[j]

IInv ==
  /\ TypeOK
  /\ Capture(calls, cap, capLen)
  /\ mode = "running" => calls # <<>>
  /\ mode = "executing" => given = {}

---------------------------------------------------------------------------
(* Sequences of characters. *)

\* The beginning of a text.
LEMMA TakeIs ==
  ASSUME NEW S, NEW s \in Seq(S), NEW k \in Int
  PROVE  /\ Take(s, k) \in Seq(S)
         /\ Len(Take(s, k)) = IF Len(s) <= k THEN Len(s) ELSE IF k < 0 THEN 0 ELSE k
         /\ \A i \in 1 .. Len(Take(s, k)) : Take(s, k)[i] = s[i]
<1>1. Len(s) \in Nat /\ \A i \in 1 .. Len(s) : s[i] \in S
  BY LenProperties, ElementOfSeq
<1>2. CASE Len(s) <= k
  BY <1>1, <1>2 DEF Take
<1>3. CASE ~(Len(s) <= k)
  <2>1. \A i \in 1 .. k : s[i] \in S
    BY <1>1, <1>3
  <2>2. /\ SubSeq(s, 1, k) \in Seq(S)
        /\ Len(SubSeq(s, 1, k)) = IF 1 <= k THEN k - 1 + 1 ELSE 0
        /\ \A i \in 1 .. k - 1 + 1 : SubSeq(s, 1, k)[i] = s[1 + i - 1]
    BY <2>1, SubSeqProperties
  <2>3. Take(s, k) = SubSeq(s, 1, k)
    BY <1>3 DEF Take
  <2>4. Len(Take(s, k)) = IF k < 0 THEN 0 ELSE k
    BY <2>2, <2>3
  <2>5. \A i \in 1 .. Len(Take(s, k)) : Take(s, k)[i] = s[i]
    BY <2>2, <2>3, <2>4
  <2> QED BY <1>3, <2>2, <2>3, <2>4, <2>5
<1> QED BY <1>2, <1>3

\* A part of a text.
LEMMA PartIs ==
  ASSUME NEW S, NEW s \in Seq(S), NEW m \in Nat \ {0}, NEW n \in Int, n <= Len(s)
  PROVE  /\ SubSeq(s, m, n) \in Seq(S)
         /\ Len(SubSeq(s, m, n)) = IF m <= n THEN n - m + 1 ELSE 0
         /\ \A i \in 1 .. n - m + 1 : SubSeq(s, m, n)[i] = s[m + i - 1]
<1>1. \A i \in m .. n : s[i] \in S
  BY LenProperties, ElementOfSeq
<1> QED BY <1>1, SubSeqProperties

\* A text without one of its characters.
LEMMA RemoveAtIs ==
  ASSUME NEW S, NEW s \in Seq(S), NEW i \in 1 .. Len(s)
  PROVE  RemoveAt(s, i) \in Seq(S) /\ Len(RemoveAt(s, i)) = Len(s) - 1
<1>0. Len(s) \in Nat
  BY LenProperties
<1> DEFINE a == SubSeq(s, 1, i - 1)
           b == SubSeq(s, i + 1, Len(s))
<1>1. a \in Seq(S) /\ Len(a) = i - 1
  <2>1. i - 1 \in Int /\ i - 1 <= Len(s) /\ 1 \in Nat \ {0}
    BY <1>0
  <2> QED BY <2>1, PartIs
<1>2. b \in Seq(S) /\ Len(b) = Len(s) - i
  <2>1. i + 1 \in Nat \ {0} /\ Len(s) \in Int /\ Len(s) <= Len(s)
    BY <1>0
  <2>2. b \in Seq(S) /\ Len(b) = IF i + 1 <= Len(s) THEN Len(s) - (i + 1) + 1 ELSE 0
    BY <2>1, PartIs
  <2> QED BY <1>0, <2>2
<1> HIDE DEF a, b
<1>3. a \o b \in Seq(S) /\ Len(a \o b) = Len(a) + Len(b)
  BY <1>1, <1>2, ConcatProperties
<1>4. RemoveAt(s, i) = a \o b
  BY DEF RemoveAt, a, b
<1>5. Len(a) + Len(b) = Len(s) - 1
  BY <1>0, <1>1, <1>2
<1> QED BY <1>3, <1>4, <1>5

\* A sequence of texts put together is a text.
LEMMA FlattenedIs ==
  ASSUME NEW S, NEW seqs \in Seq(Seq(S))
  PROVE  FlattenSeq(seqs) \in Seq(S)
<1> DEFINE n == Len(seqs)
           Step(f, i) == IF i = 1 THEN seqs[i] ELSE f[i - 1] \o seqs[i]
           Upto(m) == \E f \in [1 .. m -> Seq(S)] : \A i \in 1 .. m : f[i] = Step(f, i)
<1>0. n \in Nat /\ \A i \in 1 .. n : seqs[i] \in Seq(S)
  BY LenProperties, ElementOfSeq
<1>1. CASE n = 0
  <2>1. seqs = <<>>
    BY <1>1, EmptySeq
  <2> QED BY <1>1, <2>1, EmptySeq DEF FlattenSeq
<1>2. CASE n # 0
  <2> DEFINE F == CHOOSE f : f = [i \in 1 .. n |-> Step(f, i)]
             T == {m \in 1 .. n : ~Upto(m)}
  <2>1. T = {}
    <3>1. SUFFICES ASSUME T # {} PROVE FALSE
      OBVIOUS
    <3>2. PICK m \in T : \A k \in T : m <= k
      <4>1. T \in SUBSET Nat
        BY <1>0
      <4> QED BY <3>1, <4>1, LeastOf
    <3>3. m \in 1 .. n /\ seqs[m] \in Seq(S) /\ ~Upto(m)
      BY <1>0, <3>2
    <3>4. CASE m = 1
      <4> DEFINE g == [i \in 1 .. 1 |-> seqs[1]]
      <4>1. g \in [1 .. m -> Seq(S)] /\ \A i \in 1 .. m : g[i] = Step(g, i)
        BY <3>3, <3>4
      <4> QED BY <3>3, <4>1
    <3>5. CASE m # 1
      <4>1. m - 1 \in 1 .. n /\ ~(m <= m - 1)
        BY <1>0, <3>3, <3>5
      <4>2. Upto(m - 1)
        BY <3>2, <4>1
      <4>3. PICK f \in [1 .. m - 1 -> Seq(S)] : \A i \in 1 .. m - 1 : f[i] = Step(f, i)
        BY <4>2
      <4> DEFINE g == [i \in 1 .. m |-> IF i = m THEN f[m - 1] \o seqs[m] ELSE f[i]]
      <4>4. f[m - 1] \o seqs[m] \in Seq(S)
        <5>1. f[m - 1] \in Seq(S)
          BY <3>3, <3>5, <4>3
        <5> QED BY <3>3, <5>1, ConcatProperties
      <4>5. g \in [1 .. m -> Seq(S)]
        BY <3>3, <4>3, <4>4
      <4>6. ASSUME NEW i \in 1 .. m PROVE g[i] = Step(g, i)
        <5>1. CASE i = m
          <6>1. m - 1 \in 1 .. m /\ m - 1 # m
            BY <3>3, <3>5
          <6>2. g[i] = f[m - 1] \o seqs[m] /\ g[m - 1] = f[m - 1]
            BY <5>1, <6>1
          <6> QED BY <3>5, <5>1, <6>2
        <5>2. CASE i # m
          <6>1. i \in 1 .. m - 1 /\ (i # 1 => i - 1 \in 1 .. m - 1 /\ i - 1 \in 1 .. m /\ i - 1 # m)
            BY <3>3, <5>2
          <6>2. g[i] = f[i] /\ (i # 1 => g[i - 1] = f[i - 1])
            BY <3>3, <5>2, <6>1
          <6>3. f[i] = Step(f, i)
            BY <4>3, <6>1
          <6> QED BY <6>2, <6>3
        <5> QED BY <5>1, <5>2
      <4>7. Upto(m)
        BY <4>5, <4>6
      <4> QED BY <3>3, <4>7
    <3> QED BY <3>4, <3>5
  <2>2. PICK f \in [1 .. n -> Seq(S)] : \A i \in 1 .. n : f[i] = Step(f, i)
    <3>1. n \in 1 .. n
      BY <1>0, <1>2
    <3>2. Upto(n)
      BY <2>1, <3>1
    <3> QED BY <3>2
  <2>3. f = [i \in 1 .. n |-> Step(f, i)]
    BY <2>2
  <2>4. F = [i \in 1 .. n |-> Step(F, i)]
    BY <2>3
  <2> DEFINE U == {i \in 1 .. n : F[i] \notin Seq(S)}
  <2> HIDE DEF F
  <2>5. U = {}
    <3>1. SUFFICES ASSUME U # {} PROVE FALSE
      OBVIOUS
    <3>2. PICK m \in U : \A k \in U : m <= k
      <4>1. U \in SUBSET Nat
        BY <1>0
      <4> QED BY <3>1, <4>1, LeastOf
    <3>3. m \in 1 .. n /\ seqs[m] \in Seq(S) /\ F[m] = Step(F, m) /\ F[m] \notin Seq(S)
      BY <1>0, <2>4, <3>2
    <3>4. m # 1 => F[m - 1] \in Seq(S)
      <4>1. m # 1 => m - 1 \in 1 .. n /\ ~(m <= m - 1)
        BY <1>0, <3>3
      <4> QED BY <3>2, <4>1
    <3> QED BY <3>3, <3>4, ConcatProperties
  <2>6. F[n] \in Seq(S)
    BY <1>0, <1>2, <2>5
  <2>7. FlattenSeq(seqs) = F[n]
    BY <1>2 DEF FlattenSeq, F
  <2> QED BY <2>6, <2>7
<1> QED BY <1>1, <1>2

\* The longest common beginning of some texts is there, and is a text.
LEMMA LongestIs ==
  ASSUME NEW S, NEW W \in SUBSET Seq(S), W # {}
  PROVE  LongestCommonPrefix(W) \in Seq(S)
<1> DEFINE C == CommonPrefixes(W)
           T == {Len(c) : c \in C}
<1>1. C \subseteq Seq(S)
  <2>1. ASSUME NEW w \in W PROVE Prefixes(w) \subseteq Seq(S)
    <3>1. Len(w) \in Nat
      BY LenProperties
    <3>2. ASSUME NEW k \in 0 .. Len(w) PROVE SubSeq(w, 1, k) \in Seq(S)
      BY <3>1, PartIs
    <3> QED BY <3>2 DEF Prefixes
  <2> QED BY <2>1 DEF CommonPrefixes
<1>2. <<>> \in C
  <2>1. ASSUME NEW w \in W PROVE <<>> \in Prefixes(w)
    <3>1. 0 \in 0 .. Len(w) /\ SubSeq(w, 1, 0) = <<>>
      BY LenProperties, SubSeqEmpty
    <3> QED BY <3>1 DEF Prefixes
  <2>2. ASSUME NEW w \in W PROVE IsPrefix(<<>>, w)
    <3>1. Len(w) \in Nat /\ Len(<<>>) = 0
      BY LenProperties, EmptySeq
    <3>2. SubSeq(<<>>, 1, 0) = <<>> /\ SubSeq(w, 1, 0) = <<>>
      BY SubSeqEmpty
    <3> QED BY <3>1, <3>2 DEF IsPrefix
  <2> QED BY <2>1, <2>2 DEF CommonPrefixes
<1>3. PICK w \in W : TRUE
  OBVIOUS
<1>4. \A c \in C : Len(c) <= Len(w)
  BY DEF CommonPrefixes, IsPrefix
<1> HIDE DEF C
<1>5. T \in SUBSET Nat /\ T # {}
  <2>1. \A c \in C : Len(c) \in Nat
    BY <1>1, LenProperties
  <2> QED BY <1>2, <2>1
<1>6. PICK m \in T : \A k \in T : k <= m
  <2>1. Len(w) \in Nat /\ \A k \in T : k <= Len(w)
    BY <1>4, LenProperties
  <2> HIDE DEF T
  <2> QED BY <1>5, <2>1, GreatestOf
<1>7. \E c \in C : \A d \in C : Len(d) <= Len(c)
  BY <1>6
<1>8. LongestCommonPrefix(W) \in C
  BY <1>7 DEF LongestCommonPrefix, C
<1> QED BY <1>1, <1>8

\* The last word of the line is a text.
LEMMA WordIs == ASSUME line \in Text PROVE Word \in Text
<1> DEFINE I == {i \in 1 .. Len(line) : line[i] = " "}
           last == IF I # {} THEN Max(I) ELSE 0
<1>1. Len(line) \in Nat
  BY LenProperties DEF Text
<1>2. last \in Nat
  <2>1. CASE I # {}
    <3>1. I \in SUBSET (1 .. Len(line))
      OBVIOUS
    <3> HIDE DEF I
    <3>2. I \in SUBSET Nat /\ \A k \in I : k <= Len(line)
      BY <1>1, <3>1
    <3>3. PICK m \in I : \A k \in I : k <= m
      BY <1>1, <2>1, <3>2, GreatestOf
    <3>4. \E x \in I : \A y \in I : x >= y
      BY <3>2, <3>3
    <3>5. Max(I) \in I
      BY <3>4 DEF Max
    <3> QED BY <2>1, <3>2, <3>5
  <2>2. CASE ~(I # {})
    BY <2>2
  <2> QED BY <2>1, <2>2
<1>3. Word = SubSeq(line, last + 1, Len(line))
  BY DEF Word, SelectLastInSeq
<1> HIDE DEF last
<1>4. last + 1 \in Nat \ {0} /\ Len(line) \in Int /\ Len(line) <= Len(line)
  BY <1>1, <1>2
<1> QED BY <1>3, <1>4, PartIs DEF Text
---------------------------------------------------------------------------
(* What the operators of the editor return. *)

LEMMA SizesAre == LineMax \in Nat /\ LineMax > 1 /\ HistMax \in Nat \ {0} /\ CapSize \in Nat \ {0}
BY ShellAssumption

LEMMA JoinIs ==
  /\ \A s, t \in Text : s \o t \in Text /\ Len(s \o t) = Len(s) + Len(t)
  /\ \A s \in Text : Len(s) \in Nat
<1>1. ASSUME NEW s \in Seq(Glyph), NEW t \in Seq(Glyph)
      PROVE  s \o t \in Seq(Glyph) /\ Len(s \o t) = Len(s) + Len(t)
  BY ConcatProperties
<1>2. ASSUME NEW s \in Seq(Glyph) PROVE Len(s) \in Nat
  BY LenProperties
<1> QED BY <1>1, <1>2 DEF Text

LEMMA StringsAre ==
  /\ <<>> \in Text /\ Len(<<>>) = 0 /\ Message \in Text
  /\ <<" ", " ">> \in Text /\ <<"^", "C", "LF">> \in Text
  /\ \A c \in Glyph : <<c>> \in Text /\ Len(<<c>>) = 1
  /\ "LF" \in Glyph /\ "CR" \in Glyph
<1>1. \A c \in {"LF", "CR", " ", "^", "C", "x"} : c \in Glyph
  BY ShellAssumption
<1>2. /\ \A c \in Glyph : <<c>> \in Text /\ Len(<<c>>) = 1
      /\ \A c, d \in Glyph : <<c, d>> \in Text
      /\ \A c, d, e \in Glyph : <<c, d, e>> \in Text
  BY DEF Text
<1>3. <<>> \in Text /\ Len(<<>>) = 0
  BY EmptySeq DEF Text
<1> QED BY <1>1, <1>2, <1>3 DEF Message

\* The empty line.
LEMMA EmptyIs ==
  ASSUME NEW l, l = <<>>
  PROVE  l \in Text /\ Len(l) = 0 /\ Len(l) < LineMax /\ 0 \in 0 .. Len(l)
<1>1. l \in Text /\ Len(l) = 0
  BY EmptySeq DEF Text
<1> QED BY <1>1, SizesAre

LEMMA SpacesAre == ASSUME NEW n \in Nat PROVE Spaces(n) \in Text
<1>1. Spaces(n) \in [1 .. n -> Glyph]
  BY ShellAssumption DEF Spaces
<1>2. Spaces(n) \in Seq(Glyph)
  BY <1>1, SeqDef
<1> QED BY <1>2 DEF Text

LEMMA PromptIs == ASSUME NEW d PROVE PromptAt(d) \in Text
BY ShellAssumption DEF PromptAt

LEMMA LargerIs ==
  ASSUME NEW a \in Int, NEW b \in Nat
  PROVE  Larger(a, b) \in Nat /\ Larger(b, a) \in Nat
BY DEF Larger

\* What rl_render prints is a text.
LEMMA RedrawnIs ==
  ASSUME NEW l \in Text, NEW p \in Int, NEW was \in Nat
  PROVE  Redrawn(l, p, was) \in Text
<1> DEFINE prompt == PromptAt(Len(calls))
           wiped == Spaces(Larger(was - Len(l), 0))
<1>1. Len(l) \in Nat
  BY JoinIs
<1>2. wiped \in Text
  BY <1>1, LargerIs, SpacesAre
<1>3. <<"CR">> \in Text /\ prompt \in Text
  BY StringsAre, PromptIs
<1>4. Take(l, p) \in Text
  BY TakeIs DEF Text
<1> DEFINE begun == <<"CR">> \o prompt
<1>5. Redrawn(l, p, was) = (((((begun \o l) \o wiped) \o <<"CR">>) \o prompt) \o Take(l, p))
  BY DEF Redrawn
<1>6. begun \in Text
  BY <1>3, JoinIs
<1> HIDE DEF prompt, wiped, begun
<1>7. (begun \o l) \o wiped \in Text
  BY <1>2, <1>6, JoinIs
<1>8. (((begun \o l) \o wiped) \o <<"CR">>) \o prompt \in Text
  BY <1>3, <1>7, JoinIs
<1> QED BY <1>4, <1>5, <1>8, JoinIs

\* The line with a character inserted, and completed, is one that its buffer holds, and
\* the names are listed, in the characters they are made of.
LEMMA JoinedIs ==
  ASSUME NEW S, NEW s \in Seq(S), NEW t \in Seq(S)
  PROVE  s \o t \in Seq(S) /\ Len(s \o t) = Len(s) + Len(t) /\ Len(s) \in Nat /\ Len(t) \in Nat
BY ConcatProperties, LenProperties

LEMMA PairIs == ASSUME NEW S, NEW c \in S PROVE <<c, c>> \in Seq(S)
OBVIOUS

LEMMA CellsAre == ASSUME NEW S, NEW n \in Nat, NEW f \in [1 .. n -> S] PROVE f \in Seq(S)
BY SeqDef

LEMMA TypedIs ==
  ASSUME NEW S, line \in Seq(S), pos \in 0 .. Len(line), NEW c \in S
  PROVE  Typed(c) \in Seq(S) /\ Len(Typed(c)) = Len(line) + 1
<1> DEFINE a == Take(line, pos)
           b == SubSeq(line, pos + 1, Len(line))
<1>0. Len(line) \in Nat
  BY LenProperties
<1>1. a \in Seq(S) /\ Len(a) = pos
  BY <1>0, TakeIs
<1>2. b \in Seq(S) /\ Len(b) = Len(line) - pos
  <2>1. pos + 1 \in Nat \ {0} /\ Len(line) \in Int /\ Len(line) <= Len(line)
    BY <1>0
  <2>2. b \in Seq(S) /\ Len(b) = IF pos + 1 <= Len(line) THEN Len(line) - (pos + 1) + 1 ELSE 0
    BY <2>1, PartIs
  <2> QED BY <1>0, <2>1, <2>2
<1>3. Typed(c) = (a \o <<c>>) \o b
  BY DEF Typed
<1> HIDE DEF a, b
<1>4. a \o <<c>> \in Seq(S) /\ Len(a \o <<c>>) = pos + 1
  <2>1. <<c>> \in Seq(S) /\ Len(<<c>>) = 1
    OBVIOUS
  <2> QED BY <1>0, <1>1, <2>1, JoinedIs
<1>5. (a \o <<c>>) \o b \in Seq(S) /\ Len((a \o <<c>>) \o b) = (pos + 1) + Len(b)
  BY <1>2, <1>4, JoinedIs
<1>6. (pos + 1) + Len(b) = Len(line) + 1
  BY <1>0, <1>2
<1> QED BY <1>3, <1>5, <1>6

LEMMA CompletedIs ==
  ASSUME NEW S, line \in Seq(S), line \in Text, Names \in Seq(Seq(S)),
         Len(line) < LineMax, Candidates # {}
  PROVE  line \o Completion \in Seq(S) /\ Len(line \o Completion) < LineMax
<1> DEFINE W == {Names[k] : k \in Candidates}
           common == LongestCommonPrefix(W)
           rest == SubSeq(common, Len(Word) + 1, Len(common))
           room == LineMax - 1 - Len(line)
<1>0. Len(line) \in Nat /\ Len(Word) \in Nat
  BY JoinIs, WordIs
<1>1. common \in Seq(S)
  <2>1. \A k \in DOMAIN Names : Names[k] \in Seq(S)
    BY LenProperties, ElementOfSeq
  <2>2. W \in SUBSET Seq(S) /\ W # {}
    BY <2>1 DEF Candidates
  <2> QED BY <2>2, LongestIs
<1>2. rest \in Seq(S)
  <2>1. Len(common) \in Nat
    BY <1>1, LenProperties
  <2>2. Len(Word) + 1 \in Nat \ {0} /\ Len(common) \in Int /\ Len(common) <= Len(common)
    BY <1>0, <2>1
  <2> HIDE DEF common
  <2> QED BY <1>1, <2>2, PartIs
<1>3. Completion = Take(rest, room)
  BY DEF Completion
<1> HIDE DEF rest
<1>4. room \in Nat
  BY <1>0, SizesAre
<1>5. Take(rest, room) \in Seq(S) /\ Len(Take(rest, room)) <= room
  <2>1. /\ Take(rest, room) \in Seq(S) /\ Len(rest) \in Nat
        /\ Len(Take(rest, room)) = IF Len(rest) <= room THEN Len(rest)
                                   ELSE IF room < 0 THEN 0 ELSE room
    BY <1>2, <1>4, TakeIs, LenProperties
  <2> QED BY <1>4, <2>1
<1>6. /\ line \o Completion \in Seq(S) /\ Len(line \o Completion) = Len(line) + Len(Completion)
      /\ Len(Completion) \in Nat
  BY <1>3, <1>5, JoinedIs
<1>7. Len(line) + Len(Completion) < LineMax
  <2>1. Len(Completion) <= LineMax - 1 - Len(line)
    BY <1>3, <1>5
  <2> QED BY <1>0, <1>6, <2>1, SizesAre
<1> QED BY <1>6, <1>7

LEMMA ListedIs == ASSUME NEW S, Names \in Seq(Seq(S)), " " \in S PROVE Listed \in Seq(S)
<1> DEFINE part(k) == IF k \in Candidates THEN Names[k] \o <<" ", " ">> ELSE <<>>
           parts == [k \in DOMAIN Names |-> part(k)]
<1>1. Len(Names) \in Nat /\ DOMAIN Names = 1 .. Len(Names)
  BY LenProperties
<1>2. ASSUME NEW k \in DOMAIN Names PROVE part(k) \in Seq(S)
  <2>1. Names[k] \in Seq(S)
    BY <1>1, ElementOfSeq
  <2>2. <<" ", " ">> \in Seq(S)
    BY PairIs
  <2>3. <<>> \in Seq(S)
    BY EmptySeq
  <2> QED BY <2>1, <2>2, <2>3, JoinedIs
<1>3. parts \in [1 .. Len(Names) -> Seq(S)]
  BY <1>1, <1>2
<1>4. parts \in Seq(Seq(S))
  <2> DEFINE W == Seq(S)
             n == Len(Names)
  <2>1. parts \in [1 .. n -> W] /\ n \in Nat
    BY <1>1, <1>3
  <2> HIDE DEF W, n, parts
  <2>2. parts \in Seq(W)
    BY <2>1, CellsAre
  <2> QED BY <2>2 DEF W
<1>5. Listed = FlattenSeq(parts)
  BY DEF Listed
<1> HIDE DEF parts
<1> QED BY <1>4, <1>5, FlattenedIs
---------------------------------------------------------------------------
(* The output of a call of console_puts. *)

\* A call after str was printed.
Heard(c, str) == [c EXCEPT !.said = Take(c.said \o str, CapSize)]

LEMMA HeardIs ==
  ASSUME NEW c \in Call, NEW str \in Text
  PROVE  /\ Heard(c, str) \in Call
         /\ Heard(c, str).redir = c.redir /\ Heard(c, str).inner = c.inner
         /\ Heard(c, str).buf = c.buf /\ Heard(c, str).does = c.does
         /\ Heard(c, str).said = Take(c.said \o str, CapSize)
<1>1. Take(c.said \o str, CapSize) \in Text
  <2>1. c.said \in Text
    BY DEF Call
  <2>2. c.said \o str \in Seq(Glyph) /\ CapSize \in Int
    BY <2>1, JoinIs, SizesAre DEF Text
  <2>3. Take(c.said \o str, CapSize) \in Seq(Glyph)
    BY <2>2, TakeIs
  <2> QED BY <2>3 DEF Text
<1> QED BY <1>1 DEF Heard, Call

LEMMA CapturedIs ==
  ASSUME NEW c \in Call, NEW str \in Text, NEW n \in 0 .. CapSize - 1
  PROVE  /\ Captured(c, str, n) \in Call
         /\ Captured(c, str, n).redir = c.redir /\ Captured(c, str, n).inner = c.inner
         /\ Captured(c, str, n).said = c.said
         /\ \A j \in 1 .. CapSize - 1 :
              Captured(c, str, n).buf[j] = IF j - n \in 1 .. Len(str) THEN str[j - n] ELSE c.buf[j]
<1> DEFINE b == [k \in DOMAIN c.buf |-> IF k - n \in 1 .. Len(str) THEN str[k - n] ELSE c.buf[k]]
<1>1. DOMAIN c.buf = 1 .. CapSize - 1 /\ \A k \in 1 .. CapSize - 1 : c.buf[k] \in Cell
  BY DEF Call
<1>2. ASSUME NEW k \in 1 .. Len(str) PROVE str[k] \in Cell
  BY ElementOfSeq DEF Text, Cell
<1>3. b \in [1 .. CapSize - 1 -> Cell]
  BY <1>1, <1>2
<1>4. Captured(c, str, n) = [c EXCEPT !.buf = b]
  BY DEF Captured
<1>5. \A j \in 1 .. CapSize - 1 : b[j] = IF j - n \in 1 .. Len(str) THEN str[j - n] ELSE c.buf[j]
  BY <1>1
<1> HIDE DEF b
<1> QED BY <1>3, <1>4, <1>5 DEF Call

\* The buffer keeps holding what the captured call said.
LEMMA CaptureGrows ==
  ASSUME NEW c \in Call, NEW str \in Text, NEW n,
         n = Smaller(Len(c.said), CapSize - 1), \A j \in 1 .. n : c.buf[j] = c.said[j]
  PROVE  LET d == Captured(Heard(c, str), str, n)
             m == Smaller(n + Len(str), CapSize - 1)
         IN  /\ m \in 0 .. CapSize - 1
             /\ m = Smaller(Len(d.said), CapSize - 1)
             /\ \A j \in 1 .. m : d.buf[j] = d.said[j]
<1> DEFINE h == Heard(c, str)
           d == Captured(h, str, n)
           m == Smaller(n + Len(str), CapSize - 1)
           all == c.said \o str
<1>0. /\ c.said \in Seq(Glyph) /\ str \in Seq(Glyph)
      /\ Len(c.said) \in Nat /\ Len(str) \in Nat
  BY JoinIs DEF Call, Text
<1>1. n \in 0 .. CapSize - 1 /\ m \in 0 .. CapSize - 1
  BY <1>0, SizesAre DEF Smaller
<1>2. h \in Call /\ h.buf = c.buf /\ h.said = Take(all, CapSize)
  BY HeardIs
<1> HIDE DEF h, m
<1>3. /\ d.said = Take(all, CapSize)
      /\ \A j \in 1 .. CapSize - 1 :
           d.buf[j] = IF j - n \in 1 .. Len(str) THEN str[j - n] ELSE c.buf[j]
  BY <1>1, <1>2, CapturedIs
<1>4. /\ all \in Seq(Glyph) /\ Len(all) = Len(c.said) + Len(str)
      /\ \A i \in 1 .. Len(c.said) + Len(str) :
           all[i] = IF i <= Len(c.said) THEN c.said[i] ELSE str[i - Len(c.said)]
  BY <1>0, ConcatProperties
<1> HIDE DEF all, d
<1>5. /\ Len(d.said) = IF Len(all) <= CapSize THEN Len(all) ELSE CapSize
      /\ \A i \in 1 .. Len(d.said) : d.said[i] = all[i]
  <2>1. /\ Len(Take(all, CapSize)) = IF Len(all) <= CapSize THEN Len(all)
                                     ELSE IF CapSize < 0 THEN 0 ELSE CapSize
        /\ \A i \in 1 .. Len(Take(all, CapSize)) : Take(all, CapSize)[i] = all[i]
    BY <1>4, SizesAre, TakeIs
  <2> QED BY <1>3, <2>1, SizesAre
<1>6. m = Smaller(Len(d.said), CapSize - 1)
  BY <1>0, <1>4, <1>5, SizesAre DEF Smaller, m
<1>7. ASSUME NEW j \in 1 .. m PROVE d.buf[j] = d.said[j]
  <2>1. /\ j \in 1 .. CapSize - 1 /\ j \in 1 .. Len(d.said)
        /\ j \in 1 .. Len(c.said) + Len(str)
    BY <1>0, <1>1, <1>4, <1>5, <1>6, SizesAre DEF Smaller
  <2>2. d.said[j] = IF j <= Len(c.said) THEN c.said[j] ELSE str[j - Len(c.said)]
    BY <1>4, <1>5, <2>1
  <2>3. CASE j <= n
    <3>1. j <= Len(c.said) /\ ~(j - n \in 1 .. Len(str)) /\ j \in 1 .. n
      BY <1>0, <1>1, <2>1, <2>3, SizesAre DEF Smaller
    <3> QED BY <1>3, <2>1, <2>2, <3>1
  <2>4. CASE ~(j <= n)
    <3>1. n = Len(c.said) /\ j - n \in 1 .. Len(str)
      BY <1>0, <1>1, <2>1, <2>4, SizesAre DEF Smaller, m
    <3>2. ~(j <= Len(c.said))
      BY <2>4, <3>1
    <3> QED BY <1>3, <2>1, <2>2, <3>1, <3>2
  <2> QED BY <2>3, <2>4
<1> QED BY <1>1, <1>6, <1>7 DEF d, h, m

\* console_puts keeps the relation between the captured call and its buffer.
LEMMA OutputKeeps ==
  ASSUME NEW cs \in Seq(Call), NEW str \in Text, NEW s, NEW to \in 0 .. Len(cs),
         NEW n \in 0 .. CapSize - 1, Capture(cs, to, n), Output(str, s, cs, to, n)
  PROVE  /\ calls' \in Seq(Call) /\ Len(calls') = Len(cs)
         /\ cap' = to /\ capLen' \in 0 .. CapSize - 1
         /\ Capture(calls', cap', capLen')
<1>0. Len(cs) \in Nat /\ DOMAIN cs = 1 .. Len(cs) /\ Len(str) \in Nat
  BY LenProperties, JoinIs
<1>1. ASSUME NEW k \in 1 .. Len(cs) PROVE cs[k] \in Call
  BY ElementOfSeq
<1> DEFINE after(k) == IF k = to THEN Captured(Heard(cs[k], str), str, n) ELSE Heard(cs[k], str)
<1>2. calls' = [k \in 1 .. Len(cs) |-> after(k)]
  BY <1>0 DEF Output, Heard
<1>3. ASSUME NEW k \in 1 .. Len(cs)
      PROVE  after(k) \in Call /\ after(k).redir = cs[k].redir /\ after(k).inner = cs[k].inner
  <2>1. /\ Heard(cs[k], str) \in Call /\ Heard(cs[k], str).redir = cs[k].redir
        /\ Heard(cs[k], str).inner = cs[k].inner
    BY <1>1, HeardIs
  <2> QED BY <2>1, CapturedIs
<1> HIDE DEF after
<1>4. calls' \in [1 .. Len(cs) -> Call]
  BY <1>2, <1>3
<1>5. calls' \in Seq(Call) /\ Len(calls') = Len(cs)
  <2>1. calls' \in Seq(Call)
    BY <1>0, <1>4, SeqDef
  <2>2. Len(calls') = Len(cs)
    BY <1>0, <1>4, <2>1, LenProperties
  <2> QED BY <2>1, <2>2
<1>6. cap' = to /\ capLen' = IF to = 0 THEN n ELSE Smaller(n + Len(str), CapSize - 1)
  BY DEF Output
<1>7. capLen' \in 0 .. CapSize - 1
  BY <1>0, <1>6, SizesAre DEF Smaller
<1>8. /\ \A k \in 1 .. Len(calls') : cap' = k <=> calls'[k].redir /\ ~calls'[k].inner
      /\ \A j, k \in 1 .. Len(calls') : j < k /\ calls'[k].redir => calls'[j].inner
  BY <1>2, <1>3, <1>5, <1>6 DEF Capture
<1>9. ASSUME to # 0
      PROVE  /\ capLen' = Smaller(Len(calls'[to].said), CapSize - 1)
             /\ \A j \in 1 .. capLen' : calls'[to].buf[j] = calls'[to].said[j]
  <2>1. /\ to \in 1 .. Len(cs) /\ n = Smaller(Len(cs[to].said), CapSize - 1)
        /\ \A j \in 1 .. n : cs[to].buf[j] = cs[to].said[j]
    BY <1>0, <1>9 DEF Capture
  <2>2. calls'[to] = Captured(Heard(cs[to], str), str, n) /\ cs[to] \in Call
    BY <1>1, <1>2, <2>1 DEF after
  <2> DEFINE d == Captured(Heard(cs[to], str), str, n)
             m == Smaller(n + Len(str), CapSize - 1)
  <2>3. m = Smaller(Len(d.said), CapSize - 1) /\ \A j \in 1 .. m : d.buf[j] = d.said[j]
    BY <2>1, <2>2, CaptureGrows
  <2>4. calls'[to] = d /\ capLen' = m
    BY <1>6, <1>9, <2>2
  <2> HIDE DEF d, m
  <2> QED BY <2>3, <2>4
<1> QED BY <1>5, <1>6, <1>7, <1>8, <1>9 DEF Capture
---------------------------------------------------------------------------
(* The invariant. *)

LEMMA InitIInv == Init => IInv
<1> SUFFICES ASSUME Init PROVE IInv
  OBVIOUS
<1>1. LineOK
  BY EmptyIs DEF Init, LineOK
<1>2. RecallOK
  <2>1. hist \in Seq(Text) /\ Len(hist) = 0 /\ histPos = 0
    BY EmptySeq DEF Init
  <2>2. draft \in Text /\ Len(draft) < LineMax
    BY EmptyIs DEF Init
  <2> QED BY <2>1, <2>2, SizesAre DEF RecallOK
<1>3. CallsOK /\ Capture(calls, cap, capLen)
  <2>1. <<>> \in Seq(Call) /\ Len(<<>>) = 0
    BY EmptySeq
  <2> QED BY <2>1, SizesAre DEF Init, CallsOK, Capture
<1> QED BY <1>1, <1>2, <1>3 DEF Init, IInv, TypeOK

\* What a step that prints does to the calls.
LEMMA SayKeeps ==
  ASSUME IInv, NEW str \in Text, NEW s, Output(str, s, calls, cap, capLen)
  PROVE  CallsOK' /\ Capture(calls, cap, capLen)' /\ (calls # <<>> => calls' # <<>>)
<1>1. /\ calls' \in Seq(Call) /\ Len(calls') = Len(calls)
      /\ cap' = cap /\ capLen' \in 0 .. CapSize - 1
      /\ Capture(calls', cap', capLen')
  BY OutputKeeps DEF IInv, TypeOK, CallsOK
<1>2. calls # <<>> => calls' # <<>>
  BY <1>1, EmptySeq DEF IInv, TypeOK, CallsOK
<1> QED BY <1>1, <1>2 DEF IInv, TypeOK, CallsOK

LEMMA RenderKeeps ==
  ASSUME IInv, NEW l \in Text, Len(l) < LineMax, NEW p \in 0 .. Len(l), Render(l, p)
  PROVE  /\ LineOK' /\ CallsOK' /\ Capture(calls, cap, capLen)'
         /\ (calls # <<>> => calls' # <<>>) /\ mode' = mode
<1>1. shown \in Nat /\ Len(l) \in Nat
  BY JoinIs DEF IInv, TypeOK, LineOK
<1>2. Redrawn(l, p, shown) \in Text
  BY <1>1, RedrawnIs
<1>3. LineOK'
  BY <1>1, LargerIs DEF Render, LineOK
<1> QED BY <1>2, <1>3, SayKeeps DEF Render, Say

LEMMA NewestKeeps == ASSUME IInv, AtNewest, UNCHANGED hist PROVE RecallOK'
<1>1. draft' \in Text /\ Len(draft') < LineMax
  BY EmptyIs DEF AtNewest
<1>2. Len(hist) \in Nat
  BY LenProperties DEF IInv, TypeOK, RecallOK
<1> QED BY <1>1, <1>2 DEF IInv, TypeOK, RecallOK, AtNewest

LEMMA ReadLineKeeps ==
  ASSUME IInv, NEW cs \in Seq(Call), NEW str \in Text, NEW s, NEW to \in 0 .. Len(cs),
         NEW n \in 0 .. CapSize - 1, Capture(cs, to, n), ReadLine(str, s, cs, to, n)
  PROVE  IInv'
<1>1. str \o PromptAt(Len(cs)) \in Text
  BY PromptIs, JoinIs
<1>2. CallsOK' /\ Capture(calls, cap, capLen)'
  BY <1>1, OutputKeeps DEF ReadLine, CallsOK
<1>3. LineOK'
  <2>1. line' = <<>> /\ pos' = 0 /\ shown' = 0
    BY DEF ReadLine
  <2> QED BY <2>1, EmptyIs DEF LineOK
<1>4. RecallOK'
  BY NewestKeeps DEF ReadLine
<1> QED BY <1>2, <1>3, <1>4 DEF ReadLine, IInv, TypeOK

\* A step of the line editor that does not leave it.
LEMMA EditKeeps ==
  ASSUME IInv, mode = "reading", mode' = mode, LineOK', RecallOK', CallsOK',
         Capture(calls, cap, capLen)'
  PROVE  IInv'
BY DEF IInv, TypeOK

LEMMA RecallKeeps ==
  /\ IInv /\ UNCHANGED recall => RecallOK'
  /\ IInv /\ AtNewest /\ UNCHANGED hist => RecallOK'
BY NewestKeeps DEF IInv, TypeOK, RecallOK, recall

LEMMA InsertKeeps == ASSUME IInv, NEW c \in Char, Insert(c) PROVE IInv'
<1> USE DEF Insert, Reads
<1>1. c \in Glyph /\ LineOK /\ Len(line) \in Nat
  BY ShellAssumption, JoinIs DEF IInv, TypeOK, LineOK
<1>2. Typed(c) \in Text /\ Len(Typed(c)) = Len(line) + 1
  BY <1>1, TypedIs DEF LineOK, Text
<1>3. LineOK'
  BY <1>1, <1>2, LargerIs DEF LineOK
<1> DEFINE str == IF pos = Len(line) THEN <<c>> ELSE <<c>> \o Redrawn(Typed(c), pos + 1, shown)
<1>4. str \in Text
  <2>1. Redrawn(Typed(c), pos + 1, shown) \in Text
    BY <1>1, <1>2, RedrawnIs DEF LineOK
  <2> QED BY <1>1, <2>1, StringsAre, JoinIs
<1>5. CallsOK' /\ Capture(calls, cap, capLen)'
  BY <1>4, SayKeeps DEF Say
<1> QED BY <1>3, <1>5, RecallKeeps, EditKeeps

LEMMA TabKeeps == ASSUME IInv, TabKey PROVE IInv'
<1> USE DEF TabKey, Reads
<1> DEFINE l == line \o Completion
           list == IF Cardinality(Candidates) = 1 THEN <<>> ELSE <<"LF">> \o Listed \o <<"LF">>
<1>1. LineOK
  BY DEF IInv, TypeOK
<1>2. l \in Text /\ Len(l) < LineMax /\ Len(l) \in Nat
  BY <1>1, ShellAssumption, CompletedIs, JoinIs DEF LineOK, Text
<1>3. list \in Text
  <2>1. Listed \in Text
    BY ShellAssumption, ListedIs DEF Text
  <2> QED BY <2>1, StringsAre, JoinIs
<1>4. list \o Redrawn(l, Len(l), shown) \in Text
  <2> HIDE DEF l, list
  <2> QED BY <1>1, <1>2, <1>3, RedrawnIs, JoinIs DEF LineOK
<1>5. CallsOK' /\ Capture(calls, cap, capLen)'
  BY <1>4, SayKeeps DEF Say
<1>6. line' = l /\ pos' = Len(l) /\ shown' = Larger(shown, Len(l)) /\ mode' = mode
  OBVIOUS
<1> HIDE DEF l
<1>7. LineOK'
  BY <1>1, <1>2, <1>6, LargerIs DEF LineOK
<1> QED BY <1>5, <1>7, RecallKeeps, EditKeeps

LEMMA UpKeeps == ASSUME IInv, KeyUp PROVE IInv'
<1> USE DEF KeyUp, Reads
<1>1. LineOK /\ RecallOK
  BY DEF IInv, TypeOK
<1>2. Len(hist) \in Nat /\ Len(hist) # 0
  BY <1>1, EmptySeq DEF RecallOK
<1>3. histPos' \in 1 .. Len(hist)
  BY <1>1, <1>2 DEF Larger, RecallOK
<1>4. hist[histPos'] \in Text /\ Len(hist[histPos']) < LineMax
  BY <1>1, <1>3, ElementOfSeq DEF RecallOK
<1>5. Len(hist[histPos']) \in 0 .. Len(hist[histPos'])
  BY <1>4, JoinIs
<1>6. LineOK' /\ CallsOK' /\ Capture(calls, cap, capLen)' /\ mode' = mode
  BY <1>4, <1>5, RenderKeeps
<1>7. RecallOK'
  BY <1>1, <1>2, <1>3 DEF RecallOK, LineOK
<1> QED BY <1>6, <1>7, EditKeeps

LEMMA DownKeeps == ASSUME IInv, KeyDown PROVE IInv'
<1> USE DEF KeyDown, Reads
<1>1. RecallOK /\ Len(hist) \in Nat
  BY LenProperties DEF IInv, TypeOK, RecallOK
<1>2. histPos' \in 0 .. Len(hist)
  BY <1>1 DEF RecallOK
<1> DEFINE l == IF histPos' = 0 THEN draft ELSE hist[histPos']
<1>3. l \in Text /\ Len(l) < LineMax
  BY <1>1, <1>2, ElementOfSeq DEF RecallOK
<1>4. Len(l) \in 0 .. Len(l)
  <2> HIDE DEF l
  <2> QED BY <1>3, JoinIs
<1>5. Render(l, Len(l))
  OBVIOUS
<1> HIDE DEF l
<1>6. LineOK' /\ CallsOK' /\ Capture(calls, cap, capLen)' /\ mode' = mode
  BY <1>3, <1>4, <1>5, RenderKeeps
<1>7. draft' \in Text /\ Len(draft') < LineMax
  BY <1>1, EmptyIs DEF RecallOK
<1>8. RecallOK'
  BY <1>1, <1>2, <1>7 DEF RecallOK
<1> QED BY <1>6, <1>8, EditKeeps

\* The other keys that draw the line again.
LEMMA DrawKeeps ==
  ASSUME IInv, Backspace \/ DeleteKey \/ EscKey \/ (\E p \in 0 .. LineMax : Move(p))
  PROVE  IInv'
<1>1. LineOK /\ Len(line) \in Nat
  BY JoinIs DEF IInv, TypeOK, LineOK
<1>2. ASSUME NEW i \in 1 .. Len(line)
      PROVE  /\ RemoveAt(line, i) \in Text /\ Len(RemoveAt(line, i)) = Len(line) - 1
             /\ Len(RemoveAt(line, i)) < LineMax
  <2>1. RemoveAt(line, i) \in Text /\ Len(RemoveAt(line, i)) = Len(line) - 1
    BY <1>1, RemoveAtIs DEF LineOK, Text
  <2> QED BY <1>1, <2>1, SizesAre DEF LineOK
<1>3. CASE Backspace
  <2>1. pos \in 1 .. Len(line) /\ pos - 1 \in 0 .. Len(RemoveAt(line, pos))
    BY <1>1, <1>2, <1>3 DEF Backspace, LineOK
  <2>2. LineOK' /\ CallsOK' /\ Capture(calls, cap, capLen)' /\ mode' = mode
    BY <1>2, <1>3, <2>1, RenderKeeps DEF Backspace
  <2> QED BY <1>3, <2>2, RecallKeeps, EditKeeps DEF Backspace, Reads
<1>4. CASE DeleteKey
  <2>1. pos + 1 \in 1 .. Len(line)
    BY <1>1, <1>4 DEF DeleteKey, LineOK
  <2>2. pos \in 0 .. Len(RemoveAt(line, pos + 1))
    BY <1>1, <1>2, <2>1 DEF LineOK
  <2>3. LineOK' /\ CallsOK' /\ Capture(calls, cap, capLen)' /\ mode' = mode
    BY <1>2, <1>4, <2>1, <2>2, RenderKeeps DEF DeleteKey
  <2> QED BY <1>4, <2>3, RecallKeeps, EditKeeps DEF DeleteKey, Reads
<1>5. CASE EscKey
  <2>1. <<>> \in Text /\ Len(<<>>) < LineMax /\ 0 \in 0 .. Len(<<>>)
    BY EmptyIs
  <2>2. LineOK' /\ CallsOK' /\ Capture(calls, cap, capLen)' /\ mode' = mode
    BY <1>5, <2>1, RenderKeeps DEF EscKey
  <2> QED BY <1>5, <2>2, RecallKeeps, EditKeeps DEF EscKey, Reads
<1>6. ASSUME NEW p \in 0 .. LineMax, Move(p) PROVE IInv'
  <2>1. p \in 0 .. Len(line)
    BY <1>6 DEF Move
  <2>2. LineOK' /\ CallsOK' /\ Capture(calls, cap, capLen)' /\ mode' = mode
    BY <1>1, <1>6, <2>1, RenderKeeps DEF Move, LineOK
  <2> QED BY <1>6, <2>2, RecallKeeps, EditKeeps DEF Move, Reads
<1> QED BY <1>3, <1>4, <1>5, <1>6

LEMMA ClearKeeps == ASSUME IInv, ClearKey PROVE IInv'
<1>1. LineOK /\ Len(line) \in Nat
  BY JoinIs DEF IInv, TypeOK, LineOK
<1>2. Redrawn(line, pos, 0) \in Text
  BY <1>1, RedrawnIs DEF LineOK
<1>3. CallsOK' /\ Capture(calls, cap, capLen)'
  BY <1>2, SayKeeps DEF ClearKey
<1>4. LineOK'
  BY <1>1 DEF ClearKey, LineOK
<1> QED BY <1>3, <1>4, RecallKeeps, EditKeeps DEF ClearKey, Reads, recall

LEMMA AbandonKeeps == ASSUME IInv, Abandon PROVE IInv'
<1>1. PICK str \in {<<"^", "C", "LF">>} \cup {<<"LF">> : l \in {line} \cap {<<>>}} :
        ReadLine(str, con, calls, cap, capLen)
  BY DEF Abandon
<1>2. str \in Text
  BY StringsAre
<1> QED BY <1>1, <1>2, ReadLineKeeps DEF IInv, TypeOK, CallsOK

\* The history keeps the newest HistMax lines.
LEMMA EnterKeeps == ASSUME IInv, Enter PROVE IInv'
<1> USE DEF Enter, Reads
<1>1. LineOK /\ RecallOK /\ Len(hist) \in Nat
  BY LenProperties DEF IInv, TypeOK, RecallOK
<1>2. CallsOK' /\ Capture(calls, cap, capLen)'
  BY StringsAre, SayKeeps DEF Say
<1>3. LineOK'
  BY EmptyIs DEF LineOK
<1>4. /\ hist' \in Seq(Text) /\ Len(hist') <= HistMax
      /\ \A k \in 1 .. Len(hist') : Len(hist'[k]) < LineMax
  <2>1. CASE hist' = hist
    BY <1>1, <2>1 DEF RecallOK
  <2>2. CASE hist' = Append(hist, line) /\ Len(hist) < HistMax
    <3>1. /\ Append(hist, line) \in Seq(Text) /\ Len(Append(hist, line)) = Len(hist) + 1
          /\ \A k \in 1 .. Len(hist) : Append(hist, line)[k] = hist[k]
          /\ Append(hist, line)[Len(hist) + 1] = line
      BY <1>1, AppendProperties DEF RecallOK, LineOK
    <3>2. \A k \in 1 .. Len(hist) + 1 : k \in 1 .. Len(hist) \/ k = Len(hist) + 1
      BY <1>1
    <3> QED BY <1>1, <2>2, <3>1, <3>2, SizesAre DEF RecallOK, LineOK
  <2>3. CASE hist' = Append(Tail(hist), line) /\ ~(Len(hist) < HistMax)
    <3> DEFINE r == Tail(hist)
    <3>1. hist # <<>>
      BY <1>1, <2>3, SizesAre, EmptySeq
    <3>2. /\ r \in Seq(Text) /\ Len(r) = Len(hist) - 1
          /\ \A k \in 1 .. Len(r) : r[k] = hist[k + 1]
      BY <1>1, <3>1, HeadTailProperties DEF RecallOK
    <3>3. \A k \in 1 .. Len(r) : Len(r[k]) < LineMax
      BY <1>1, <3>2 DEF RecallOK
    <3> HIDE DEF r
    <3>4. /\ Append(r, line) \in Seq(Text) /\ Len(Append(r, line)) = Len(r) + 1
          /\ \A k \in 1 .. Len(r) : Append(r, line)[k] = r[k]
          /\ Append(r, line)[Len(r) + 1] = line
      BY <1>1, <3>2, AppendProperties DEF LineOK
    <3>5. hist' = Append(r, line) /\ Len(r) + 1 = Len(hist)
      BY <1>1, <2>3, <3>2 DEF r
    <3>6. \A k \in 1 .. Len(r) + 1 : k \in 1 .. Len(r) \/ k = Len(r) + 1
      BY <1>1, <3>5
    <3> QED BY <1>1, <3>3, <3>4, <3>5, <3>6 DEF RecallOK, LineOK
  <2> QED BY <2>1, <2>2, <2>3
<1>5. RecallOK'
  <2>1. draft' \in Text /\ Len(draft') < LineMax /\ histPos' = 0
    BY EmptyIs DEF AtNewest
  <2>2. Len(hist') \in Nat
    BY <1>4, LenProperties
  <2> QED BY <1>4, <2>1, <2>2 DEF RecallOK
<1> QED BY <1>2, <1>3, <1>5 DEF IInv, TypeOK

\* What Still leaves alone.
LEMMA StillKeeps == ASSUME IInv, Still PROVE LineOK' /\ RecallOK'
BY DEF IInv, TypeOK, Still, edit, recall, LineOK, RecallOK

\* A new call is captured if it is redirected, and none below it is from then on.
LEMMA ExecuteKeeps == ASSUME IInv, NEW r \in BOOLEAN, Execute(r) PROVE IInv'
<1> DEFINE n == Len(calls)
           marked == [k \in DOMAIN calls |-> [calls[k] EXCEPT !.inner = @ \/ r]]
           new == NewCall(r)
<1>0. CallsOK /\ Capture(calls, cap, capLen) /\ n \in Nat /\ DOMAIN calls = 1 .. n
  BY LenProperties DEF IInv, TypeOK, CallsOK
<1>1. ASSUME NEW k \in 1 .. n
      PROVE  /\ marked[k] \in Call /\ marked[k].redir = calls[k].redir
             /\ marked[k].inner = (calls[k].inner \/ r)
             /\ marked[k].buf = calls[k].buf /\ marked[k].said = calls[k].said
  <2>1. calls[k] \in Call
    BY <1>0, ElementOfSeq DEF CallsOK
  <2>2. marked[k] = [calls[k] EXCEPT !.inner = @ \/ r]
    BY <1>0
  <2> HIDE DEF marked
  <2> QED BY <2>1, <2>2 DEF Call
<1>2. marked \in Seq(Call) /\ Len(marked) = n
  <2>1. marked \in [1 .. n -> Call]
    BY <1>0, <1>1
  <2>2. marked \in Seq(Call)
    BY <1>0, <2>1, SeqDef
  <2> QED BY <1>0, <2>1, <2>2, LenProperties
<1>3. new \in Call /\ new.redir = r /\ new.inner = FALSE /\ new.said = <<>>
  <2>1. [k \in 1 .. CapSize - 1 |-> Junk] \in [1 .. CapSize - 1 -> Cell]
    BY DEF Cell
  <2> QED BY <2>1, StringsAre DEF NewCall, Call
<1> HIDE DEF marked, new
<1>4. /\ calls' \in Seq(Call) /\ Len(calls') = n + 1
      /\ \A k \in 1 .. n : calls'[k] = marked[k]
      /\ calls'[n + 1] = new /\ calls' # <<>>
  <2>1. calls' = Append(marked, new)
    BY DEF Execute, marked, new
  <2> QED BY <1>2, <1>3, <2>1, AppendProperties
<1>5. \A k \in 1 .. n + 1 : k \in 1 .. n \/ k = n + 1
  BY <1>0
<1>6. cap' = (IF r THEN n + 1 ELSE cap) /\ capLen' = IF r THEN 0 ELSE capLen
  BY DEF Execute
<1>7. CallsOK'
  BY <1>0, <1>4, <1>6, SizesAre DEF CallsOK
<1> HIDE DEF n
<1>8. Capture(calls, cap, capLen)'
  <2>1. ASSUME NEW j \in 1 .. n + 1, NEW k \in 1 .. n + 1, j < k, calls'[k].redir
        PROVE  calls'[j].inner
    <3>1. j \in 1 .. n
      BY <1>0, <2>1
    <3>2. CASE k \in 1 .. n
      <4>1. calls'[k] = marked[k] /\ marked[k].redir = calls[k].redir
        BY <1>1, <1>4, <3>2
      <4>2. calls[k].redir
        BY <2>1, <4>1
      <4>3. calls[j].inner
        BY <1>0, <2>1, <3>1, <3>2, <4>2 DEF Capture, n
      <4>4. calls'[j] = marked[j] /\ marked[j].inner = (calls[j].inner \/ r)
        BY <1>1, <1>4, <3>1
      <4> QED BY <4>3, <4>4
    <3>3. CASE k = n + 1
      BY <1>1, <1>3, <1>4, <2>1, <3>1, <3>3
    <3> QED BY <1>5, <3>2, <3>3
  <2>2. ASSUME NEW k \in 1 .. n + 1
        PROVE  cap' = k <=> calls'[k].redir /\ ~calls'[k].inner
    <3>1. CASE k = n + 1
      <4>1. cap \in 0 .. n
        BY <1>0 DEF CallsOK, n
      <4>2. calls'[k].redir = r /\ calls'[k].inner = FALSE
        BY <1>3, <1>4, <3>1
      <4>3. CASE r
        BY <1>6, <3>1, <4>2, <4>3
      <4>4. CASE ~r
        <5>1. cap' # k
          BY <1>0, <1>6, <3>1, <4>1, <4>4 DEF n
        <5>2. calls'[k].redir = FALSE
          BY <4>2, <4>4
        <5> QED BY <5>1, <5>2
      <4> QED BY <4>3, <4>4
    <3>2. CASE k \in 1 .. n
      <4>1. cap = k <=> calls[k].redir /\ ~calls[k].inner
        BY <1>0, <3>2 DEF Capture, n
      <4>2. calls'[k].redir = calls[k].redir /\ calls'[k].inner = (calls[k].inner \/ r)
        BY <1>1, <1>4, <3>2
      <4>3. CASE r
        <5>1. cap' # k
          BY <1>0, <1>6, <3>2, <4>3 DEF n
        <5>2. calls'[k].inner = TRUE
          BY <4>2, <4>3
        <5> QED BY <5>1, <5>2
      <4>4. CASE ~r
        <5>1. calls[k] \in Call
          BY <1>0, <3>2, ElementOfSeq DEF CallsOK, n
        <5>2. calls'[k].inner = calls[k].inner
          BY <4>2, <4>4, <5>1 DEF Call
        <5> QED BY <1>6, <4>1, <4>2, <4>4, <5>2
      <4> QED BY <4>3, <4>4
    <3> QED BY <1>5, <3>1, <3>2
  <2>3. ASSUME cap' # 0
        PROVE  /\ capLen' = Smaller(Len(calls'[cap'].said), CapSize - 1)
               /\ \A j \in 1 .. capLen' : calls'[cap'].buf[j] = calls'[cap'].said[j]
    <3>1. CASE r
      <4>1. calls'[cap'].said = <<>> /\ capLen' = 0
        BY <1>3, <1>4, <1>6, <3>1
      <4>2. Len(calls'[cap'].said) = 0
        BY <4>1, EmptyIs
      <4> QED BY <4>1, <4>2, SizesAre DEF Smaller
    <3>2. CASE ~r
      <4>1. cap \in 1 .. n /\ cap' = cap /\ capLen' = capLen
        BY <1>0, <1>6, <2>3, <3>2 DEF CallsOK, n
      <4>2. calls'[cap].said = calls[cap].said /\ calls'[cap].buf = calls[cap].buf
        BY <1>1, <1>4, <4>1
      <4> QED BY <1>0, <4>1, <4>2 DEF Capture
    <3> QED BY <3>1, <3>2
  <2> QED BY <1>4, <2>1, <2>2, <2>3 DEF Capture, n
<1>9. LineOK' /\ RecallOK'
  BY StillKeeps DEF Execute
<1> QED BY <1>4, <1>7, <1>8, <1>9 DEF IInv, TypeOK, Execute

\* A step of the program at the top leaves the capture as it is.
LEMMA TopKeeps ==
  ASSUME CallsOK, Capture(calls, cap, capLen), calls # <<>>,
         NEW c \in Call, c.redir = Top.redir, c.inner = Top.inner, c.buf = Top.buf,
         c.said = Top.said
  PROVE  LET cs == [calls EXCEPT ![Len(calls)] = c]
         IN  /\ cs \in Seq(Call) /\ Len(cs) = Len(calls) /\ cs # <<>>
             /\ cap \in 0 .. Len(cs) /\ Capture(cs, cap, capLen)
<1> DEFINE n == Len(calls)
           cs == [calls EXCEPT ![n] = c]
<1>1. n \in Nat \ {0} /\ n \in 1 .. n
  BY EmptySeq DEF CallsOK
<1>2. /\ cs \in Seq(Call) /\ Len(cs) = n
      /\ \A j \in 1 .. n : cs[j] = IF j = n THEN c ELSE calls[j]
  BY <1>1, ExceptSeq DEF CallsOK
<1> HIDE DEF cs
<1>3. \A j \in 1 .. n : /\ cs[j].redir = calls[j].redir /\ cs[j].inner = calls[j].inner
                        /\ cs[j].buf = calls[j].buf /\ cs[j].said = calls[j].said
  BY <1>2 DEF Top
<1>4. cs # <<>>
  BY <1>1, <1>2, EmptySeq
<1>5. Capture(cs, cap, capLen)
  BY <1>1, <1>2, <1>3 DEF Capture, CallsOK
<1> QED BY <1>2, <1>4, <1>5 DEF CallsOK, cs

LEMMA PrintsKeeps == ASSUME IInv, NEW ch \in Out, Prints(ch) PROVE IInv'
<1> USE DEF Prints, Runs
<1> DEFINE c == [Top EXCEPT !.out = @ + 1]
           cs == [calls EXCEPT ![Len(calls)] = c]
<1>1. CallsOK /\ Capture(calls, cap, capLen) /\ calls # <<>>
  BY DEF IInv, TypeOK
<1>2. Top \in Call
  BY <1>1, EmptySeq, ElementOfSeq DEF CallsOK, Top
<1>3. /\ c \in Call /\ c.redir = Top.redir /\ c.inner = Top.inner
      /\ c.buf = Top.buf /\ c.said = Top.said
  BY <1>2 DEF Call
<1> HIDE DEF c
<1>4. /\ cs \in Seq(Call) /\ Len(cs) = Len(calls) /\ cs # <<>>
      /\ cap \in 0 .. Len(cs) /\ Capture(cs, cap, capLen)
  BY <1>1, <1>3, TopKeeps
<1>5. <<ch>> \in Text
  BY ShellAssumption, StringsAre
<1>6. Output(<<ch>>, con, cs, cap, capLen)
  BY DEF c, Top
<1> HIDE DEF cs
<1>7. /\ calls' \in Seq(Call) /\ Len(calls') = Len(cs) /\ cap' = cap
      /\ capLen' \in 0 .. CapSize - 1 /\ Capture(calls', cap', capLen')
  BY <1>1, <1>4, <1>5, <1>6, OutputKeeps DEF CallsOK
<1>8. calls' # <<>>
  BY <1>4, <1>7, EmptySeq
<1>9. LineOK' /\ RecallOK'
  BY StillKeeps
<1> QED BY <1>4, <1>7, <1>8, <1>9 DEF IInv, TypeOK, CallsOK

LEMMA LeaveKeeps == ASSUME IInv, Leave PROVE IInv'
<1> USE DEF Leave, Runs
<1> DEFINE c == [Top EXCEPT !.does = "nothing"]
           cs == [calls EXCEPT ![Len(calls)] = c]
<1>1. CallsOK /\ Capture(calls, cap, capLen) /\ calls # <<>>
  BY DEF IInv, TypeOK
<1>2. Top \in Call
  BY <1>1, EmptySeq, ElementOfSeq DEF CallsOK, Top
<1>3. /\ c \in Call /\ c.redir = Top.redir /\ c.inner = Top.inner
      /\ c.buf = Top.buf /\ c.said = Top.said
  BY <1>2 DEF Call
<1>4. calls' = cs
  BY DEF Top
<1> HIDE DEF c
<1>5. /\ cs \in Seq(Call) /\ Len(cs) = Len(calls) /\ cs # <<>>
      /\ cap \in 0 .. Len(cs) /\ Capture(cs, cap, capLen)
  BY <1>1, <1>3, TopKeeps
<1> HIDE DEF cs
<1>6. LineOK' /\ RecallOK'
  BY StillKeeps
<1> QED BY <1>1, <1>4, <1>5, <1>6 DEF IInv, TypeOK, CallsOK

LEMMA NestKeeps == ASSUME IInv, Nest PROVE IInv'
<1> DEFINE c == [Top EXCEPT !.does = "shell"]
           cs == [calls EXCEPT ![Len(calls)] = c]
<1>1. CallsOK /\ Capture(calls, cap, capLen) /\ calls # <<>>
  BY DEF IInv, TypeOK, Nest
<1>2. Top \in Call
  BY <1>1, EmptySeq, ElementOfSeq DEF CallsOK, Top
<1>3. /\ c \in Call /\ c.redir = Top.redir /\ c.inner = Top.inner
      /\ c.buf = Top.buf /\ c.said = Top.said
  BY <1>2 DEF Call
<1>4. ReadLine(Message, con, cs, cap, capLen)
  BY DEF Top, Nest
<1> HIDE DEF c
<1>5. /\ cs \in Seq(Call) /\ cap \in 0 .. Len(cs) /\ Capture(cs, cap, capLen)
  BY <1>1, <1>3, TopKeeps
<1> HIDE DEF cs
<1> QED BY <1>1, <1>4, <1>5, StringsAre, ReadLineKeeps DEF CallsOK

\* The call that ends was captured, or another one still is: the end of its capture is
\* the end of the capture.
LEMMA FrontKeeps ==
  ASSUME CallsOK, Capture(calls, cap, capLen), calls # <<>>
  PROVE  /\ Front(calls) \in Seq(Call) /\ Len(Front(calls)) = Len(calls) - 1
         /\ (IF Top.redir THEN 0 ELSE cap) \in 0 .. Len(Front(calls))
         /\ Capture(Front(calls), IF Top.redir THEN 0 ELSE cap, capLen)
<1> DEFINE n == Len(calls)
           rest == Front(calls)
           to == IF Top.redir THEN 0 ELSE cap
<1>1. n \in Nat \ {0} /\ n \in 1 .. n
  BY EmptySeq DEF CallsOK
<1>2. /\ rest \in Seq(Call) /\ Len(rest) = n - 1
      /\ \A k \in 1 .. n - 1 : rest[k] = calls[k]
  <2>1. n - 1 \in Int /\ n - 1 <= Len(calls) /\ 1 \in Nat \ {0}
    BY <1>1
  <2>2. /\ SubSeq(calls, 1, n - 1) \in Seq(Call)
        /\ Len(SubSeq(calls, 1, n - 1)) = IF 1 <= n - 1 THEN (n - 1) - 1 + 1 ELSE 0
        /\ \A i \in 1 .. (n - 1) - 1 + 1 : SubSeq(calls, 1, n - 1)[i] = calls[1 + i - 1]
    BY <2>1, PartIs DEF CallsOK
  <2>3. (n - 1) - 1 + 1 = n - 1 /\ \A i \in 1 .. n - 1 : 1 + i - 1 = i
    BY <1>1
  <2>4. Len(SubSeq(calls, 1, n - 1)) = n - 1
    <3> DEFINE m == n - 1
    <3>1. m \in Nat
      BY <1>1
    <3>2. Len(SubSeq(calls, 1, m)) = IF 1 <= m THEN m - 1 + 1 ELSE 0
      BY <2>2
    <3> HIDE DEF m
    <3>3. Len(SubSeq(calls, 1, m)) = m
      BY <3>1, <3>2
    <3> QED BY <3>3 DEF m
  <2>5. \A i \in 1 .. n - 1 : SubSeq(calls, 1, n - 1)[i] = calls[i]
    BY <2>2, <2>3
  <2> QED BY <2>2, <2>4, <2>5 DEF Front
<1> HIDE DEF rest
<1>3. \A k \in 1 .. n - 1 : k \in 1 .. n /\ k < n
  BY <1>1
<1>4. CASE Top.redir
  <2>1. \A k \in 1 .. n - 1 : calls[k].inner
    BY <1>1, <1>3, <1>4 DEF Capture, Top
  <2>2. to = 0
    BY <1>4
  <2>3. Capture(rest, to, capLen)
    BY <1>1, <1>2, <1>3, <2>1, <2>2 DEF Capture
  <2> QED BY <1>1, <1>2, <2>2, <2>3 DEF rest
<1>5. CASE ~Top.redir
  <2>1. to = cap /\ cap # n
    BY <1>1, <1>5 DEF Capture, Top
  <2>2. to \in 0 .. n - 1
    BY <1>1, <2>1 DEF CallsOK
  <2>3. Capture(rest, to, capLen)
    <3>1. \A k \in 1 .. n - 1 : to = k <=> rest[k].redir /\ ~rest[k].inner
      BY <1>2, <1>3, <2>1 DEF Capture
    <3>2. \A j, k \in 1 .. n - 1 : j < k /\ rest[k].redir => rest[j].inner
      BY <1>2, <1>3 DEF Capture
    <3>3. to # 0 => to \in 1 .. n - 1
      BY <1>1, <2>2
    <3>4. to # 0 => /\ capLen = Smaller(Len(rest[to].said), CapSize - 1)
                    /\ \A j \in 1 .. capLen : rest[to].buf[j] = rest[to].said[j]
      BY <1>2, <2>1, <3>3 DEF Capture
    <3> QED BY <1>2, <3>1, <3>2, <3>4 DEF Capture
  <2> QED BY <1>2, <2>2, <2>3 DEF rest
<1> QED BY <1>4, <1>5

LEMMA EndKeeps ==
  ASSUME IInv, NEW path \in BOOLEAN, NEW ok \in BOOLEAN, End(path, ok)
  PROVE  IInv'
<1> DEFINE rest == Front(calls)
           to == IF Top.redir THEN 0 ELSE cap
           str == IF ok THEN <<>> ELSE Message
           ended == [k \in DOMAIN rest |->
                       IF k = Len(rest) THEN [rest[k] EXCEPT !.does = "nothing"] ELSE rest[k]]
<1>1. CallsOK /\ Capture(calls, cap, capLen) /\ calls # <<>>
  BY DEF IInv, TypeOK, End
<1>2. /\ rest \in Seq(Call) /\ to \in 0 .. Len(rest) /\ Capture(rest, to, capLen)
      /\ str \in Text /\ capLen \in 0 .. CapSize - 1
  BY <1>1, FrontKeeps, StringsAre DEF CallsOK
<1>3. GoOn(str, to)
  BY DEF End
<1> HIDE DEF to, str
<1>4. CASE ~leaving
  <2>1. ReadLine(str, con, rest, to, capLen)
    BY <1>3, <1>4 DEF GoOn
  <2> QED BY <1>2, <2>1, ReadLineKeeps
<1>5. CASE leaving
  <2>1. /\ Output(str, con, ended, to, capLen) /\ Still
        /\ mode' = IF rest = <<>> THEN "over" ELSE "running"
    BY <1>3, <1>5 DEF GoOn
  <2> HIDE DEF rest
  <2>2. DOMAIN rest = 1 .. Len(rest) /\ Len(rest) \in Nat
    BY <1>2, LenProperties
  <2>3. ASSUME NEW k \in 1 .. Len(rest)
        PROVE  /\ ended[k] \in Call /\ ended[k].redir = rest[k].redir
               /\ ended[k].inner = rest[k].inner /\ ended[k].buf = rest[k].buf
               /\ ended[k].said = rest[k].said
    <3>1. rest[k] \in Call
      BY <1>2, ElementOfSeq
    <3>2. ended[k] = IF k = Len(rest) THEN [rest[k] EXCEPT !.does = "nothing"] ELSE rest[k]
      BY <2>2
    <3> HIDE DEF ended
    <3> QED BY <3>1, <3>2 DEF Call
  <2>4. ended \in Seq(Call) /\ Len(ended) = Len(rest)
    <3>1. ended \in [1 .. Len(rest) -> Call]
      BY <2>2, <2>3
    <3>2. ended \in Seq(Call)
      BY <2>2, <3>1, SeqDef
    <3> QED BY <2>2, <3>1, <3>2, LenProperties
  <2> HIDE DEF ended
  <2>5. Capture(ended, to, capLen)
    BY <1>2, <2>2, <2>3, <2>4 DEF Capture
  <2>6. /\ calls' \in Seq(Call) /\ Len(calls') = Len(ended) /\ cap' = to
        /\ capLen' \in 0 .. CapSize - 1 /\ Capture(calls', cap', capLen')
    BY <1>2, <2>1, <2>4, <2>5, OutputKeeps
  <2>7. mode' = "running" => calls' # <<>>
    BY <1>2, <2>1, <2>4, <2>6, EmptySeq
  <2>8. LineOK' /\ RecallOK'
    BY <2>1, StillKeeps
  <2> QED BY <1>2, <2>1, <2>4, <2>6, <2>7, <2>8 DEF IInv, TypeOK, CallsOK
<1> QED BY <1>4, <1>5

LEMMA NextKeeps == IInv /\ [Next]_vars => IInv'
<1> SUFFICES ASSUME IInv, [Next]_vars PROVE IInv'
  OBVIOUS
<1>1. ASSUME NEW c \in Char, Insert(c) PROVE IInv'
  BY <1>1, InsertKeeps
<1>2. CASE Backspace \/ DeleteKey \/ EscKey \/ (\E p \in 0 .. LineMax : Move(p))
  BY <1>2, DrawKeeps
<1>3. CASE KeyUp
  BY <1>3, UpKeeps
<1>4. CASE KeyDown
  BY <1>4, DownKeeps
<1>5. CASE TabKey
  BY <1>5, TabKeeps
<1>6. CASE ClearKey
  BY <1>6, ClearKeeps
<1>7. CASE Abandon
  BY <1>7, AbandonKeeps
<1>8. CASE Enter
  BY <1>8, EnterKeeps
<1>9. ASSUME NEW r \in BOOLEAN, Execute(r) PROVE IInv'
  BY <1>9, ExecuteKeeps
<1>10. ASSUME NEW c \in Out, Prints(c) PROVE IInv'
  BY <1>10, PrintsKeeps
<1>11. CASE ClearScreen
  <2>1. LineOK' /\ RecallOK'
    BY <1>11, StillKeeps DEF ClearScreen, Runs
  <2> QED BY <1>11, <2>1 DEF ClearScreen, Runs, IInv, TypeOK, CallsOK
<1>12. CASE Leave
  BY <1>12, LeaveKeeps
<1>13. CASE Nest
  BY <1>13, NestKeeps
<1>14. ASSUME NEW path \in BOOLEAN, NEW ok \in BOOLEAN, End(path, ok) PROVE IInv'
  BY <1>14, EndKeeps
<1>15. CASE UNCHANGED vars
  BY <1>15 DEF vars, edit, recall, IInv, TypeOK, LineOK, RecallOK, CallsOK
<1> QED BY <1>1, <1>2, <1>3, <1>4, <1>5, <1>6, <1>7, <1>8, <1>9, <1>10, <1>11, <1>12, <1>13,
           <1>14, <1>15 DEF Next

LEMMA SpecIInv == Spec => []IInv
BY InitIInv, NextKeeps, PTL DEF Spec

\* The line, and every line of the history, fits the buffer of SHELL_MAX_LINE bytes it is
\* read into, the cursor is in the line, and the recalled entry is one of the history.
THEOREM WithinBounds == Spec => []TypeOK
BY SpecIInv, PTL DEF IInv

\* Output is captured into the buffer of a call that has not returned, for every nesting
\* of redirected commands and shells.
THEOREM CapturedLive == Spec => []CaptureIsLive
<1>1. IInv => CaptureIsLive
  <2>1. SUFFICES ASSUME IInv, cap # 0 PROVE cap \in DOMAIN calls /\ calls[cap].redir
    BY DEF CaptureIsLive
  <2>2. cap \in 1 .. Len(calls) /\ DOMAIN calls = 1 .. Len(calls)
    BY <2>1, LenProperties DEF IInv, TypeOK, CallsOK
  <2> QED BY <2>1, <2>2 DEF IInv, Capture
<1> QED BY <1>1, SpecIInv, PTL

\* What a redirected command hands to fs_write is what was printed since it began, cut
\* off at the size of the buffer, whatever ran inside it.
THEOREM Redirected == Spec => RedirectExact
<1> DEFINE P == given' # {} /\ ~Top.inner => given' = {Take(Top.said, CapSize - 1)}
<1>1. IInv /\ [Next]_vars => [P]_vars
  <2> SUFFICES ASSUME IInv, Next PROVE P
    OBVIOUS
  <2>1. ASSUME NEW path \in BOOLEAN, NEW ok \in BOOLEAN, End(path, ok) PROVE P
    <3>1. SUFFICES ASSUME given' # {}, ~Top.inner
                   PROVE  given' = {Take(Top.said, CapSize - 1)}
      OBVIOUS
    <3>2. Top.redir /\ given' = {SubSeq(Top.buf, 1, capLen)}
      BY <2>1, <3>1 DEF End
    <3> DEFINE n == Len(calls)
               kept == Take(Top.said, CapSize - 1)
    <3>3. calls \in Seq(Call) /\ n \in 1 .. n /\ Top = calls[n]
      BY <2>1, EmptySeq DEF End, IInv, TypeOK, CallsOK, Top
    <3>4. Top \in Call /\ cap = n /\ cap # 0
      BY <3>1, <3>2, <3>3, ElementOfSeq DEF IInv, Capture
    <3>5. /\ capLen = Smaller(Len(Top.said), CapSize - 1)
          /\ \A j \in 1 .. capLen : Top.buf[j] = Top.said[j]
      BY <3>3, <3>4 DEF IInv, Capture
    <3>6. Top.said \in Seq(Glyph) /\ Len(Top.said) \in Nat
      BY <3>4, JoinIs DEF Call, Text
    <3>7. kept \in Seq(Glyph) /\ Len(kept) = capLen /\ \A i \in 1 .. capLen : kept[i] = Top.said[i]
      <4>1. /\ kept \in Seq(Glyph)
            /\ Len(kept) = IF Len(Top.said) <= CapSize - 1 THEN Len(Top.said)
                           ELSE IF CapSize - 1 < 0 THEN 0 ELSE CapSize - 1
            /\ \A i \in 1 .. Len(kept) : kept[i] = Top.said[i]
        BY <3>6, SizesAre, TakeIs
      <4>2. Len(kept) = capLen
        BY <3>5, <3>6, <4>1, SizesAre DEF Smaller
      <4> QED BY <4>1, <4>2
    <3>8. capLen \in Nat
      BY <3>5, <3>6, SizesAre DEF Smaller
    <3> HIDE DEF kept
    <3>9. \A i \in 1 .. capLen : Top.buf[i] = kept[i] /\ kept[i] \in Glyph
      BY <3>5, <3>7, ElementOfSeq
    <3>10. /\ SubSeq(Top.buf, 1, capLen) \in Seq(Glyph)
           /\ Len(SubSeq(Top.buf, 1, capLen)) = IF 1 <= capLen THEN capLen - 1 + 1 ELSE 0
           /\ \A i \in 1 .. capLen - 1 + 1 : SubSeq(Top.buf, 1, capLen)[i] = Top.buf[1 + i - 1]
      BY <3>8, <3>9, SubSeqProperties
    <3> DEFINE written == SubSeq(Top.buf, 1, capLen)
    <3>11. /\ written \in Seq(Glyph) /\ Len(written) = capLen
           /\ \A i \in 1 .. capLen : written[i] = Top.buf[i]
      BY <3>8, <3>10
    <3> HIDE DEF written
    <3>12. written = kept
      BY <3>7, <3>9, <3>11, SeqEqual
    <3> QED BY <3>2, <3>12 DEF written, kept
  <2>2. ASSUME NEW r \in BOOLEAN, Execute(r) PROVE P
    BY <2>2 DEF Execute, IInv
  <2>3. CASE given' = {}
    BY <2>3
  <2> QED BY <2>1, <2>2, <2>3 DEF Next, Insert, Move, Backspace, DeleteKey, KeyUp, KeyDown,
             TabKey, EscKey, ClearKey, Abandon, Enter, Reads, Runs, Prints, ClearScreen, Leave,
             Nest
<1> QED BY <1>1, SpecIInv, PTL DEF Spec, RedirectExact

---------------------------------------------------------------------------
(* What console_puts does to a screen. *)

Scr ==
  [gui : BOOLEAN, row : Text, col : Nat, esc : {"none", "escape", "digits"}]

\* A screen after some of its fields changed.
LEMMA FieldsAre ==
  ASSUME NEW s \in Scr
  PROVE  /\ s.gui \in BOOLEAN /\ s.row \in Text /\ s.col \in Nat
         /\ s.esc \in {"none", "escape", "digits"}
         /\ s = [gui |-> s.gui, row |-> s.row, col |-> s.col, esc |-> s.esc]
BY DEF Scr

Moved(s, r, n) == [s EXCEPT !.row = r, !.col = n]

LEMMA ChangedIs ==
  ASSUME NEW s \in Scr, NEW r \in Text, NEW n \in Nat
  PROVE  LET t == Moved(s, r, n)
         IN  t \in Scr /\ t.gui = s.gui /\ t.row = r /\ t.col = n /\ t.esc = s.esc
BY DEF Scr, Moved

LEMMA DivIs ==
  ASSUME NEW n \in Nat, NEW d \in Nat \ {0}
  PROVE  n \div d \in Nat
BY SMT

LEMMA ConsoleIs ==
  Cols \in Nat \ {0} /\ TabStop \in Nat \ {0} /\ Spaces(Cols) \in Text /\ <<>> \in Text
BY ConsoleAssumption, SpacesAre, StringsAre

LEMMA NewlineIs ==
  ASSUME NEW s \in Scr
  PROVE  /\ Newline(s) \in Scr /\ Newline(s).gui = s.gui /\ Newline(s).esc = s.esc
         /\ Newline(s).col = 0 /\ Newline(s).row = EmptyScreen(s.gui).row
<1> DEFINE r == IF s.gui THEN <<>> ELSE Spaces(Cols)
<1>1. r \in Text
  BY ConsoleIs
<1>2. Newline(s) = Moved(s, r, 0) /\ r = EmptyScreen(s.gui).row
  BY DEF Newline, EmptyScreen, Moved
<1> HIDE DEF r
<1>3. LET t == Moved(s, r, 0)
      IN  t \in Scr /\ t.gui = s.gui /\ t.row = r /\ t.col = 0 /\ t.esc = s.esc
  <2>1. 0 \in Nat
    OBVIOUS
  <2> QED BY <1>1, <2>1, ChangedIs, ZenonT(60)
<1> QED BY <1>2, <1>3

LEMMA BlanksAre == ASSUME NEW n \in Int PROVE Spaces(n) \in Text
<1>1. CASE n \in Nat
  BY <1>1, SpacesAre
<1>2. CASE n \notin Nat
  <2>1. 1 .. n = {} /\ 1 .. 0 = {}
    BY <1>2
  <2>2. Spaces(n) = Spaces(0)
    BY <2>1 DEF Spaces
  <2> QED BY <2>2, SpacesAre
<1> QED BY <1>1, <1>2

LEMMA TakenIs == ASSUME NEW t \in Text, NEW k \in Nat PROVE Take(t, k) \in Text
BY TakeIs DEF Text

LEMMA TermCharIs ==
  ASSUME NEW s \in Scr, NEW c \in Glyph
  PROVE  TermChar(s, c) \in Scr /\ TermChar(s, c).gui = s.gui /\ TermChar(s, c).esc = s.esc
<1> DEFINE t == IF s.col >= Cols THEN Newline(s) ELSE s
<1>1. t \in Scr /\ t.gui = s.gui /\ t.esc = s.esc
  BY NewlineIs
<1>2. TermChar(s, c) = [t EXCEPT !.row = Append(Take(t.row, t.col), c), !.col = t.col + 1]
  BY DEF TermChar
<1> HIDE DEF t
<1>3. Take(t.row, t.col) \in Text
  BY <1>1, TakenIs DEF Scr
<1>4. Append(Take(t.row, t.col), c) \in Text
  BY <1>3, AppendProperties DEF Text
<1>5. t.col + 1 \in Nat
  BY <1>1 DEF Scr
<1> DEFINE r == Append(Take(t.row, t.col), c)
           n == t.col + 1
<1>6. r \in Text /\ n \in Nat /\ TermChar(s, c) = Moved(t, r, n)
  BY <1>2, <1>4, <1>5 DEF Moved
<1> HIDE DEF r, n
<1>7. LET u == Moved(t, r, n)
      IN  u \in Scr /\ u.gui = t.gui /\ u.row = r /\ u.col = n /\ u.esc = t.esc
  BY <1>1, <1>6, ChangedIs, ZenonT(60)
<1> QED BY <1>1, <1>6, <1>7

LEMMA VgaCharIs ==
  ASSUME NEW s \in Scr, NEW c \in Glyph
  PROVE  VgaChar(s, c) \in Scr /\ VgaChar(s, c).gui = s.gui /\ VgaChar(s, c).esc = s.esc
<1> DEFINE t == [s EXCEPT !.row[s.col + 1] = c, !.col = s.col + 1]
<1>1. [s.row EXCEPT ![s.col + 1] = c] \in Text
  <2> DEFINE r == s.row
  <2>1. r \in Seq(Glyph) /\ Len(r) \in Nat /\ DOMAIN r = 1 .. Len(r)
    BY LenProperties DEF Scr, Text
  <2> HIDE DEF r
  <2>2. [r EXCEPT ![s.col + 1] = c] \in [1 .. Len(r) -> Glyph]
    BY <2>1, ElementOfSeq
  <2>3. [r EXCEPT ![s.col + 1] = c] \in Seq(Glyph)
    BY <2>1, <2>2, SeqDef
  <2> QED BY <2>3 DEF r, Text
<1>2. t = [s EXCEPT !.row = [s.row EXCEPT ![s.col + 1] = c], !.col = s.col + 1]
  BY DEF Scr
<1> DEFINE r == [s.row EXCEPT ![s.col + 1] = c]
<1> HIDE DEF t, r
<1>5. s.col + 1 \in Nat
  BY DEF Scr
<1>3. t \in Scr /\ t.gui = s.gui /\ t.esc = s.esc
  <2> DEFINE n == s.col + 1
  <2>1. t = Moved(s, r, n) /\ r \in Text /\ n \in Nat
    BY <1>1, <1>2, <1>5 DEF r, Moved
  <2> HIDE DEF n
  <2>2. LET u == Moved(s, r, n)
        IN  u \in Scr /\ u.gui = s.gui /\ u.row = r /\ u.col = n /\ u.esc = s.esc
    BY <2>1, ChangedIs, ZenonT(60)
  <2> QED BY <2>1, <2>2
<1>4. VgaChar(s, c) = IF t.col >= Cols THEN Newline(t) ELSE t
  BY DEF VgaChar, t
<1> QED BY <1>3, <1>4, NewlineIs

LEMMA TabbedIs ==
  ASSUME NEW s \in Scr
  PROVE  Tabbed(s) \in Scr /\ Tabbed(s).gui = s.gui /\ Tabbed(s).esc = s.esc
<1>1. NextTab(s) \in Nat /\ NextTab(s) - s.col \in Int
  <2> DEFINE n == s.col
             q == n \div TabStop
  <2>1. n \in Nat /\ TabStop \in Nat \ {0}
    BY ConsoleIs DEF Scr
  <2> HIDE DEF n
  <2>2. q \in Nat
    BY <2>1, DivIs
  <2> HIDE DEF q
  <2>3. (q + 1) * TabStop \in Nat
    BY <2>1, <2>2
  <2>4. (q + 1) * TabStop - n \in Int
    BY <2>1, <2>3
  <2> QED BY <2>3, <2>4 DEF NextTab, q, n
<1>2. CASE s.gui
  <2>1. Take(s.row, s.col) \in Text /\ Spaces(NextTab(s) - s.col) \in Text
    BY <1>1, TakenIs, BlanksAre DEF Scr
  <2>2. Take(s.row, s.col) \o Spaces(NextTab(s) - s.col) \in Text
    BY <2>1, JoinIs
  <2> QED BY <1>1, <1>2, <2>2 DEF Tabbed, Scr
<1>3. CASE ~s.gui
  <2>1. Tabbed(s) = IF NextTab(s) >= Cols THEN Newline(s) ELSE [s EXCEPT !.col = NextTab(s)]
    BY <1>3 DEF Tabbed
  <2>2. [s EXCEPT !.col = NextTab(s)] \in Scr
    BY <1>1 DEF Scr
  <2> QED BY <2>1, <2>2, NewlineIs DEF Scr
<1> QED BY <1>2, <1>3

\* A character leaves a screen, of the same kind.
LEMMA PutcIs ==
  ASSUME NEW s \in Scr, NEW c \in Glyph
  PROVE  /\ Putc(s, c) \in Scr /\ Putc(s, c).gui = s.gui
         /\ Putc(s, c).esc = Parsed(s, c)
<1> DEFINE t == [s EXCEPT !.esc = Parsed(s, c)]
<1>1. t \in Scr /\ t.gui = s.gui /\ t.esc = Parsed(s, c)
  BY DEF Scr, Parsed
<1>2. Putc(s, c) = IF s.esc = "none" /\ c # "ESC" THEN Display(t, c) ELSE t
  BY DEF Putc
<1> HIDE DEF t
<1>3. Display(t, c) \in Scr /\ Display(t, c).gui = t.gui /\ Display(t, c).esc = t.esc
  <2>1. CASE c = "CR"
    BY <1>1, <2>1 DEF Display, Scr
  <2>2. CASE c = "LF"
    BY <1>1, <2>2, NewlineIs DEF Display
  <2>3. CASE c = "TAB"
    BY <1>1, <2>3, TabbedIs DEF Display
  <2>4. CASE c \notin {"CR", "LF", "TAB"}
    <3>1. Display(t, c) = IF t.gui THEN TermChar(t, c) ELSE VgaChar(t, c)
      BY <2>4 DEF Display
    <3> QED BY <1>1, <3>1, TermCharIs, VgaCharIs
  <2> QED BY <2>1, <2>2, <2>3, <2>4
<1> QED BY <1>1, <1>2, <1>3
---------------------------------------------------------------------------
(* A text is put on a screen one character after the other. *)

\* The screens on the way.
Steps(s, str, f) ==
  /\ f \in [0 .. Len(str) -> Scr] /\ f[0] = s
  /\ \A k \in 1 .. Len(str) : f[k] = Putc(f[k - 1], str[k])

LEMMA StepsExist ==
  ASSUME NEW s \in Scr, NEW str \in Text
  PROVE  \E f : Steps(s, str, f)
<1>1. Len(str) \in Nat /\ \A k \in 1 .. Len(str) : str[k] \in Glyph
  BY LenProperties, ElementOfSeq DEF Text
<1> DEFINE N == Len(str)
           g == [x \in Scr \X (1 .. N) |-> Putc(x[1], str[x[2]])]
<1>2. g \in [Scr \X (1 .. N) -> Scr]
  <2>1. \A x \in Scr \X (1 .. N) : Putc(x[1], str[x[2]]) \in Scr
    <3> TAKE x \in Scr \X (1 .. N)
    <3>1. x[1] \in Scr /\ str[x[2]] \in Glyph
      BY <1>1
    <3> QED BY <3>1, PutcIs
  <2> QED BY <2>1
<1>3. \A t \in Scr, k \in 1 .. N : g[<<t, k>>] = Putc(t, str[k])
  OBVIOUS
<1> HIDE DEF g
<1>4. PICK f : Rounds(N, Scr, s, g, f)
  BY <1>1, <1>2, CountedLoop
<1>5. f \in [0 .. N -> Scr] /\ f[0] = s /\ \A k \in 1 .. N : f[k] = g[<<f[k - 1], k>>]
  BY <1>4 DEF Rounds
<1>6. ASSUME NEW k \in 1 .. N PROVE f[k] = Putc(f[k - 1], str[k])
  <2>1. k - 1 \in 0 .. N
    BY <1>1
  <2>2. f[k - 1] \in Scr
    BY <1>5, <2>1
  <2> QED BY <1>3, <1>5, <2>2
<1>7. Steps(s, str, f)
  BY <1>5, <1>6 DEF Steps
<1> QED BY <1>7

LEMMA StepsAre ==
  ASSUME NEW s, NEW str \in Text, NEW f, Steps(s, str, f)
  PROVE  Puts(s, str) = f[Len(str)] /\ Puts(s, str) \in Scr
<1> DEFINE N == Len(str)
           E(h) == h = [k \in 0 .. N |-> IF k = 0 THEN s ELSE Putc(h[k - 1], str[k])]
<1>1. N \in Nat /\ f \in [0 .. N -> Scr] /\ f[0] = s /\ \A k \in 1 .. N : f[k] = Putc(f[k - 1], str[k])
  BY LenProperties DEF Steps, Text
<1>2. E(f)
  <2>1. \A k \in 0 .. N : f[k] = IF k = 0 THEN s ELSE Putc(f[k - 1], str[k])
    <3> TAKE k \in 0 .. N
    <3>1. k = 0 \/ k \in 1 .. N
      BY <1>1
    <3> QED BY <1>1, <3>1
  <2>2. f = [k \in 0 .. N |-> f[k]]
    BY <1>1
  <2> HIDE DEF N
  <2> QED BY <2>1, <2>2, Zenon
<1>3. PICK h : E(h) /\ Puts(s, str) = h[N]
  <2>1. E(CHOOSE h : E(h))
    <3> HIDE DEF E
    <3> QED BY <1>2, Zenon
  <2>2. Puts(s, str) = (CHOOSE h : E(h))[N]
    BY Zenon DEF Puts
  <2> QED BY <2>1, <2>2, Zenon
<1>4. h[0] = s /\ \A k \in 1 .. N : h[k] = Putc(h[k - 1], str[k])
  <2> HIDE DEF N
  <2>1. \A k \in 0 .. N : h[k] = IF k = 0 THEN s ELSE Putc(h[k - 1], str[k])
    BY <1>3, Zenon
  <2>2. 0 \in 0 .. N /\ \A k \in 1 .. N : k \in 0 .. N /\ k # 0
    BY <1>1
  <2> QED BY <2>1, <2>2, Zenon
<1> DEFINE T == {k \in 0 .. N : h[k] = f[k]}
<1>5. 0 \in T
  BY <1>1, <1>4
<1>6. ASSUME NEW k \in 1 .. N, k - 1 \in T PROVE k \in T
  BY <1>1, <1>4, <1>6
<1> HIDE DEF T
<1>7. \A k \in 0 .. N : k \in T
  BY <1>1, <1>5, <1>6, UpTo
<1>8. N \in T /\ N \in 0 .. N
  BY <1>1, <1>7
<1>9. Puts(s, str) = f[N]
  BY <1>3, <1>8 DEF T
<1> QED BY <1>1, <1>8, <1>9

\* One after another.
LEMMA PutsIs ==
  ASSUME NEW s \in Scr, NEW str \in Text
  PROVE  Puts(s, str) \in Scr
BY StepsExist, StepsAre

\* What every character keeps is so in the end.
LEMMA PutsKeep ==
  ASSUME NEW s \in Scr, NEW str \in Text, NEW T,
         s \in T[0],
         \A k \in 1 .. Len(str) : \A t \in Scr \cap T[k - 1] : Putc(t, str[k]) \in T[k]
  PROVE  Puts(s, str) \in T[Len(str)]
<1>1. PICK f : Steps(s, str, f)
  BY StepsExist
<1> DEFINE N == Len(str)
           U == {k \in 0 .. N : f[k] \in T[k]}
<1>2. N \in Nat /\ f \in [0 .. N -> Scr] /\ f[0] = s /\ \A k \in 1 .. N : f[k] = Putc(f[k - 1], str[k])
  BY <1>1, LenProperties DEF Steps, Text
<1>3. 0 \in U
  BY <1>2
<1>4. ASSUME NEW k \in 1 .. N, k - 1 \in U PROVE k \in U
  <2>1. f[k - 1] \in Scr /\ f[k - 1] \in T[k - 1]
    BY <1>2, <1>4
  <2> QED BY <1>2, <2>1
<1> HIDE DEF U
<1>5. N \in U
  <2>1. \A k \in 0 .. N : k \in U
    BY <1>2, <1>3, <1>4, UpTo
  <2> QED BY <1>2, <2>1
<1>6. Puts(s, str) = f[N]
  BY <1>1, StepsAre
<1> QED BY <1>5, <1>6 DEF U

LEMMA SameKind ==
  ASSUME NEW s \in Scr, NEW str \in Text
  PROVE  Puts(s, str).gui = s.gui
<1> DEFINE T == [k \in 0 .. Len(str) |-> {t \in Scr : t.gui = s.gui}]
<1>1. Len(str) \in Nat /\ \A k \in 1 .. Len(str) : str[k] \in Glyph
  BY LenProperties, ElementOfSeq DEF Text
<1>2. s \in T[0]
  BY <1>1
<1>3. ASSUME NEW k \in 1 .. Len(str), NEW t \in Scr \cap T[k - 1] PROVE Putc(t, str[k]) \in T[k]
  <2>1. k \in 0 .. Len(str) /\ k - 1 \in 0 .. Len(str) /\ str[k] \in Glyph
    BY <1>1
  <2>2. Putc(t, str[k]) \in Scr /\ Putc(t, str[k]).gui = t.gui
    BY <2>1, PutcIs
  <2> QED BY <2>1, <2>2
<1>4. Puts(s, str) \in T[Len(str)]
  <2> HIDE DEF T
  <2> QED BY <1>2, <1>3, PutsKeep
<1> QED BY <1>1, <1>4

\* The beginning of a text is put there first.
LEMMA StepsTake ==
  ASSUME NEW s \in Scr, NEW str \in Text, NEW f, Steps(s, str, f), NEW k \in 0 .. Len(str)
  PROVE  Puts(s, Take(str, k)) = f[k]
<1> DEFINE t == Take(str, k)
           g == [i \in 0 .. k |-> f[i]]
<1>1. Len(str) \in Nat
  BY LenProperties DEF Text
<1>2. t \in Text /\ Len(t) = k /\ \A i \in 1 .. k : t[i] = str[i]
  <2>1. str \in Seq(Glyph) /\ k \in Int
    BY <1>1 DEF Text
  <2>2. /\ t \in Seq(Glyph) /\ Len(t) = IF Len(str) <= k THEN Len(str) ELSE IF k < 0 THEN 0 ELSE k
        /\ \A i \in 1 .. Len(t) : t[i] = str[i]
    <3> HIDE DEF t
    <3> QED BY <2>1, TakeIs DEF t
  <2> QED BY <1>1, <2>2 DEF Text
<1> HIDE DEF t
<1>3. f \in [0 .. Len(str) -> Scr] /\ f[0] = s /\ \A i \in 1 .. Len(str) : f[i] = Putc(f[i - 1], str[i])
  BY DEF Steps
<1>4. g \in [0 .. k -> Scr] /\ g[0] = s /\ g[k] = f[k]
  BY <1>1, <1>3
<1>5. ASSUME NEW i \in 1 .. k PROVE g[i] = Putc(g[i - 1], t[i])
  <2>1. i \in 1 .. Len(str) /\ g[i] = f[i] /\ g[i - 1] = f[i - 1] /\ t[i] = str[i]
    BY <1>1, <1>2
  <2> QED BY <1>3, <2>1
<1>6. Steps(s, t, g)
  BY <1>2, <1>4, <1>5 DEF Steps
<1>7. Puts(s, t) = g[k]
  BY <1>2, <1>6, StepsAre
<1> QED BY <1>4, <1>7 DEF t

LEMMA PutsNone ==
  ASSUME NEW s \in Scr PROVE Puts(s, <<>>) = s
<1>1. <<>> \in Text /\ Len(<<>>) = 0
  BY ConsoleIs
<1>2. PICK f : Steps(s, <<>>, f)
  BY <1>1, StepsExist
<1> QED BY <1>1, <1>2, StepsAre DEF Steps

LEMMA PutsOne ==
  ASSUME NEW s \in Scr, NEW c \in Glyph PROVE Puts(s, <<c>>) = Putc(s, c)
<1> DEFINE t == <<c>>
<1>1. t \in Text /\ Len(t) = 1 /\ t[1] = c
  BY DEF Text
<1> HIDE DEF t
<1>2. PICK f : Steps(s, t, f)
  BY <1>1, StepsExist
<1>3. f[0] = s /\ f[1] = Putc(f[1 - 1], t[1])
  BY <1>1, <1>2 DEF Steps
<1>4. Puts(s, t) = f[1]
  BY <1>1, <1>2, StepsAre
<1> QED BY <1>1, <1>3, <1>4 DEF t

LEMMA PutsJoin ==
  ASSUME NEW s \in Scr, NEW t \in Text, NEW u \in Text
  PROVE  Puts(s, t \o u) = Puts(Puts(s, t), u) /\ t \o u \in Text
<1> DEFINE v == t \o u
<1>1. Len(t) \in Nat /\ Len(u) \in Nat
  BY LenProperties DEF Text
<1>2. /\ v \in Text /\ Len(v) = Len(t) + Len(u)
      /\ \A i \in 1 .. Len(t) : v[i] = t[i]
      /\ \A i \in 1 .. Len(u) : v[Len(t) + i] = u[i]
  <2>1. t \in Seq(Glyph) /\ u \in Seq(Glyph)
    BY DEF Text
  <2>2. /\ v \in Seq(Glyph) /\ Len(v) = Len(t) + Len(u)
        /\ \A i \in 1 .. Len(v) : v[i] = IF i <= Len(t) THEN t[i] ELSE u[i - Len(t)]
    BY <2>1, ConcatProperties
  <2> HIDE DEF v
  <2>3. \A i \in 1 .. Len(t) : v[i] = t[i]
    BY <1>1, <2>2
  <2>4. ASSUME NEW i \in 1 .. Len(u) PROVE v[Len(t) + i] = u[i]
    <3>1. Len(t) + i \in 1 .. Len(v) /\ ~(Len(t) + i <= Len(t)) /\ (Len(t) + i) - Len(t) = i
      BY <1>1, <2>2
    <3> QED BY <2>2, <3>1
  <2> QED BY <2>2, <2>3, <2>4 DEF Text
<1> HIDE DEF v
<1>3. PICK f : Steps(s, v, f)
  BY <1>2, StepsExist
<1>4. f \in [0 .. Len(v) -> Scr] /\ f[0] = s /\ \A i \in 1 .. Len(v) : f[i] = Putc(f[i - 1], v[i])
  BY <1>3 DEF Steps
<1> DEFINE g == [i \in 0 .. Len(t) |-> f[i]]
           h == [i \in 0 .. Len(u) |-> f[Len(t) + i]]
<1>5. Steps(s, t, g)
  <2>1. g \in [0 .. Len(t) -> Scr] /\ g[0] = s
    BY <1>1, <1>2, <1>4
  <2>2. \A i \in 1 .. Len(t) : g[i] = Putc(g[i - 1], t[i])
    BY <1>1, <1>2, <1>4
  <2> HIDE DEF g
  <2> QED BY <2>1, <2>2 DEF Steps
<1>6. Steps(f[Len(t)], u, h)
  <2>1. h \in [0 .. Len(u) -> Scr] /\ h[0] = f[Len(t)]
    BY <1>1, <1>2, <1>4
  <2>2. ASSUME NEW i \in 1 .. Len(u) PROVE h[i] = Putc(h[i - 1], u[i])
    <3>1. /\ h[i] = f[Len(t) + i] /\ h[i - 1] = f[(Len(t) + i) - 1] /\ v[Len(t) + i] = u[i]
          /\ Len(t) + i \in 1 .. Len(v)
      BY <1>1, <1>2
    <3> QED BY <1>4, <3>1
  <2> HIDE DEF h
  <2> QED BY <2>1, <2>2 DEF Steps
<1>7. Puts(s, t) = f[Len(t)]
  <2>1. Puts(s, t) = g[Len(t)]
    BY <1>5, StepsAre
  <2> QED BY <1>1, <2>1
<1>8. Puts(f[Len(t)], u) = f[Len(v)]
  <2>1. Puts(f[Len(t)], u) = h[Len(u)]
    BY <1>6, StepsAre
  <2> QED BY <1>1, <1>2, <2>1
<1>9. Puts(s, v) = f[Len(v)]
  BY <1>2, <1>3, StepsAre
<1> QED BY <1>2, <1>7, <1>8, <1>9 DEF v

---------------------------------------------------------------------------
(* A row that is written from its left end. *)

\* r stands at the left of the row and the cursor behind it; what is right of it in
\* text mode is what the row b had there.
OnRow(s, b, r) ==
  /\ r \in Text /\ s.col = Len(r) /\ Len(r) < Cols
  /\ s.gui => r = <<>> \/ s.row = r
  /\ ~s.gui => /\ Len(s.row) = Cols
               /\ \A k \in 1 .. Cols : s.row[k] = IF k <= Len(r) THEN r[k] ELSE b[k]

LEMMA AppendIs ==
  ASSUME NEW r \in Text, NEW c \in Glyph
  PROVE  /\ Append(r, c) \in Text /\ Len(Append(r, c)) = Len(r) + 1 /\ Len(r) \in Nat
         /\ \A k \in 1 .. Len(r) : Append(r, c)[k] = r[k]
         /\ Append(r, c)[Len(r) + 1] = c /\ Append(r, c) # <<>>
<1>1. r \in Seq(Glyph) /\ Len(r) \in Nat
  BY LenProperties DEF Text
<1> DEFINE a == Append(r, c)
<1>2. /\ a \in Seq(Glyph) /\ Len(a) = Len(r) + 1
      /\ \A k \in 1 .. Len(r) : a[k] = r[k]
      /\ a[Len(r) + 1] = c
  BY <1>1, AppendProperties
<1> HIDE DEF a
<1>3. a # <<>>
  BY <1>1, <1>2, EmptySeq
<1> QED BY <1>1, <1>2, <1>3 DEF a, Text

LEMMA PutOn ==
  ASSUME NEW s \in Scr, NEW b, NEW r, OnRow(s, b, r), s.esc = "none",
         NEW c \in Plain, Len(r) + 1 < Cols
  PROVE  OnRow(Putc(s, c), b, Append(r, c)) /\ Putc(s, c).esc = "none"
<1>1. c \in Glyph /\ c \notin {"LF", "CR", "TAB", "ESC"}
  BY DEF Plain
<1> DEFINE t == [s EXCEPT !.esc = Parsed(s, c)]
           a == Append(r, c)
<1>2. t \in Scr /\ t.gui = s.gui /\ t.row = s.row /\ t.col = s.col /\ t.esc = "none"
  BY <1>1 DEF Scr, Parsed
<1>3. Putc(s, c) = Display(t, c)
  BY <1>1 DEF Putc
<1>4. Display(t, c) = IF t.gui THEN TermChar(t, c) ELSE VgaChar(t, c)
  BY <1>1 DEF Display
<1> HIDE DEF t
<1>5. Putc(s, c) \in Scr /\ Putc(s, c).gui = t.gui /\ Putc(s, c).esc = "none"
  BY <1>1, <1>2, PutcIs DEF Parsed
<1>6. /\ r \in Text /\ t.col = Len(r) /\ Len(r) \in Nat /\ Cols \in Nat
      /\ t.gui => r = <<>> \/ t.row = r
      /\ ~t.gui => /\ Len(t.row) = Cols
                   /\ \A k \in 1 .. Cols : t.row[k] = IF k <= Len(r) THEN r[k] ELSE b[k]
  BY <1>2, LenProperties, ConsoleIs DEF OnRow, Text
<1>7. /\ a \in Text /\ Len(a) = Len(r) + 1 /\ \A k \in 1 .. Len(r) : a[k] = r[k]
      /\ a[Len(r) + 1] = c
  BY <1>1, <1>6, AppendIs
<1>8. CASE t.gui
  <2>1. Take(t.row, t.col) = r
    <3>1. CASE t.row = r
      BY <1>6, <3>1 DEF Take
    <3>2. CASE r = <<>>
      <4>1. t.col = 0 /\ t.row \in Seq(Glyph)
        BY <1>2, <1>6, <3>2 DEF Scr, Text
      <4>2. Take(t.row, 0) \in Seq(Glyph) /\ Len(Take(t.row, 0)) = 0
        <5>1. Len(t.row) \in Nat
          BY <4>1, LenProperties
        <5> QED BY <4>1, <5>1, TakeIs
      <4> QED BY <3>2, <4>1, <4>2, EmptySeq
    <3> QED BY <1>6, <1>8, <3>1, <3>2
  <2>2. ~(t.col >= Cols)
    BY <1>6
  <2>3. TermChar(t, c) = Moved(t, a, t.col + 1)
    BY <2>1, <2>2 DEF TermChar, Moved
  <2>4. t.col + 1 \in Nat
    BY <1>6
  <2> HIDE DEF a
  <2>5. Moved(t, a, t.col + 1).row = a /\ Moved(t, a, t.col + 1).col = t.col + 1
    BY <1>2, <1>7, <2>4, ChangedIs
  <2>6. Putc(s, c).row = a /\ Putc(s, c).col = Len(a)
    BY <1>3, <1>4, <1>6, <1>7, <1>8, <2>3, <2>5
  <2>7. OnRow(Putc(s, c), b, a)
    BY <1>5, <1>6, <1>7, <1>8, <2>6 DEF OnRow
  <2> QED BY <1>5, <2>7 DEF a
<1>9. CASE ~t.gui
  <2> DEFINE n == t.col + 1
             u == [t EXCEPT !.row[n] = c, !.col = n]
  <2>1. u.col = n /\ u.row = [t.row EXCEPT ![n] = c]
    BY <1>2 DEF Scr
  <2>2. VgaChar(t, c) = IF u.col >= Cols THEN Newline(u) ELSE u
    BY DEF VgaChar
  <2> HIDE DEF u
  <2>3. Putc(s, c) = u
    BY <1>3, <1>4, <1>6, <1>9, <2>1, <2>2
  <2>4. t.row \in Seq(Glyph) /\ DOMAIN t.row = 1 .. Cols
    BY <1>2, <1>6, <1>9, LenProperties DEF Scr, Text
  <2>5. n \in 1 .. Cols /\ n = Len(r) + 1
    BY <1>6
  <2> HIDE DEF n
  <2> DEFINE v == [t.row EXCEPT ![n] = c]
  <2>6. DOMAIN v = 1 .. Cols /\ v[n] = c /\ \A k \in 1 .. Cols : k # n => v[k] = t.row[k]
    BY <2>4, <2>5
  <2>7. u.row = v /\ u.row \in Seq(Glyph)
    BY <1>5, <2>1, <2>3 DEF Scr, Text
  <2> HIDE DEF v, a
  <2>8. Len(v) = Cols
    BY <1>6, <2>6, <2>7, LenProperties
  <2>9. ASSUME NEW k \in 1 .. Cols PROVE v[k] = IF k <= Len(a) THEN a[k] ELSE b[k]
    <3>1. CASE k = n
      BY <1>6, <1>7, <2>5, <2>6, <3>1
    <3>2. CASE k # n
      <4>1. v[k] = IF k <= Len(r) THEN r[k] ELSE b[k]
        BY <1>6, <1>9, <2>6, <3>2
      <4>2. k <= Len(a) <=> k <= Len(r)
        BY <1>6, <1>7, <2>5, <3>2
      <4>3. k <= Len(r) => a[k] = r[k]
        BY <1>6, <1>7
      <4> QED BY <4>1, <4>2, <4>3
    <3> QED BY <3>1, <3>2
  <2>10. OnRow(u, b, a)
    <3>1. ~u.gui /\ u.col = Len(a) /\ Len(a) < Cols /\ a \in Text
      BY <1>5, <1>6, <1>7, <1>9, <2>1, <2>3, <2>5
    <3> QED BY <2>7, <2>8, <2>9, <3>1 DEF OnRow
  <2> QED BY <1>5, <2>3, <2>10 DEF a
<1> QED BY <1>8, <1>9

\* Plain text goes on behind what stands there.
LEMMA TextOn ==
  ASSUME NEW s \in Scr, NEW b, NEW r, OnRow(s, b, r), s.esc = "none",
         NEW l \in Seq(Plain), Len(r) + Len(l) < Cols
  PROVE  OnRow(Puts(s, l), b, r \o l) /\ Puts(s, l).esc = "none"
<1> DEFINE N == Len(l)
           L(k) == r \o SubSeq(l, 1, k)
           T == [k \in 0 .. N |-> {t \in Scr : OnRow(t, b, L(k)) /\ t.esc = "none"}]
<1>1. /\ N \in Nat /\ Len(r) \in Nat /\ Cols \in Nat /\ r \in Seq(Glyph) /\ l \in Seq(Glyph)
      /\ \A k \in 1 .. N : l[k] \in Plain
  <2>1. Plain \subseteq Glyph
    BY DEF Plain
  <2>2. l \in Seq(Glyph)
    BY <2>1
  <2> QED BY <2>2, LenProperties, ElementOfSeq, ConsoleIs DEF OnRow, Text
<1>2. L(0) = r /\ L(N) = r \o l
  BY <1>1
<1>3. \A k \in 1 .. N : L(k) = Append(L(k - 1), l[k]) /\ Len(L(k - 1)) = Len(r) + (k - 1)
  BY <1>1
<1>4. s \in T[0]
  <2>1. 0 \in 0 .. N
    BY <1>1
  <2> HIDE DEF L, N
  <2> QED BY <1>2, <2>1
<1>5. ASSUME NEW k \in 1 .. N, NEW t \in Scr \cap T[k - 1] PROVE Putc(t, l[k]) \in T[k]
  <2>1. k \in 0 .. N /\ k - 1 \in 0 .. N /\ l[k] \in Plain /\ l[k] \in Glyph
    BY <1>1 DEF Plain
  <2>2. t \in Scr /\ OnRow(t, b, L(k - 1)) /\ t.esc = "none"
    BY <2>1
  <2>3. L(k) = Append(L(k - 1), l[k]) /\ Len(L(k - 1)) + 1 < Cols
    BY <1>1, <1>3
  <2> HIDE DEF L, T, N
  <2>4. OnRow(Putc(t, l[k]), b, L(k)) /\ Putc(t, l[k]).esc = "none"
    BY <2>1, <2>2, <2>3, PutOn
  <2>5. Putc(t, l[k]) \in Scr
    BY <2>1, <2>2, PutcIs
  <2> QED BY <2>1, <2>4, <2>5 DEF T
<1> HIDE DEF T, L
<1>6. Puts(s, l) \in T[N]
  BY <1>1, <1>4, <1>5, PutsKeep DEF Text
<1>7. N \in 0 .. N
  BY <1>1
<1> QED BY <1>2, <1>6, <1>7 DEF T

\* A carriage return begins the row again.
LEMMA ReturnOn ==
  ASSUME NEW s \in Scr, s.esc = "none", ~s.gui => Len(s.row) = Cols
  PROVE  OnRow(Putc(s, "CR"), s.row, <<>>) /\ Putc(s, "CR").esc = "none"
<1> DEFINE t == Putc(s, "CR")
<1>1. t.col = 0 /\ t.row = s.row /\ t.gui = s.gui /\ t.esc = "none"
  BY DEF Putc, Parsed, Display, Scr
<1> HIDE DEF t
<1>2. <<>> \in Text /\ Len(<<>>) = 0 /\ Cols \in Nat \ {0}
  BY ConsoleIs
<1>3. ASSUME ~s.gui, NEW k \in 1 .. Cols PROVE ~(k <= 0)
  OBVIOUS
<1>4. OnRow(t, s.row, <<>>)
  BY <1>1, <1>2, <1>3 DEF OnRow
<1> QED BY <1>1, <1>4 DEF t

LEMMA PromptChars ==
  ASSUME NEW d, NEW k \in 1 .. Len(PromptAt(d))
  PROVE  PromptAt(d)[k] \in Glyph \ {"LF", "CR", "TAB"}
<1>1. PromptAt(d) \in Seq(Glyph) /\ PromptAt(d) \in {Prompt, NestedPrompt}
  BY PromptIs DEF PromptAt, Text
<1>2. DOMAIN PromptAt(d) = 1 .. Len(PromptAt(d)) /\ PromptAt(d)[k] \in Glyph
  BY <1>1, LenProperties, ElementOfSeq
<1> QED BY <1>1, <1>2, PlainAssumption

LEMMA BlankCells ==
  ASSUME NEW n \in Nat
  PROVE  /\ Spaces(n) \in Seq(Plain) /\ Spaces(n) \in Seq(Glyph) /\ Len(Spaces(n)) = n
         /\ \A k \in 1 .. n : Spaces(n)[k] = " "
<1> DEFINE b == Spaces(n)
<1>1. " " \in Plain /\ " " \in Glyph
  BY ShellAssumption DEF Plain
<1>2. b = [k \in 1 .. n |-> " "]
  BY DEF Spaces
<1> HIDE DEF b
<1>3. b \in [1 .. n -> Plain] /\ b \in [1 .. n -> Glyph] /\ DOMAIN b = 1 .. n
  BY <1>1, <1>2
<1>4. b \in Seq(Plain) /\ b \in Seq(Glyph)
  BY <1>3, SeqDef
<1>5. Len(b) = n
  BY <1>3, <1>4, LenProperties
<1> QED BY <1>2, <1>4, <1>5 DEF b

\* A screen on which nothing was printed.
LEMMA EmptyOn ==
  ASSUME NEW g \in BOOLEAN
  PROVE  /\ EmptyScreen(g) \in Scr /\ EmptyScreen(g).gui = g /\ EmptyScreen(g).esc = "none"
         /\ OnRow(EmptyScreen(g), EmptyScreen(g).row, <<>>)
         /\ ~g => Len(EmptyScreen(g).row) = Cols /\ \A k \in 1 .. Cols : EmptyScreen(g).row[k] = " "
<1> DEFINE e == EmptyScreen(g)
<1>1. e \in Scr /\ e.gui = g /\ e.esc = "none" /\ e.col = 0 /\ (~g => e.row = Spaces(Cols))
  BY ConsoleIs DEF EmptyScreen, Scr
<1>2. Len(Spaces(Cols)) = Cols /\ \A k \in 1 .. Cols : Spaces(Cols)[k] = " "
  BY ConsoleIs, BlankCells
<1> HIDE DEF e
<1>3. <<>> \in Text /\ Len(<<>>) = 0 /\ Cols \in Nat \ {0} /\ \A k \in 1 .. Cols : ~(k <= 0)
  BY ConsoleIs
<1>4. OnRow(e, e.row, <<>>)
  <2> DEFINE r == <<>>
  <2>1. r \in Text /\ Len(r) = 0 /\ r = <<>>
    BY <1>3
  <2>2. ~e.gui => Len(e.row) = Cols
    BY <1>1, <1>2
  <2>3. e.col = Len(r) /\ Len(r) < Cols
    BY <1>1, <1>3
  <2> HIDE DEF r
  <2>4. \A k \in 1 .. Cols : e.row[k] = IF k <= Len(r) THEN r[k] ELSE e.row[k]
    BY <1>3, <2>1
  <2> QED BY <2>1, <2>2, <2>3, <2>4 DEF OnRow
<1> QED BY <1>1, <1>2, <1>4 DEF e

---------------------------------------------------------------------------
(* The prompt. *)

\* A character in the terminal, behind what stands there.
LEMMA TermOn ==
  ASSUME NEW e \in Scr, e.gui, e.esc = "none", e.col = Len(e.row), Len(e.row) < Cols,
         NEW c \in Plain
  PROVE  Putc(e, c).row = Append(e.row, c) /\ Putc(e, c).col = Len(e.row) + 1
<1>1. c \in Glyph /\ c \notin {"LF", "CR", "TAB", "ESC"}
  BY DEF Plain
<1> DEFINE t == [e EXCEPT !.esc = Parsed(e, c)]
           a == Append(e.row, c)
<1>2. t \in Scr /\ t.gui /\ t.row = e.row /\ t.col = Len(e.row) /\ Len(e.row) \in Nat
  BY <1>1, LenProperties DEF Scr, Parsed, Text
<1>3. Putc(e, c) = Display(t, c)
  BY <1>1 DEF Putc
<1>4. Display(t, c) = TermChar(t, c)
  BY <1>1, <1>2 DEF Display
<1> HIDE DEF t
<1>5. Take(t.row, t.col) = e.row /\ ~(t.col >= Cols)
  BY <1>2, ConsoleIs DEF Take
<1>6. TermChar(t, c) = Moved(t, a, t.col + 1)
  BY <1>2, <1>5 DEF TermChar, Moved
<1>7. a \in Text /\ t.col + 1 \in Nat
  BY <1>1, <1>2, AppendIs DEF Scr
<1> HIDE DEF a
<1>8. Moved(t, a, t.col + 1).row = a /\ Moved(t, a, t.col + 1).col = t.col + 1
  BY <1>2, <1>7, ChangedIs
<1> QED BY <1>2, <1>3, <1>4, <1>6, <1>8 DEF a

\* What a prompt does to the row is what it does to an empty one.
LEMMA PromptOn ==
  ASSUME NEW d, ~Wraps(d), Len(Looks(d)) < Cols,
         NEW s \in Scr, NEW b, OnRow(s, b, <<>>), s.esc = "none"
  PROVE  /\ OnRow(Puts(s, PromptAt(d)), b, Looks(d)) /\ Puts(s, PromptAt(d)).esc = "none"
         /\ Looks(d) \in Text /\ Looks(d) # <<>>
<1> DEFINE P == PromptAt(d)
           N == Len(P)
           e0 == EmptyScreen(TRUE)
<1>1. /\ P \in Text /\ N \in Nat /\ DOMAIN P = 1 .. N /\ Cols \in Nat
      /\ \A k \in 1 .. N : P[k] \in Glyph \ {"LF", "CR", "TAB"}
  BY PromptIs, PromptChars, LenProperties, ConsoleIs DEF Text
<1>2. e0 \in Scr /\ e0.gui /\ e0.esc = "none" /\ e0.row = <<>> /\ e0.col = 0
  BY EmptyOn DEF EmptyScreen
<1>3. PICK f : Steps(e0, P, f)
  BY <1>1, <1>2, StepsExist
<1>4. /\ f \in [0 .. N -> Scr] /\ f[0] = e0
      /\ \A k \in 1 .. N : f[k] = Putc(f[k - 1], P[k])
  BY <1>3 DEF Steps
<1>5. Looks(d) = f[N].row /\ f[N].esc = "none" /\ f[N].row # <<>>
  <2>1. Puts(e0, P) = f[N]
    BY <1>1, <1>3, StepsAre
  <2>2. Puts(e0, P).row # <<>> /\ Puts(e0, P).esc = "none"
    BY PlainAssumption DEF PromptAt
  <2> QED BY <2>1, <2>2 DEF Looks
<1>6. \A k \in 0 .. N : f[k] \in Scr /\ f[k].row \in Text /\ Len(f[k].row) \in Nat
  BY <1>4, LenProperties DEF Scr, Text
<1>7. ASSUME NEW k \in 1 .. N PROVE Len(f[k].row) < Cols
  <2>1. k \in 0 .. N /\ N \in 0 .. N
    BY <1>1
  <2>2. Puts(e0, Take(P, k)) = f[k]
    <3> HIDE DEF e0, P
    <3> QED BY <1>1, <1>2, <1>3, <2>1, StepsTake
  <2>3. ~(Len(f[k].row) > Len(Looks(d)))
    BY <1>1, <2>2 DEF Wraps
  <2> QED BY <1>1, <1>5, <1>6, <2>1, <2>3
<1> DEFINE Like(t, e) ==
             /\ t \in Scr /\ t.esc = e.esc /\ OnRow(t, b, e.row)
             /\ e.gui /\ e.col = Len(e.row)
           T == [k \in 0 .. N |-> {t \in Scr : Like(t, f[k])}]
<1>8. s \in T[0]
  <2>1. Len(<<>>) = 0 /\ 0 \in 0 .. N
    BY <1>1
  <2>2. Like(s, e0)
    BY <1>2, <2>1
  <2> HIDE DEF Like, e0, N
  <2> QED BY <1>4, <2>1, <2>2
<1>9. ASSUME NEW k \in 1 .. N, NEW t \in Scr \cap T[k - 1] PROVE Putc(t, P[k]) \in T[k]
  <2> DEFINE c == P[k]
             e == f[k - 1]
  <2>1. k \in 0 .. N /\ k - 1 \in 0 .. N /\ c \in Glyph \ {"LF", "CR", "TAB"}
    BY <1>1
  <2>2. t \in Scr /\ Like(t, e) /\ f[k] = Putc(e, c) /\ Len(f[k].row) < Cols
    BY <1>4, <1>7, <2>1
  <2>3. e \in Scr /\ e.row \in Text /\ Len(e.row) \in Nat
    BY <1>6, <2>1
  <2> HIDE DEF e, c
  <2>4. /\ Putc(t, c) \in Scr /\ Putc(e, c) \in Scr
        /\ Putc(t, c).gui = t.gui /\ Putc(e, c).gui = e.gui
        /\ Putc(t, c).esc = Putc(e, c).esc
    <3>1. Putc(t, c) \in Scr /\ Putc(t, c).gui = t.gui /\ Putc(t, c).esc = Parsed(t, c)
      BY <2>1, <2>2, PutcIs
    <3>2. Putc(e, c) \in Scr /\ Putc(e, c).gui = e.gui /\ Putc(e, c).esc = Parsed(e, c)
      BY <2>1, <2>3, PutcIs
    <3>3. Parsed(t, c) = Parsed(e, c)
      BY <2>2 DEF Parsed
    <3> QED BY <3>1, <3>2, <3>3
  <2>5. ASSUME e.esc = "none", c # "ESC" PROVE Like(Putc(t, c), Putc(e, c))
    <3>1. c \in Plain /\ t.esc = "none" /\ OnRow(t, b, e.row) /\ e.gui /\ e.col = Len(e.row)
      BY <2>1, <2>2, <2>5 DEF Plain
    <3>2. Len(e.row) < Cols
      BY <3>1 DEF OnRow
    <3>3. Putc(e, c).row = Append(e.row, c) /\ Putc(e, c).col = Len(e.row) + 1
      BY <2>3, <2>5, <3>1, <3>2, TermOn
    <3>4. Len(Append(e.row, c)) = Len(e.row) + 1
      BY <2>1, <2>3, AppendIs
    <3>5. OnRow(Putc(t, c), b, Append(e.row, c))
      BY <2>2, <3>1, <3>3, <3>4, PutOn
    <3> QED BY <2>4, <2>2, <3>1, <3>3, <3>4, <3>5
  <2>6. ASSUME ~(e.esc = "none" /\ c # "ESC") PROVE Like(Putc(t, c), Putc(e, c))
    <3>1. Putc(t, c) = [t EXCEPT !.esc = Parsed(t, c)] /\ Putc(e, c) = [e EXCEPT !.esc = Parsed(e, c)]
      BY <2>2, <2>6 DEF Putc
    <3>2. /\ Putc(t, c).row = t.row /\ Putc(t, c).col = t.col
          /\ Putc(e, c).row = e.row /\ Putc(e, c).col = e.col
      BY <2>2, <2>3, <3>1 DEF Scr
    <3>3. OnRow(Putc(t, c), b, e.row)
      BY <2>2, <2>4, <3>2 DEF OnRow
    <3> QED BY <2>2, <2>4, <3>2, <3>3
  <2> HIDE DEF Like
  <2>7. Like(Putc(t, c), f[k])
    BY <2>2, <2>5, <2>6
  <2> QED BY <2>1, <2>4, <2>7 DEF c
<1> HIDE DEF T
<1>10. Puts(s, P) \in T[N]
  BY <1>1, <1>8, <1>9, PutsKeep
<1>11. Like(Puts(s, P), f[N]) /\ f[N].row \in Text
  BY <1>1, <1>6, <1>10 DEF T
<1> QED BY <1>5, <1>11

---------------------------------------------------------------------------
(* The line is drawn again. *)

\* What LineShown says of a screen.
Shows(s, look, l, p) ==
  /\ s.esc = "none" /\ s.col = Len(look) + p
  /\ IF s.gui THEN s.row = look \o Take(l, p)
     ELSE s.row = look \o l \o Spaces(Cols - Len(look \o l))

LEMMA PlainIs == Plain \subseteq Glyph /\ \A S : S \subseteq Glyph => Seq(S) \subseteq Text
<1>1. \A S : S \subseteq Glyph => Seq(S) \subseteq Text
  BY DEF Text
<1> QED BY <1>1 DEF Plain

\* The pieces that rl_render prints.
LEMMA SevenPieces ==
  ASSUME NEW s \in Scr, NEW c \in Glyph, NEW P \in Text, NEW l \in Text, NEW b \in Text, NEW h \in Text
  PROVE  Puts(s, <<c>> \o P \o l \o b \o <<c>> \o P \o h)
         = Puts(Puts(Putc(Puts(Puts(Puts(Putc(s, c), P), l), b), c), P), h)
<1> DEFINE o == <<c>>
           t2 == o \o P
           t3 == t2 \o l
           t4 == t3 \o b
           t5 == t4 \o o
           t6 == t5 \o P
<1>1. o \in Text /\ \A t \in Scr : Puts(t, o) = Putc(t, c)
  BY PutsOne DEF Text
<1> HIDE DEF o
<1>2. Puts(s, t2) = Puts(Putc(s, c), P) /\ t2 \in Text
  BY <1>1, PutsJoin
<1> HIDE DEF t2
<1>3. Puts(s, t3) = Puts(Puts(s, t2), l) /\ t3 \in Text
  BY <1>2, PutsJoin
<1> HIDE DEF t3
<1>4. Puts(s, t4) = Puts(Puts(s, t3), b) /\ t4 \in Text
  BY <1>3, PutsJoin
<1> HIDE DEF t4
<1>5. Puts(s, t5) = Putc(Puts(s, t4), c) /\ t5 \in Text
  <2>1. Puts(s, t4) \in Scr
    BY <1>4, PutsIs
  <2> QED BY <1>1, <1>4, <2>1, PutsJoin
<1> HIDE DEF t5
<1>6. Puts(s, t6) = Puts(Puts(s, t5), P) /\ t6 \in Text
  BY <1>5, PutsJoin
<1> HIDE DEF t6
<1>7. Puts(s, t6 \o h) = Puts(Puts(s, t6), h)
  BY <1>6, PutsJoin
<1> QED BY <1>2, <1>3, <1>4, <1>5, <1>6, <1>7 DEF o, t2, t3, t4, t5, t6

\* The cells of the line behind the prompt, with blanks behind it, and of its beginning.
LEMMA LineCells ==
  ASSUME NEW t \in Text, NEW l \in Text, NEW i \in Nat
  PROVE  LET w == t \o l \o Spaces(i)
         IN  /\ w \in Text /\ Len(w) = (Len(t) + Len(l)) + i
             /\ t \o l \in Text /\ Len(t \o l) = Len(t) + Len(l)
             /\ Len(t) \in Nat /\ Len(l) \in Nat
             /\ \A k \in 1 .. Len(w) : w[k] = IF k <= Len(t) THEN t[k]
                                              ELSE IF k <= Len(t) + Len(l) THEN l[k - Len(t)]
                                              ELSE " "
<1> DEFINE u == t \o l
           b == Spaces(i)
           w == u \o b
<1>1. t \in Seq(Glyph) /\ l \in Seq(Glyph) /\ Len(t) \in Nat /\ Len(l) \in Nat
  BY LenProperties DEF Text
<1>2. /\ u \in Seq(Glyph) /\ Len(u) = Len(t) + Len(l)
      /\ \A k \in 1 .. Len(t) + Len(l) : u[k] = IF k <= Len(t) THEN t[k] ELSE l[k - Len(t)]
  BY <1>1, ConcatProperties
<1>3. b \in Seq(Glyph) /\ Len(b) = i /\ \A k \in 1 .. i : b[k] = " "
  BY BlankCells
<1> HIDE DEF u, b
<1>4. /\ w \in Seq(Glyph) /\ Len(w) = Len(u) + Len(b)
      /\ \A k \in 1 .. Len(u) + Len(b) : w[k] = IF k <= Len(u) THEN u[k] ELSE b[k - Len(u)]
  BY <1>2, <1>3, ConcatProperties
<1> HIDE DEF w
<1>6. Len(u) = Len(t) + Len(l) /\ Len(w) = Len(u) + i /\ Len(u) \in Nat
  <2>1. Len(u) = Len(t) + Len(l) /\ Len(w) = Len(u) + i
    BY <1>2, <1>3, <1>4, Zenon
  <2> QED BY <1>1, <2>1
<1>7. \A k \in 1 .. Len(w) : w[k] = IF k <= Len(u) THEN u[k] ELSE b[k - Len(u)]
  BY <1>3, <1>4
<1>5. ASSUME NEW k \in 1 .. Len(w)
      PROVE  w[k] = IF k <= Len(t) THEN t[k] ELSE IF k <= Len(t) + Len(l) THEN l[k - Len(t)] ELSE " "
  <2>1. CASE k <= Len(u)
    <3>1. k \in 1 .. Len(t) + Len(l) /\ k <= Len(t) + Len(l)
      BY <1>1, <1>6, <2>1
    <3>2. w[k] = u[k]
      BY <1>7, <2>1
    <3> QED BY <1>2, <3>1, <3>2
  <2>2. CASE ~(k <= Len(u))
    <3>1. k - Len(u) \in 1 .. i /\ ~(k <= Len(t) + Len(l)) /\ ~(k <= Len(t))
      BY <1>1, <1>6, <2>2
    <3> QED BY <1>3, <1>7, <2>2, <3>1
  <2> QED BY <2>1, <2>2
<1> QED BY <1>1, <1>2, <1>3, <1>4, <1>5 DEF w, u, b, Text

LEMMA HeadCells ==
  ASSUME NEW t \in Text, NEW l \in Text, NEW p \in 0 .. Len(l)
  PROVE  LET w == t \o Take(l, p)
         IN  /\ Take(l, p) \in Text /\ w \in Text /\ Len(Take(l, p)) = p /\ Len(w) = Len(t) + p
             /\ \A k \in 1 .. Len(w) : w[k] = IF k <= Len(t) THEN t[k] ELSE l[k - Len(t)]
<1> DEFINE h == Take(l, p)
           w == t \o h
<1>1. t \in Seq(Glyph) /\ l \in Seq(Glyph) /\ Len(t) \in Nat /\ Len(l) \in Nat
  BY LenProperties DEF Text
<1>2. h \in Seq(Glyph) /\ Len(h) = p /\ \A k \in 1 .. p : h[k] = l[k]
  <2>1. /\ h \in Seq(Glyph) /\ Len(h) = IF Len(l) <= p THEN Len(l) ELSE IF p < 0 THEN 0 ELSE p
        /\ \A k \in 1 .. Len(h) : h[k] = l[k]
    BY <1>1, TakeIs
  <2> HIDE DEF h
  <2> QED BY <1>1, <2>1
<1> HIDE DEF h
<1>3. /\ w \in Seq(Glyph) /\ Len(w) = Len(t) + Len(h)
      /\ \A k \in 1 .. Len(t) + Len(h) : w[k] = IF k <= Len(t) THEN t[k] ELSE h[k - Len(t)]
  BY <1>1, <1>2, ConcatProperties
<1> HIDE DEF w
<1>4. ASSUME NEW k \in 1 .. Len(w) PROVE w[k] = IF k <= Len(t) THEN t[k] ELSE l[k - Len(t)]
  <2>1. k <= Len(t) \/ k - Len(t) \in 1 .. p
    BY <1>1, <1>2, <1>3
  <2> QED BY <1>2, <1>3, <2>1
<1> QED BY <1>2, <1>3, <1>4 DEF w, h, Text

\* The row in text mode after two writings of it from the left, the second no longer
\* than the first.
Over(r, w, b) == \A k \in 1 .. Cols : r[k] = IF k <= Len(w) THEN w[k] ELSE b[k]
BlankFrom(r, n) == \A k \in 1 .. Cols : k > n => r[k] = " "

LEMMA TwiceIs ==
  ASSUME NEW t \in Text, NEW l \in Text, NEW p \in 0 .. Len(l), NEW m \in Nat,
         Len(t) + (Len(l) + m) < Cols,
         NEW r \in Text, NEW r1, NEW r0, Len(r) = Cols,
         BlankFrom(r0, Len(t) + (Len(l) + m)),
         NEW w1, w1 = t \o l \o Spaces(m), Over(r1, w1, r0),
         NEW w2, w2 = t \o Take(l, p), Over(r, w2, r1)
  PROVE  r = t \o l \o Spaces(Cols - Len(t \o l))
<1> DEFINE a == Len(t)
           n == Len(l)
           i == Cols - Len(t \o l)
           q == t \o l \o Spaces(i)
<1>0. LET w == t \o l \o Spaces(m)
      IN  /\ w \in Text /\ Len(w) = (Len(t) + Len(l)) + m
          /\ t \o l \in Text /\ Len(t \o l) = Len(t) + Len(l)
          /\ Len(t) \in Nat /\ Len(l) \in Nat
          /\ \A k \in 1 .. Len(w) : w[k] = IF k <= Len(t) THEN t[k]
                                           ELSE IF k <= Len(t) + Len(l) THEN l[k - Len(t)]
                                           ELSE " "
  BY LineCells
<1>1. a \in Nat /\ n \in Nat /\ Cols \in Nat /\ Len(t \o l) = a + n /\ Len(w1) = (a + n) + m
  BY <1>0, ConsoleIs
<1>9. \A k \in 1 .. Len(w1) : w1[k] = IF k <= a THEN t[k] ELSE IF k <= a + n THEN l[k - a] ELSE " "
  BY <1>0
<1>2. Len(w2) = a + p
  BY HeadCells
<1>10. \A k \in 1 .. Len(w2) : w2[k] = IF k <= a THEN t[k] ELSE l[k - a]
  BY HeadCells
<1>3. p \in 0 .. n /\ a + (n + m) < Cols
  OBVIOUS
<1>11. \A k \in 1 .. Cols : k > a + (n + m) => r0[k] = " "
  BY DEF BlankFrom
<1>4. i \in Nat /\ (a + n) + i = Cols
  <2> HIDE DEF a, n
  <2> QED BY <1>1, <1>3
<1> HIDE DEF i
<1>5. /\ q \in Text /\ Len(q) = (a + n) + i
      /\ \A k \in 1 .. Len(q) : q[k] = IF k <= a THEN t[k] ELSE IF k <= a + n THEN l[k - a] ELSE " "
  BY <1>4, LineCells
<1> HIDE DEF a, n, q
<1>6. ASSUME NEW k \in 1 .. Cols
      PROVE  r1[k] = IF k <= a THEN t[k] ELSE IF k <= a + n THEN l[k - a] ELSE " "
  <2>1. r1[k] = IF k <= Len(w1) THEN w1[k] ELSE r0[k]
    BY DEF Over
  <2>2. CASE k <= Len(w1)
    <3>1. k \in 1 .. Len(w1)
      BY <1>1, <2>2
    <3> QED BY <1>9, <2>1, <2>2, <3>1
  <2>3. CASE ~(k <= Len(w1))
    <3>1. k > a + (n + m) /\ ~(k <= a + n) /\ ~(k <= a)
      BY <1>1, <2>3
    <3> QED BY <1>11, <2>1, <2>3, <3>1
  <2> QED BY <2>2, <2>3
<1>7. ASSUME NEW k \in 1 .. Cols PROVE r[k] = q[k]
  <2>1. r[k] = IF k <= Len(w2) THEN w2[k] ELSE r1[k]
    BY DEF Over
  <2>2. q[k] = IF k <= a THEN t[k] ELSE IF k <= a + n THEN l[k - a] ELSE " "
    BY <1>4, <1>5
  <2>3. CASE k <= Len(w2)
    <3>1. k \in 1 .. Len(w2) /\ k <= a + n
      BY <1>1, <1>2, <1>3, <2>3
    <3> QED BY <1>10, <2>1, <2>2, <2>3, <3>1
  <2>4. CASE ~(k <= Len(w2))
    BY <1>6, <2>1, <2>2, <2>4
  <2> QED BY <2>3, <2>4
<1>8. r = q
  <2>1. r \in Seq(Glyph) /\ q \in Seq(Glyph) /\ Len(q) = Len(r)
    BY <1>4, <1>5 DEF Text
  <2> QED BY <1>7, <2>1, SeqEqual
<1> QED BY <1>8 DEF q, i

\* rl_render leaves the prompt and the line on the row, whatever of it was written
\* before: in text mode what was right of that must be blank.
Below(s, n) == ~s.gui => Len(s.row) = Cols /\ BlankFrom(s.row, n)

LEMMA RedrawnOn ==
  ASSUME NEW s \in Scr, s.esc = "none", ~Wraps(Len(calls)),
         NEW l \in Seq(Plain), NEW p \in 0 .. Len(l), NEW was \in Nat,
         Len(Looks(Len(calls))) + Larger(was, Len(l)) < Cols,
         Below(s, Len(Looks(Len(calls))) + Larger(was, Len(l)))
  PROVE  Shows(Puts(s, Redrawn(l, p, was)), Looks(Len(calls)), l, p)
<1> DEFINE d == Len(calls)
           P == PromptAt(d)
           look == Looks(d)
           m == Larger(was - Len(l), 0)
           b == Spaces(m)
           h == Take(l, p)
<1>1. Len(l) \in Nat /\ Cols \in Nat \ {0} /\ p \in Nat /\ p <= Len(l)
  BY LenProperties, ConsoleIs
<1>2. m \in Nat /\ Len(l) + m = Larger(was, Len(l)) /\ Larger(was, Len(l)) \in Nat
  BY <1>1 DEF Larger
<1>3. P \in Text /\ l \in Text /\ "CR" \in Glyph
  BY PromptIs, PlainIs, ShellAssumption
<1>4. b \in Seq(Plain) /\ b \in Text /\ Len(b) = m
  BY <1>2, BlankCells DEF Text
<1>5. h \in Seq(Plain) /\ h \in Text /\ Len(h) = p
  <2>1. Take(l, p) \in Seq(Plain) /\ Len(Take(l, p)) = IF Len(l) <= p THEN Len(l) ELSE IF p < 0 THEN 0 ELSE p
    BY <1>1, TakeIs
  <2>2. Len(h) = p
    BY <1>1, <2>1
  <2> QED BY <2>1, <2>2, PlainIs
<1> DEFINE s1 == Putc(s, "CR")
           s2 == Puts(s1, P)
           s3 == Puts(s2, l)
           s4 == Puts(s3, b)
           s5 == Putc(s4, "CR")
           s6 == Puts(s5, P)
           s7 == Puts(s6, h)
<1>6. Puts(s, Redrawn(l, p, was)) = s7
  BY <1>3, <1>4, <1>5, SevenPieces DEF Redrawn
<1>7. Len(look) < Cols
  <2>1. look \in Seq(Glyph)
    BY <1>1, <1>2, EmptyOn, PromptIs, PutsIs DEF Looks, Scr, Text
  <2>2. Len(look) \in Nat
    BY <2>1, LenProperties
  <2> QED BY <1>1, <1>2, <2>2
<1> HIDE DEF d, P, look, m, b, h
<1>8. s1 \in Scr /\ OnRow(s1, s.row, <<>>) /\ s1.esc = "none" /\ s1.gui = s.gui
  BY <1>3, ReturnOn, PutcIs DEF Below
<1> HIDE DEF s1
<1>9. ~Wraps(d) /\ P = PromptAt(d) /\ look = Looks(d) /\ h = Take(l, p) /\ b = Spaces(m)
  BY DEF d, P, look, h, b
<1>10. /\ s2 \in Scr /\ OnRow(s2, s.row, look) /\ s2.esc = "none" /\ s2.gui = s.gui
       /\ look \in Text /\ look # <<>>
  BY <1>3, <1>7, <1>8, <1>9, PromptOn, PutsIs, SameKind
<1>11. Len(look) \in Nat
  BY <1>10, LenProperties DEF Text
<1>12. Len(look) + (Len(l) + m) < Cols /\ Below(s, Len(look) + (Len(l) + m))
  BY <1>2 DEF look, d
<1> HIDE DEF s2
<1> DEFINE w2 == look \o l
           w3 == w2 \o b
<1>13. s3 \in Scr /\ OnRow(s3, s.row, w2) /\ s3.esc = "none" /\ s3.gui = s.gui
  <2>1. Len(look) + Len(l) < Cols
    BY <1>1, <1>2, <1>11, <1>12
  <2> HIDE DEF w2
  <2>2. OnRow(s3, s.row, w2) /\ s3.esc = "none"
    BY <1>10, <2>1, TextOn DEF w2
  <2> QED BY <1>3, <1>10, <2>2, PutsIs, SameKind
<1> HIDE DEF s3
<1>14. Len(w2) = Len(look) + Len(l)
  BY <1>3, <1>10, LineCells
<1> HIDE DEF w2
<1>15. s4 \in Scr /\ OnRow(s4, s.row, w3) /\ s4.esc = "none" /\ s4.gui = s.gui
  <2>1. Len(w2) + Len(b) < Cols
    BY <1>1, <1>2, <1>4, <1>11, <1>12, <1>14
  <2>2. OnRow(s4, s.row, w3) /\ s4.esc = "none"
    BY <1>4, <1>13, <2>1, TextOn
  <2> QED BY <1>4, <1>13, <2>2, PutsIs, SameKind
<1> HIDE DEF s4
<1>16. ~s.gui => Len(s4.row) = Cols /\ Over(s4.row, w3, s.row)
  BY <1>15 DEF OnRow, Over
<1>17. s5 \in Scr /\ OnRow(s5, s4.row, <<>>) /\ s5.esc = "none" /\ s5.gui = s.gui
  BY <1>3, <1>15, <1>16, ReturnOn, PutcIs
<1> HIDE DEF s5
<1>18. s6 \in Scr /\ OnRow(s6, s4.row, look) /\ s6.esc = "none" /\ s6.gui = s.gui
  BY <1>3, <1>7, <1>17, <1>9, PromptOn, PutsIs, SameKind
<1> HIDE DEF s6
<1> DEFINE w == look \o h
<1>19. s7 \in Scr /\ OnRow(s7, s4.row, w) /\ s7.esc = "none" /\ s7.gui = s.gui
  <2>1. Len(look) + Len(h) < Cols
    BY <1>1, <1>2, <1>5, <1>11, <1>12
  <2> HIDE DEF w
  <2>2. OnRow(s7, s4.row, w) /\ s7.esc = "none"
    BY <1>5, <1>18, <2>1, TextOn DEF w
  <2> QED BY <1>5, <1>18, <2>2, PutsIs, SameKind
<1> HIDE DEF s7
<1>20. Len(w) = Len(look) + p /\ w # <<>>
  <2>1. Len(w) = Len(look) + p /\ w \in Text
    BY <1>3, <1>9, <1>10, HeadCells
  <2>2. Len(look) # 0
    BY <1>10, EmptySeq DEF Text
  <2>3. Len(w) # 0
    BY <1>1, <1>11, <2>1, <2>2
  <2> QED BY <2>1, <2>3, EmptySeq DEF Text
<1> HIDE DEF w
<1>21. s7.col = Len(look) + p
  BY <1>19, <1>20 DEF OnRow
<1>22. ASSUME s.gui PROVE Shows(s7, look, l, p)
  <2>1. s7.row = w
    BY <1>19, <1>20, <1>22 DEF OnRow
  <2>2. w = look \o Take(l, p)
    BY <1>9 DEF w
  <2> QED BY <1>19, <1>21, <1>22, <2>1, <2>2 DEF Shows
<1>23. ASSUME ~s.gui PROVE Shows(s7, look, l, p)
  <2>1. BlankFrom(s.row, Len(look) + (Len(l) + m)) /\ Over(s4.row, w3, s.row)
    BY <1>12, <1>16, <1>23 DEF Below
  <2>2. s7.row \in Text /\ Len(s7.row) = Cols /\ Over(s7.row, w, s4.row)
    BY <1>19, <1>23 DEF OnRow, Over, Scr
  <2>3. w3 = look \o l \o Spaces(m) /\ w = look \o Take(l, p)
    BY <1>9 DEF w3, w2, w
  <2> HIDE DEF w3
  <2>4. s7.row = look \o l \o Spaces(Cols - Len(look \o l))
    BY <1>2, <1>3, <1>10, <1>12, <2>1, <2>2, <2>3, TwiceIs
  <2> QED BY <1>19, <1>21, <1>23, <2>4 DEF Shows
<1> QED BY <1>6, <1>22, <1>23 DEF look, d

\* A row that was written from the left shows what was written, and the other way round.
LEMMA NoBlanks == Spaces(0) = <<>>
<1>1. Spaces(0) \in Seq(Glyph) /\ Len(Spaces(0)) = 0
  BY BlankCells
<1> QED BY <1>1, EmptySeq

LEMMA WrittenShows ==
  ASSUME NEW s \in Scr, s.esc = "none", NEW look \in Text, look # <<>>, NEW l \in Text, NEW b,
         OnRow(s, b, look \o l), ~s.gui => BlankFrom(b, Len(look) + Len(l))
  PROVE  Shows(s, look, l, Len(l))
<1> DEFINE w == look \o l
           n == Len(l)
<1>1. look \in Seq(Glyph) /\ l \in Seq(Glyph) /\ n \in Nat /\ Len(look) \in Nat /\ w \in Seq(Glyph)
  BY LenProperties, LineCells DEF Text
<1>2. Len(w) = Len(look) + n
  BY LineCells
<1>3. Take(l, n) = l
  BY <1>1 DEF Take
<1>4. w \o Spaces(0) = w
  BY <1>1, NoBlanks
<1>5. Len(look) # 0 /\ w # <<>>
  <2>1. Len(look) # 0
    BY <1>1, EmptySeq
  <2>2. Len(w) # 0
    BY <1>1, <1>2, <2>1
  <2> QED BY <1>1, <2>1, <2>2, EmptySeq
<1>6. s.col = Len(look) + n /\ Len(look) + n < Cols
  BY <1>2 DEF OnRow
<1>7. ASSUME s.gui PROVE s.row = look \o Take(l, n)
  <2>1. s.row = w
    BY <1>5, <1>7 DEF OnRow
  <2> QED BY <1>3, <2>1
<1>8. ASSUME ~s.gui PROVE s.row = look \o l \o Spaces(Cols - Len(look \o l))
  <2>1. s.row \in Text /\ Len(s.row) = Cols /\ Over(s.row, w, b) /\ BlankFrom(b, Len(look) + n)
    BY <1>8 DEF OnRow, Over, Scr
  <2>2. Over(s.row, w, s.row)
    BY <2>1 DEF Over
  <2> DEFINE w1 == look \o l \o Spaces(0)
             w2 == look \o Take(l, n)
  <2>3. w1 = w /\ w2 = w
    BY <1>3, <1>4
  <2>4. n \in 0 .. Len(l) /\ 0 \in Nat /\ Len(l) + 0 = n /\ Len(l) = n
    BY <1>1
  <2>5. w1 = look \o l \o Spaces(0) /\ w2 = look \o Take(l, n)
    OBVIOUS
  <2> HIDE DEF w, w1, w2, n
  <2>6. Len(look) + (Len(l) + 0) < Cols /\ BlankFrom(b, Len(look) + (Len(l) + 0))
    BY <1>6, <2>1, <2>4
  <2>7. Over(s.row, w1, b) /\ Over(s.row, w2, s.row)
    BY <2>1, <2>2, <2>3
  <2> QED BY <2>1, <2>4, <2>5, <2>6, <2>7, TwiceIs
<1> QED BY <1>6, <1>7, <1>8 DEF Shows

LEMMA ShownWritten ==
  ASSUME NEW s \in Scr, NEW look \in Text, look # <<>>, NEW l \in Text, NEW p \in 0 .. Len(l),
         Shows(s, look, l, p), Len(look) + Len(l) < Cols
  PROVE  OnRow(s, s.row, look \o Take(l, p)) /\ Below(s, Len(look) + Len(l))
<1> DEFINE w == look \o Take(l, p)
           i == Cols - (Len(look) + Len(l))
           q == look \o l \o Spaces(i)
<1>1. /\ w \in Text /\ Len(w) = Len(look) + p
      /\ \A k \in 1 .. Len(w) : w[k] = IF k <= Len(look) THEN look[k] ELSE l[k - Len(look)]
  BY HeadCells
<1>2. Len(look) \in Nat /\ Len(l) \in Nat /\ Cols \in Nat /\ Len(look \o l) = Len(look) + Len(l)
  <2>1. 0 \in Nat
    OBVIOUS
  <2> QED BY <2>1, LineCells, ConsoleIs
<1>3. i \in Nat /\ (Len(look) + Len(l)) + i = Cols
  BY <1>2
<1> HIDE DEF i
<1>4. /\ Len(q) = (Len(look) + Len(l)) + i
      /\ \A k \in 1 .. Len(q) : q[k] = IF k <= Len(look) THEN look[k]
                                       ELSE IF k <= Len(look) + Len(l) THEN l[k - Len(look)] ELSE " "
  BY <1>3, LineCells
<1> HIDE DEF w, q
<1>5. Len(w) = Len(look) + p /\ Len(q) = Cols
  BY <1>1, <1>3, <1>4
<1>6. s.col = Len(w) /\ Len(w) < Cols
  BY <1>2, <1>5 DEF Shows
<1>7. ASSUME s.gui PROVE s.row = w
  BY <1>7 DEF Shows, w
<1>8. ASSUME ~s.gui
      PROVE  Len(s.row) = Cols /\ Over(s.row, w, s.row) /\ BlankFrom(s.row, Len(look) + Len(l))
  <2>1. s.row = q
    BY <1>2, <1>8 DEF Shows, q, i
  <2>2. ASSUME NEW k \in 1 .. Cols PROVE q[k] = IF k <= Len(w) THEN w[k] ELSE q[k]
    <3>1. CASE k <= Len(w)
      <4>1. k \in 1 .. Len(w) /\ k \in 1 .. Len(q) /\ k <= Len(look) + Len(l)
        BY <1>2, <1>5, <3>1
      <4> QED BY <1>1, <1>4, <4>1
    <3> QED BY <3>1
  <2>3. ASSUME NEW k \in 1 .. Cols, k > Len(look) + Len(l) PROVE q[k] = " "
    <3>1. k \in 1 .. Len(q) /\ ~(k <= Len(look)) /\ ~(k <= Len(look) + Len(l))
      BY <1>2, <1>5, <2>3
    <3> QED BY <1>4, <3>1
  <2> QED BY <1>5, <2>1, <2>2, <2>3 DEF Over, BlankFrom
<1>9. OnRow(s, s.row, w)
  BY <1>1, <1>6, <1>7, <1>8 DEF OnRow, Over
<1> QED BY <1>8, <1>9 DEF Below, w

---------------------------------------------------------------------------
(* The line and the screen, from key to key. *)

LEMMA LooksIs ==
  ASSUME NEW d PROVE Looks(d) \in Text /\ Len(Looks(d)) \in Nat /\ Looks(d) # <<>>
<1> DEFINE e == EmptyScreen(TRUE)
<1>1. e \in Scr /\ PromptAt(d) \in Text
  BY EmptyOn, PromptIs
<1> HIDE DEF e
<1>2. Puts(e, PromptAt(d)) \in Scr
  BY <1>1, PutsIs
<1>3. Looks(d) \in Text
  BY <1>2 DEF Looks, Scr, e
<1> QED BY <1>3, LenProperties, PlainAssumption DEF Looks, PromptAt, Text

\* Plain text does not begin a sequence.
LEMMA PlainEnds ==
  ASSUME NEW s \in Scr, s.esc = "none", NEW l \in Seq(Plain)
  PROVE  Puts(s, l).esc = "none"
<1> DEFINE T == [k \in 0 .. Len(l) |-> {t \in Scr : t.esc = "none"}]
<1>1. Len(l) \in Nat /\ l \in Text /\ \A k \in 1 .. Len(l) : l[k] \in Plain
  BY PlainIs, LenProperties, ElementOfSeq
<1>2. s \in T[0]
  BY <1>1
<1>3. ASSUME NEW k \in 1 .. Len(l), NEW t \in Scr \cap T[k - 1] PROVE Putc(t, l[k]) \in T[k]
  <2>1. k \in 0 .. Len(l) /\ k - 1 \in 0 .. Len(l) /\ l[k] \in Plain
    BY <1>1
  <2>2. t.esc = "none"
    BY <2>1
  <2>3. Putc(t, l[k]) \in Scr /\ Putc(t, l[k]).esc = Parsed(t, l[k])
    BY <2>1, PlainIs, PutcIs
  <2>4. Parsed(t, l[k]) = "none"
    BY <2>1, <2>2 DEF Parsed, Plain
  <2> QED BY <2>1, <2>3, <2>4
<1>4. Puts(s, l) \in T[Len(l)]
  <2> HIDE DEF T
  <2> QED BY <1>1, <1>2, <1>3, PutsKeep
<1> QED BY <1>1, <1>4

\* A line feed clears the row.
LEMMA NewRow ==
  ASSUME NEW s \in Scr, s.esc = "none"
  PROVE  Newline(s) = EmptyScreen(s.gui) /\ Putc(s, "LF") = EmptyScreen(s.gui)
<1> DEFINE e == EmptyScreen(s.gui)
<1>1. e.gui = s.gui /\ e.col = 0 /\ e.esc = "none" /\ e \in Scr
  BY EmptyOn DEF EmptyScreen, Scr
<1>2. /\ Newline(s) \in Scr /\ Newline(s).gui = s.gui /\ Newline(s).esc = s.esc
      /\ Newline(s).col = 0 /\ Newline(s).row = e.row
  BY NewlineIs
<1> HIDE DEF e
<1>3. Newline(s) = e
  <2> DEFINE n == Newline(s)
  <2>1. n = [gui |-> n.gui, row |-> n.row, col |-> n.col, esc |-> n.esc]
    BY <1>2, FieldsAre
  <2>2. e = [gui |-> e.gui, row |-> e.row, col |-> e.col, esc |-> e.esc]
    BY <1>1, FieldsAre
  <2> HIDE DEF n
  <2> QED BY <1>1, <1>2, <2>1, <2>2 DEF n
<1>4. Putc(s, "LF") = Newline(s)
  <2> DEFINE t == [s EXCEPT !.esc = Parsed(s, "LF")]
  <2>1. t = s
    BY DEF Scr, Parsed
  <2>2. Putc(s, "LF") = Display(t, "LF")
    BY DEF Putc
  <2>3. Display(t, "LF") = Newline(t)
    BY DEF Display
  <2> QED BY <2>1, <2>2, <2>3
<1> QED BY <1>3, <1>4 DEF e

\* The list of the names ends on an empty row, in whatever state it found the screen.
LEMMA ListedEmpties ==
  ASSUME NEW s \in Scr, Listed \in Seq(Plain)
  PROVE  Puts(s, <<"LF">> \o Listed \o <<"LF">>) = EmptyScreen(s.gui)
<1> DEFINE o == <<"LF">>
           u == o \o Listed
<1>1. o \in Text /\ "LF" \in Glyph /\ Listed \in Text /\ \A t \in Scr : Puts(t, o) = Putc(t, "LF")
  BY StringsAre, PutsOne, PlainIs
<1> HIDE DEF o
<1>2. Putc(s, "LF") \in Scr /\ Putc(s, "LF").gui = s.gui /\ Putc(s, "LF").esc = "none"
  <2>1. Putc(s, "LF").esc = Parsed(s, "LF") /\ Putc(s, "LF") \in Scr /\ Putc(s, "LF").gui = s.gui
    BY <1>1, PutcIs
  <2> QED BY <2>1 DEF Parsed, Scr
<1>3. Puts(s, u) = Puts(Putc(s, "LF"), Listed) /\ u \in Text
  BY <1>1, PutsJoin
<1>4. Puts(s, u) \in Scr /\ Puts(s, u).gui = s.gui /\ Puts(s, u).esc = "none"
  BY <1>1, <1>2, <1>3, PutsIs, SameKind, PlainEnds
<1> HIDE DEF u
<1>5. Puts(s, u \o o) = Puts(Puts(s, u), o)
  BY <1>1, <1>3, PutsJoin
<1>6. Puts(s, u \o o) = Putc(Puts(s, u), "LF")
  BY <1>1, <1>4, <1>5
<1>7. Puts(s, u \o o) = EmptyScreen(s.gui)
  BY <1>4, <1>6, NewRow
<1> QED BY <1>7 DEF o, u

\* What a prompt shows on an empty screen.
LEMMA PromptShown ==
  ASSUME NEW g \in BOOLEAN, NEW d, ~Wraps(d), Len(Looks(d)) < Cols
  PROVE  Shows(Puts(EmptyScreen(g), PromptAt(d)), Looks(d), <<>>, 0)
<1> DEFINE e == EmptyScreen(g)
           s == Puts(e, PromptAt(d))
           look == Looks(d)
<1>1. /\ e \in Scr /\ e.esc = "none" /\ OnRow(e, e.row, <<>>) /\ e.gui = g
      /\ ~g => Len(e.row) = Cols /\ \A k \in 1 .. Cols : e.row[k] = " "
  BY EmptyOn
<1> HIDE DEF e
<1>2. OnRow(s, e.row, look) /\ s.esc = "none"
  BY <1>1, PromptOn
<1>3. s \in Scr /\ s.gui = g
  BY <1>1, PromptIs, PutsIs, SameKind
<1>4. look \in Text /\ look # <<>> /\ <<>> \in Text /\ Len(<<>>) = 0
  BY LooksIs, StringsAre
<1> HIDE DEF s, look
<1>5. look \o <<>> = look
  BY <1>4 DEF Text
<1> DEFINE l == <<>>
<1>6. l \in Text /\ Len(l) = 0 /\ look \o l = look
  BY <1>4, <1>5
<1> HIDE DEF l
<1>7. ~s.gui => BlankFrom(e.row, Len(look) + Len(l))
  BY <1>1, <1>3 DEF BlankFrom
<1>8. Shows(s, look, l, Len(l))
  BY <1>2, <1>3, <1>4, <1>6, <1>7, WrittenShows
<1> QED BY <1>6, <1>8 DEF e, s, look, l

---------------------------------------------------------------------------
(* The invariant of the line on the screen. *)

Fits == ~Wraps(Len(calls)) /\ Len(Looks(Len(calls))) + Larger(shown, Len(line)) < Cols

\* What is typed, recalled or completed is plain, ...
LinePlain ==
  /\ line \in Seq(Plain) /\ draft \in Seq(Plain)
  /\ \A k \in 1 .. Len(hist) : hist[k] \in Seq(Plain)

\* ... and what was drawn is at least the line.
Drawn ==
  /\ con \in Scr
  /\ mode = "reading" => Len(line) <= shown
  /\ mode = "reading" /\ cap = 0 /\ fresh /\ Fits => Shows(con, Looks(Len(calls)), line, pos)

LInv == IInv /\ LinePlain /\ Drawn

LEMMA DrawnShows == Drawn => LineShown
BY DEF Drawn, LineShown, Shows, Fits

\* What console_puts changes.
LEMMA OutputIs ==
  ASSUME NEW cs \in Seq(Call), NEW str \in Text, NEW s \in Scr, NEW to, NEW n, Output(str, s, cs, to, n)
  PROVE  /\ con' \in Scr /\ cap' = to /\ Len(calls') = Len(cs)
         /\ to = 0 => con' = Puts(s, str)
<1>1. con' \in Scr /\ cap' = to /\ (to = 0 => con' = Puts(s, str))
  BY PutsIs DEF Output
<1>2. Len(calls') = Len(cs)
  <2>1. Len(cs) \in Nat /\ DOMAIN cs = 1 .. Len(cs)
    BY LenProperties
  <2> DEFINE e(k) == LET c == [cs[k] EXCEPT !.said = Take(cs[k].said \o str, CapSize)]
                     IN  IF k = to THEN Captured(c, str, n) ELSE c
  <2>2. calls' = [k \in 1 .. Len(cs) |-> e(k)]
    BY <2>1 DEF Output
  <2> HIDE DEF e
  <2> DEFINE V == {e(k) : k \in 1 .. Len(cs)}
  <2>3. calls' \in [1 .. Len(cs) -> V] /\ DOMAIN calls' = 1 .. Len(cs)
    BY <2>2
  <2> HIDE DEF V
  <2>4. calls' \in Seq(V)
    BY <2>1, <2>3, SeqDef
  <2> QED BY <2>1, <2>3, <2>4, LenProperties
<1> QED BY <1>1, <1>2

\* A line that fits was fitting before it grew, so that the old one is on the screen.
LEMMA Fitted ==
  ASSUME LInv, mode = "reading", cap = 0, fresh, NEW l \in Text, line' = l,
         shown' = Larger(shown, Len(l)), Len(calls') = Len(calls), Fits'
  PROVE  LET look == Looks(Len(calls))
         IN  /\ ~Wraps(Len(calls)) /\ Len(look) + shown' < Cols
             /\ Shows(con, look, line, pos) /\ con.esc = "none"
             /\ Len(look) + Len(line) < Cols /\ Below(con, Len(look) + Len(line))
             /\ Below(con, Len(look) + shown')
             /\ OnRow(con, con.row, look \o Take(line, pos))
<1> DEFINE d == Len(calls)
           look == Looks(d)
<1>1. /\ line \in Text /\ pos \in 0 .. Len(line) /\ shown \in Nat
      /\ Len(line) \in Nat /\ Len(line) <= shown /\ con \in Scr /\ Len(l) \in Nat
  BY JoinIs DEF LInv, IInv, TypeOK, LineOK, Drawn
<1>2. look \in Text /\ Len(look) \in Nat /\ look # <<>> /\ Cols \in Nat
  BY LooksIs, ConsoleIs
<1> HIDE DEF d, look
<1>3. Larger(shown', Len(line')) = shown' /\ shown <= shown' /\ shown' \in Nat
  BY <1>1 DEF Larger
<1>4. look = Looks(Len(calls)) /\ d = Len(calls)
  BY DEF look, d
<1>5. ~Wraps(d) /\ Len(look) + shown' < Cols
  BY <1>3, <1>4 DEF Fits
<1>6. Larger(shown, Len(line)) = shown /\ Len(look) + shown < Cols /\ Len(look) + Len(line) < Cols
  BY <1>1, <1>2, <1>3, <1>5 DEF Larger
<1>7. Fits
  BY <1>4, <1>5, <1>6 DEF Fits
<1>8. Shows(con, look, line, pos)
  BY <1>4, <1>7 DEF LInv, Drawn
<1>9. Below(con, Len(look) + Len(line)) /\ OnRow(con, con.row, look \o Take(line, pos))
  BY <1>1, <1>2, <1>6, <1>8, ShownWritten
<1>10. Below(con, Len(look) + shown')
  <2>1. ASSUME NEW k \in 1 .. Cols, k > Len(look) + shown' PROVE k > Len(look) + Len(line)
    BY <1>1, <1>2, <1>3, <2>1
  <2> QED BY <1>9, <2>1 DEF Below, BlankFrom
<1>11. con.esc = "none"
  BY <1>8 DEF Shows
<1> QED BY <1>4, <1>5, <1>6, <1>8, <1>9, <1>10, <1>11

\* A line is drawn again over the old one: rl_render.
LEMMA RenderDraws ==
  ASSUME LInv, mode = "reading", fresh' = fresh, NEW l \in Seq(Plain), NEW p \in 0 .. Len(l),
         Render(l, p)
  PROVE  Drawn'
<1> DEFINE d == Len(calls)
           look == Looks(d)
           str == Redrawn(l, p, shown)
<1>1. shown \in Nat /\ con \in Scr /\ calls \in Seq(Call)
  BY DEF LInv, IInv, TypeOK, LineOK, CallsOK, Drawn
<1>2. l \in Text /\ Len(l) \in Nat /\ p \in Int
  BY PlainIs, JoinIs
<1>3. /\ line' = l /\ pos' = p /\ shown' = Larger(shown, Len(l)) /\ mode' = mode
      /\ Output(str, con, calls, cap, capLen)
  BY DEF Render, Say
<1>4. str \in Text
  BY <1>1, <1>2, RedrawnIs
<1> HIDE DEF str
<1>5. con' \in Scr /\ cap' = cap /\ Len(calls') = d /\ (cap = 0 => con' = Puts(con, str))
  BY <1>1, <1>3, <1>4, OutputIs
<1> HIDE DEF d, look
<1>6. Len(line') <= shown'
  BY <1>1, <1>2, <1>3 DEF Larger
<1>7. Looks(Len(calls')) = look /\ Looks(Len(calls)) = look /\ Len(calls') = d /\ Len(calls) = d
  BY <1>5 DEF look, d
<1>8. ASSUME cap' = 0, fresh', Fits' PROVE Shows(con', look, line', pos')
  <2>1. ~Wraps(d) /\ Len(look) + shown' < Cols /\ con.esc = "none" /\ Below(con, Len(look) + shown')
    BY <1>2, <1>3, <1>5, <1>7, <1>8, Fitted
  <2>2. /\ ~Wraps(Len(calls)) /\ Len(Looks(Len(calls))) + Larger(shown, Len(l)) < Cols
        /\ Below(con, Len(Looks(Len(calls))) + Larger(shown, Len(l)))
    BY <1>3, <1>7, <2>1
  <2>3. Shows(Puts(con, Redrawn(l, p, shown)), Looks(Len(calls)), l, p)
    BY <1>1, <2>1, <2>2, RedrawnOn
  <2> QED BY <1>3, <1>5, <1>7, <1>8, <2>3 DEF str
<1> QED BY <1>5, <1>6, <1>7, <1>8 DEF Drawn

\* The loop begins: nothing was typed, and the prompt stands at the left of its row.
LEMMA ReadLineDraws ==
  ASSUME con \in Scr, NEW cs \in Seq(Call), NEW str \in Text, NEW to, NEW n,
         ReadLine(str, con, cs, to, n)
  PROVE  Drawn'
<1> DEFINE d == Len(cs)
           P == PromptAt(d)
           e == EmptyScreen(con.gui)
<1>1. P \in Text /\ str \o P \in Text
  BY PromptIs, JoinIs
<1>2. /\ Output(str \o P, con, cs, to, n)
      /\ line' = <<>> /\ pos' = 0 /\ shown' = 0 /\ mode' = "reading"
      /\ fresh' = ((IF to = 0 THEN Puts(con, str) ELSE con) = e)
  BY DEF ReadLine
<1>3. con.gui \in BOOLEAN
  BY DEF Scr
<1> HIDE DEF P, d, e
<1>4. con' \in Scr /\ cap' = to /\ Len(calls') = Len(cs) /\ (to = 0 => con' = Puts(con, str \o P))
  BY <1>1, <1>2, OutputIs
<1>5. Len(line') = 0 /\ Len(line') <= shown' /\ Larger(shown', Len(line')) = 0
  BY <1>2 DEF Larger
<1>6. ASSUME cap' = 0, fresh', Fits' PROVE Shows(con', Looks(Len(calls')), line', pos')
  <2>1. con' = Puts(Puts(con, str), P) /\ Puts(con, str) = e
    BY <1>1, <1>2, <1>4, <1>6, PutsJoin
  <2>2. ~Wraps(d) /\ Len(Looks(d)) + 0 < Cols /\ Len(calls') = d
    BY <1>4, <1>5, <1>6 DEF Fits, d
  <2>3. Len(Looks(d)) < Cols
    BY <2>2, LooksIs
  <2>4. Shows(Puts(e, P), Looks(d), <<>>, 0)
    BY <1>3, <2>2, <2>3, PromptShown DEF e, P
  <2> QED BY <1>2, <2>1, <2>2, <2>4
<1> QED BY <1>4, <1>5, <1>6 DEF Drawn

\* The characters that come in are plain.
LEMMA PlainParts ==
  ASSUME LInv
  PROVE  /\ \A c \in Char : Typed(c) \in Seq(Plain) /\ Len(Typed(c)) = Len(line) + 1
         /\ \A i \in 1 .. Len(line) : /\ RemoveAt(line, i) \in Seq(Plain)
                                      /\ Len(RemoveAt(line, i)) = Len(line) - 1
         /\ \A k \in 1 .. Len(hist) : hist[k] \in Seq(Plain)
         /\ Candidates # {} => line \o Completion \in Seq(Plain)
         /\ Listed \in Seq(Plain)
         /\ line \in Seq(Plain) /\ draft \in Seq(Plain) /\ <<>> \in Seq(Plain)
<1>1. line \in Seq(Plain) /\ draft \in Seq(Plain) /\ line \in Text /\ Len(line) < LineMax
      /\ pos \in 0 .. Len(line)
  BY DEF LInv, LinePlain, IInv, TypeOK, LineOK
<1>2. Char \subseteq Plain /\ Names \in Seq(Seq(Plain)) /\ " " \in Plain
  BY PlainAssumption, ShellAssumption DEF Plain
<1>3. \A c \in Char : Typed(c) \in Seq(Plain) /\ Len(Typed(c)) = Len(line) + 1
  BY <1>1, <1>2, TypedIs
<1>4. \A i \in 1 .. Len(line) : RemoveAt(line, i) \in Seq(Plain) /\ Len(RemoveAt(line, i)) = Len(line) - 1
  BY <1>1, RemoveAtIs
<1>5. Candidates # {} => line \o Completion \in Seq(Plain)
  BY <1>1, <1>2, CompletedIs
<1>6. Listed \in Seq(Plain)
  BY <1>2, ListedIs
<1>7. <<>> \in Seq(Plain)
  BY EmptySeq
<1> QED BY <1>1, <1>3, <1>4, <1>5, <1>6, <1>7 DEF LInv, LinePlain

\* The keys that draw the line again and nothing else.
LEMMA DrawDraws ==
  ASSUME LInv, Backspace \/ DeleteKey \/ EscKey \/ (\E p \in 0 .. LineMax : Move(p))
  PROVE  LinePlain' /\ Drawn'
<1>1. Len(line) \in Nat /\ pos \in 0 .. Len(line)
  BY JoinIs DEF LInv, IInv, TypeOK, LineOK
<1>2. ASSUME NEW l \in Seq(Plain), NEW p \in 0 .. Len(l), Render(l, p), mode = "reading",
             UNCHANGED hist, draft' = draft \/ draft' = <<>>
      PROVE  LinePlain' /\ Drawn'
  <2>1. fresh' = fresh /\ line' = l
    BY <1>2 DEF Render
  <2>2. Drawn'
    BY <1>2, <2>1, RenderDraws
  <2>3. LinePlain'
    BY <1>2, <2>1, PlainParts DEF LinePlain
  <2> QED BY <2>2, <2>3
<1>3. CASE Backspace
  <2>1. pos \in 1 .. Len(line)
    BY <1>1, <1>3 DEF Backspace
  <2>2. RemoveAt(line, pos) \in Seq(Plain) /\ Len(RemoveAt(line, pos)) = Len(line) - 1
    BY <2>1, PlainParts
  <2>3. pos - 1 \in 0 .. Len(RemoveAt(line, pos))
    BY <1>1, <2>1, <2>2
  <2> QED BY <1>2, <1>3, <2>2, <2>3 DEF Backspace, Reads, recall
<1>4. CASE DeleteKey
  <2>1. pos + 1 \in 1 .. Len(line)
    BY <1>1, <1>4 DEF DeleteKey
  <2>2. RemoveAt(line, pos + 1) \in Seq(Plain) /\ Len(RemoveAt(line, pos + 1)) = Len(line) - 1
    BY <2>1, PlainParts
  <2>3. pos \in 0 .. Len(RemoveAt(line, pos + 1))
    BY <1>1, <2>1, <2>2
  <2> QED BY <1>2, <1>4, <2>2, <2>3 DEF DeleteKey, Reads, recall
<1>5. CASE EscKey
  <2>1. <<>> \in Seq(Plain) /\ 0 \in 0 .. Len(<<>>)
    BY PlainParts, EmptyIs
  <2> QED BY <1>2, <1>5, <2>1 DEF EscKey, Reads, AtNewest
<1>6. ASSUME NEW p \in 0 .. LineMax, Move(p) PROVE LinePlain' /\ Drawn'
  <2>1. p \in 0 .. Len(line) /\ line \in Seq(Plain)
    BY <1>6, PlainParts DEF Move
  <2> QED BY <1>2, <1>6, <2>1 DEF Move, Reads, recall
<1> QED BY <1>3, <1>4, <1>5, <1>6

\* Up and Down.
LEMMA RecallDraws == ASSUME LInv, KeyUp \/ KeyDown PROVE LinePlain' /\ Drawn'
<1>1. hist \in Seq(Text) /\ Len(hist) \in Nat /\ histPos \in 0 .. Len(hist)
  BY LenProperties DEF LInv, IInv, TypeOK, RecallOK
<1>2. ASSUME NEW l \in Seq(Plain), Render(l, Len(l)), mode = "reading", UNCHANGED hist,
             draft' \in {draft, line, <<>>}
      PROVE  LinePlain' /\ Drawn'
  <2>1. fresh' = fresh /\ line' = l
    BY <1>2 DEF Render
  <2>2. Len(l) \in 0 .. Len(l)
    BY LenProperties
  <2>3. Drawn'
    BY <1>2, <2>1, <2>2, RenderDraws
  <2>4. LinePlain'
    BY <1>2, <2>1, PlainParts DEF LinePlain
  <2> QED BY <2>3, <2>4
<1>3. CASE KeyUp
  <2>1. Len(hist) # 0
    BY <1>1, <1>3, EmptySeq DEF KeyUp
  <2>2. histPos' \in 1 .. Len(hist)
    BY <1>1, <1>3, <2>1 DEF KeyUp, Larger
  <2>3. hist[histPos'] \in Seq(Plain)
    BY <2>2, PlainParts
  <2> QED BY <1>2, <1>3, <2>3 DEF KeyUp, Reads
<1>4. CASE KeyDown
  <2>1. histPos' = 0 \/ histPos' \in 1 .. Len(hist)
    BY <1>1, <1>4 DEF KeyDown
  <2> DEFINE l == IF histPos' = 0 THEN draft ELSE hist[histPos']
  <2>2. l \in Seq(Plain)
    BY <2>1, PlainParts
  <2>3. Render(l, Len(l)) /\ mode = "reading" /\ UNCHANGED hist /\ draft' \in {draft, line, <<>>}
    BY <1>4 DEF KeyDown, Reads
  <2> HIDE DEF l
  <2> QED BY <1>2, <2>2, <2>3
<1> QED BY <1>3, <1>4

LEMMA JoinedAppend ==
  ASSUME NEW t \in Text, NEW u \in Text, NEW c \in Glyph
  PROVE  Append(t \o u, c) = t \o Append(u, c)
<1>1. t \in Seq(Glyph) /\ u \in Seq(Glyph)
  BY DEF Text
<1> QED BY <1>1

\* A character at the end of the line is only echoed, ...
LEMMA EchoDraws ==
  ASSUME LInv, mode = "reading", pos = Len(line), NEW c \in Plain,
         Fits', cap = 0, fresh, line' = Typed(c), Len(calls') = Len(calls),
         shown' = Larger(shown, Len(line) + 1)
  PROVE  Shows(Puts(con, <<c>>), Looks(Len(calls)), Typed(c), pos + 1)
<1> DEFINE look == Looks(Len(calls))
           w == look \o line
           l == Append(line, c)
           s == Puts(con, <<c>>)
<1>1. /\ line \in Seq(Plain) /\ line \in Seq(Glyph) /\ line \in Text /\ Len(line) \in Nat /\ con \in Scr
      /\ c \in Glyph /\ shown \in Nat
  BY JoinIs, PlainIs DEF LInv, IInv, TypeOK, LineOK, LinePlain, Drawn, Text
<1>2. Typed(c) = l /\ l \in Text /\ Len(l) = Len(line) + 1 /\ Take(line, pos) = line
  <2>1. Take(line, pos) = line
    BY <1>1 DEF Take
  <2>2. SubSeq(line, pos + 1, Len(line)) = <<>>
    BY <1>1
  <2>3. l \in Text /\ Len(l) = Len(line) + 1
    BY <1>1, AppendIs
  <2>4. (line \o <<c>>) \o <<>> = l
    BY <1>1
  <2> QED BY <2>1, <2>2, <2>3, <2>4 DEF Typed
<1>3. look \in Text /\ Len(look) \in Nat /\ look # <<>> /\ Cols \in Nat
  BY LooksIs, ConsoleIs
<1> HIDE DEF l
<1>4. /\ Len(look) + shown' < Cols /\ con.esc = "none" /\ OnRow(con, con.row, look \o Take(line, pos))
      /\ Below(con, Len(look) + Len(line))
  BY <1>2, Fitted
<1> HIDE DEF look
<1>5. w \in Text /\ Len(w) = Len(look) + Len(line) /\ Append(w, c) = look \o l
  <2>1. look \in Seq(Glyph)
    BY <1>3 DEF Text
  <2>2. w \in Text /\ Len(w) = Len(look) + Len(line)
    BY <1>1, <1>3, JoinIs
  <2>3. Append(look \o line, c) = look \o Append(line, c)
    BY <1>1, <1>3, JoinedAppend
  <2> QED BY <2>2, <2>3 DEF l
<1>6. OnRow(con, con.row, w) /\ Len(w) + 1 < Cols
  <2>1. Len(line) + 1 <= shown'
    BY <1>1 DEF Larger
  <2>2. shown' \in Nat
    BY <1>1 DEF Larger
  <2>3. Len(w) + 1 < Cols
    BY <1>1, <1>3, <1>4, <1>5, <2>1, <2>2
  <2> QED BY <1>2, <1>4, <2>3
<1> HIDE DEF w
<1>7. s = Putc(con, c) /\ s \in Scr /\ s.gui = con.gui
  BY <1>1, PutsOne, PutcIs
<1> HIDE DEF s
<1>8. OnRow(s, con.row, look \o l) /\ s.esc = "none"
  <2>1. OnRow(s, con.row, Append(w, c)) /\ s.esc = "none"
    BY <1>1, <1>4, <1>6, <1>7, PutOn
  <2> QED BY <1>5, <2>1
<1>9. ~s.gui => BlankFrom(con.row, Len(look) + Len(l))
  <2>1. ASSUME NEW k \in 1 .. Cols, k > Len(look) + Len(l) PROVE k > Len(look) + Len(line)
    BY <1>1, <1>2, <1>3, <2>1
  <2> QED BY <1>4, <1>7, <2>1 DEF Below, BlankFrom
<1>10. Shows(s, look, l, Len(l))
  BY <1>2, <1>3, <1>7, <1>8, <1>9, WrittenShows
<1> QED BY <1>2, <1>10 DEF look, s

\* ... and one inside it is echoed where the cursor is and the line drawn again.
LEMMA InnerDraws ==
  ASSUME LInv, mode = "reading", pos < Len(line), NEW c \in Plain, Typed(c) \in Seq(Plain),
         Len(Typed(c)) = Len(line) + 1,
         Fits', cap = 0, fresh, line' = Typed(c), Len(calls') = Len(calls),
         shown' = Larger(shown, Len(line) + 1)
  PROVE  Shows(Puts(con, <<c>> \o Redrawn(Typed(c), pos + 1, shown)), Looks(Len(calls)), Typed(c), pos + 1)
<1> DEFINE look == Looks(Len(calls))
           h == Take(line, pos)
           w == look \o h
           l == Typed(c)
           s == Putc(con, c)
<1>1. /\ line \in Text /\ Len(line) \in Nat /\ con \in Scr
      /\ c \in Glyph /\ shown \in Nat /\ pos \in 0 .. Len(line) /\ l \in Text /\ Len(l) = Len(line) + 1
  BY JoinIs, PlainIs DEF LInv, IInv, TypeOK, LineOK, LinePlain, Drawn
<1> HIDE DEF l
<1>2. look \in Text /\ Len(look) \in Nat /\ look # <<>> /\ Cols \in Nat
  BY LooksIs, ConsoleIs
<1>3. /\ ~Wraps(Len(calls)) /\ Len(look) + shown' < Cols /\ con.esc = "none"
      /\ OnRow(con, con.row, w) /\ Below(con, Len(look) + Len(line)) /\ Len(look) + Len(line) < Cols
  BY <1>1, Fitted DEF l
<1>4. w \in Text /\ Len(w) = Len(look) + pos
  BY <1>1, <1>2, HeadCells
<1> HIDE DEF look, h, w
<1>5. Len(w) + 1 < Cols \/ Len(w) + 1 <= Len(look) + Len(line)
  BY <1>1, <1>2, <1>4
<1>6. Len(w) + 1 < Cols /\ Len(w) + 1 <= Len(look) + Len(line)
  BY <1>1, <1>2, <1>3, <1>4
<1>7. s \in Scr /\ s.gui = con.gui
  BY <1>1, PutcIs
<1> HIDE DEF s
<1>8. OnRow(s, con.row, Append(w, c)) /\ s.esc = "none"
  BY <1>1, <1>3, <1>6, PutOn DEF s
<1>9. Len(Append(w, c)) = Len(w) + 1 /\ Len(w) \in Nat
  BY <1>1, <1>4, AppendIs
<1>10. shown' \in Nat /\ Len(line) + 1 <= shown'
  BY <1>1 DEF Larger
<1>11. Below(s, Len(look) + shown')
  <2>1. ASSUME ~s.gui, NEW k \in 1 .. Cols, k > Len(look) + shown' PROVE s.row[k] = " "
    <3>1. ~(k <= Len(Append(w, c))) /\ k > Len(look) + Len(line)
      BY <1>1, <1>2, <1>6, <1>9, <1>10, <2>1
    <3>2. s.row[k] = con.row[k]
      BY <1>8, <2>1, <3>1 DEF OnRow
    <3> QED BY <1>3, <1>7, <2>1, <3>1, <3>2 DEF Below, BlankFrom
  <2> QED BY <1>8, <2>1 DEF OnRow, Below, BlankFrom
<1>12. Shows(Puts(s, Redrawn(l, pos + 1, shown)), look, l, pos + 1)
  <2>1. pos + 1 \in 0 .. Len(l)
    BY <1>1
  <2>2. /\ Len(Looks(Len(calls))) + Larger(shown, Len(l)) < Cols
        /\ Below(s, Len(Looks(Len(calls))) + Larger(shown, Len(l)))
    BY <1>1, <1>3, <1>11 DEF look
  <2>3. l \in Seq(Plain)
    BY DEF l
  <2> QED BY <1>1, <1>3, <1>7, <1>8, <2>1, <2>2, <2>3, RedrawnOn DEF look
<1>13. Puts(con, <<c>> \o Redrawn(l, pos + 1, shown)) = Puts(s, Redrawn(l, pos + 1, shown))
  <2>3. pos + 1 \in Int
    BY <1>1
  <2>1. Redrawn(l, pos + 1, shown) \in Text /\ <<c>> \in Text
    BY <1>1, <2>3, RedrawnIs, StringsAre
  <2>2. Puts(con, <<c>>) = s
    BY <1>1, PutsOne DEF s
  <2> QED BY <1>1, <2>1, <2>2, PutsJoin
<1> QED BY <1>12, <1>13 DEF look, l

LEMMA InsertDraws == ASSUME LInv, NEW c \in Char, Insert(c) PROVE LinePlain' /\ Drawn'
<1> DEFINE str == IF pos = Len(line) THEN <<c>> ELSE <<c>> \o Redrawn(Typed(c), pos + 1, shown)
<1>1. /\ c \in Plain /\ c \in Glyph /\ Typed(c) \in Seq(Plain) /\ Len(Typed(c)) = Len(line) + 1
      /\ Typed(c) \in Text
  BY PlainParts, PlainIs, PlainAssumption
<1>2. /\ mode = "reading" /\ mode' = mode /\ line' = Typed(c) /\ pos' = pos + 1
      /\ shown' = Larger(shown, Len(line) + 1) /\ Output(str, con, calls, cap, capLen)
      /\ UNCHANGED <<hist, fresh>> /\ draft' = <<>>
  BY DEF Insert, Reads, Say, AtNewest
<1>3. /\ con \in Scr /\ calls \in Seq(Call) /\ shown \in Nat /\ Len(line) \in Nat
      /\ pos \in 0 .. Len(line)
  BY JoinIs DEF LInv, Drawn, IInv, TypeOK, CallsOK, LineOK
<1>4. str \in Text
  <2>1. Redrawn(Typed(c), pos + 1, shown) \in Text
    BY <1>1, <1>3, RedrawnIs
  <2> QED BY <1>1, <2>1, StringsAre, JoinIs
<1> HIDE DEF str
<1>5. con' \in Scr /\ cap' = cap /\ Len(calls') = Len(calls) /\ (cap = 0 => con' = Puts(con, str))
  BY <1>2, <1>3, <1>4, OutputIs
<1>6. LinePlain'
  BY <1>1, <1>2, PlainParts DEF LinePlain
<1>7. Len(line') <= shown'
  BY <1>1, <1>2, <1>3 DEF Larger
<1>8. ASSUME cap' = 0, fresh', Fits' PROVE Shows(con', Looks(Len(calls')), line', pos')
  <2>1. CASE pos = Len(line)
    <3>1. Shows(Puts(con, <<c>>), Looks(Len(calls)), Typed(c), pos + 1)
      BY <1>1, <1>2, <1>5, <1>8, <2>1, EchoDraws
    <3> QED BY <1>2, <1>5, <1>8, <2>1, <3>1 DEF str
  <2>2. CASE pos # Len(line)
    <3>1. pos < Len(line)
      BY <1>3, <2>2
    <3>2. Shows(Puts(con, <<c>> \o Redrawn(Typed(c), pos + 1, shown)), Looks(Len(calls)), Typed(c), pos + 1)
      BY <1>1, <1>2, <1>5, <1>8, <3>1, InnerDraws
    <3> QED BY <1>2, <1>5, <1>8, <2>2, <3>2 DEF str
  <2> QED BY <2>1, <2>2
<1> QED BY <1>5, <1>6, <1>7, <1>8 DEF Drawn

\* On an empty row nothing is below the line.
LEMMA EmptyBelow ==
  ASSUME NEW g \in BOOLEAN, NEW n
  PROVE  EmptyScreen(g) \in Scr /\ EmptyScreen(g).esc = "none" /\ Below(EmptyScreen(g), n)
BY EmptyOn DEF Below, BlankFrom

\* Tab: the names, if there are several, and the line drawn again on the row below them.
LEMMA TabDraws == ASSUME LInv, TabKey PROVE LinePlain' /\ Drawn'
<1> DEFINE l == line \o Completion
           one == Cardinality(Candidates) = 1
           list == IF one THEN <<>> ELSE <<"LF">> \o Listed \o <<"LF">>
           str == list \o Redrawn(l, Len(l), shown)
<1>1. Candidates # {} /\ mode = "reading"
  BY DEF TabKey, Reads
<1>2. /\ line' = l /\ pos' = Len(l) /\ shown' = Larger(shown, Len(l)) /\ mode' = mode
      /\ Output(str, con, calls, cap, capLen) /\ hist' = hist /\ draft' = draft
  BY DEF TabKey, Say, recall
<1>4. /\ l \in Seq(Plain) /\ l \in Text /\ Len(l) \in Nat /\ Listed \in Seq(Plain) /\ Listed \in Text
  BY <1>1, PlainParts, PlainIs, JoinIs
<1> HIDE DEF l
<1>5. /\ con \in Scr /\ con.gui \in BOOLEAN /\ calls \in Seq(Call) /\ shown \in Nat
  BY DEF LInv, Drawn, IInv, TypeOK, CallsOK, LineOK, Scr
<1>3. one => fresh' = (fresh \/ FALSE)
  BY DEF TabKey
<1> DEFINE R == Redrawn(l, Len(l), shown)
<1>6. R \in Text /\ list \in Text /\ str \in Text
  <2>1. R \in Text
    BY <1>4, <1>5, RedrawnIs
  <2>2. list \in Text
    BY <1>4, StringsAre, JoinIs
  <2> HIDE DEF R, list
  <2> QED BY <2>1, <2>2, JoinIs DEF R
<1>7. con' \in Scr /\ cap' = cap /\ Len(calls') = Len(calls) /\ (cap = 0 => con' = Puts(con, str))
  <2> HIDE DEF str
  <2> QED BY <1>2, <1>5, <1>6, OutputIs
<1>8. LinePlain'
  BY <1>2, <1>4, PlainParts DEF LinePlain
<1>9. Len(line') <= shown' /\ Larger(shown', Len(line')) = shown' /\ shown' = Larger(shown, Len(l))
  BY <1>2, <1>4, <1>5 DEF Larger
<1>10. ASSUME cap' = 0, fresh', Fits' PROVE Shows(con', Looks(Len(calls')), line', pos')
  <2>1. Len(l) \in 0 .. Len(l)
    BY <1>4
  <2>2. ~Wraps(Len(calls)) /\ Len(Looks(Len(calls))) + Larger(shown, Len(l)) < Cols
    BY <1>7, <1>9, <1>10 DEF Fits
  <2>3. Puts(con, str) = Puts(Puts(con, list), R)
    <3> HIDE DEF R, list
    <3> QED BY <1>5, <1>6, PutsJoin DEF R
  <2>4. CASE one
    <3>1. fresh
      BY <1>3, <1>10, <2>4
    <3>2. con.esc = "none" /\ Below(con, Len(Looks(Len(calls))) + shown')
      BY <1>1, <1>2, <1>4, <1>7, <1>10, <3>1, Fitted
    <3>3. Shows(Puts(con, R), Looks(Len(calls)), l, Len(l))
      BY <1>4, <1>5, <1>9, <2>1, <2>2, <3>2, RedrawnOn
    <3>4. Puts(con, list) = con
      BY <1>5, <2>4, PutsNone
    <3> QED BY <1>2, <1>7, <1>10, <2>3, <3>3, <3>4
  <2>5. CASE ~one
    <3> DEFINE e == EmptyScreen(con.gui)
    <3>1. Puts(con, list) = e
      BY <1>4, <1>5, <2>5, ListedEmpties
    <3>2. e \in Scr /\ e.esc = "none" /\ Below(e, Len(Looks(Len(calls))) + Larger(shown, Len(l)))
      BY <1>5, EmptyBelow
    <3> HIDE DEF e, list
    <3>3. Shows(Puts(e, R), Looks(Len(calls)), l, Len(l))
      BY <1>4, <1>5, <2>1, <2>2, <3>2, RedrawnOn
    <3> QED BY <1>2, <1>7, <1>10, <2>3, <3>1, <3>3
  <2> QED BY <2>4, <2>5
<1> QED BY <1>7, <1>8, <1>9, <1>10 DEF Drawn

\* Ctrl+L: the line drawn again on a cleared screen.
LEMMA ClearDraws == ASSUME LInv, ClearKey PROVE LinePlain' /\ Drawn'
<1> DEFINE R == Redrawn(line, pos, 0)
           s == Cleared(con)
<1>1. /\ mode = "reading" /\ mode' = mode /\ line' = line /\ pos' = pos /\ shown' = Len(line)
      /\ hist' = hist /\ draft' = draft /\ fresh' = (con.esc = "none")
      /\ Output(R, s, calls, cap, capLen)
  BY DEF ClearKey, Reads, recall
<1>2. /\ con \in Scr /\ con.gui \in BOOLEAN /\ calls \in Seq(Call) /\ pos \in 0 .. Len(line)
      /\ line \in Text /\ line \in Seq(Plain) /\ Len(line) \in Nat
  BY JoinIs DEF LInv, Drawn, IInv, TypeOK, CallsOK, LineOK, LinePlain, Scr
<1>3. s \in Scr
  BY <1>2, NewlineIs DEF Cleared
<1>4. R \in Text
  <2>1. 0 \in Nat /\ pos \in Int
    BY <1>2
  <2> QED BY <1>2, <2>1, RedrawnIs
<1> HIDE DEF R, s
<1>5. con' \in Scr /\ cap' = cap /\ Len(calls') = Len(calls) /\ (cap = 0 => con' = Puts(s, R))
  BY <1>1, <1>2, <1>3, <1>4, OutputIs
<1>6. LinePlain'
  BY <1>1 DEF LInv, LinePlain
<1>7. Len(line') <= shown' /\ Larger(shown', Len(line')) = Len(line) /\ Larger(0, Len(line)) = Len(line)
  BY <1>1, <1>2 DEF Larger
<1>8. ASSUME cap' = 0, fresh', Fits' PROVE Shows(con', Looks(Len(calls')), line', pos')
  <2> DEFINE e == EmptyScreen(con.gui)
  <2>1. s = e
    BY <1>1, <1>2, <1>8, NewRow DEF s, Cleared
  <2>2. e \in Scr /\ e.esc = "none" /\ Below(e, Len(Looks(Len(calls))) + Larger(0, Len(line)))
    BY <1>2, EmptyBelow
  <2> HIDE DEF e
  <2>3. ~Wraps(Len(calls)) /\ Len(Looks(Len(calls))) + Larger(0, Len(line)) < Cols /\ 0 \in Nat
    BY <1>5, <1>7, <1>8 DEF Fits
  <2>4. Shows(Puts(e, R), Looks(Len(calls)), line, pos)
    BY <1>2, <2>2, <2>3, RedrawnOn DEF R
  <2> QED BY <1>1, <1>5, <1>8, <2>1, <2>4
<1> QED BY <1>5, <1>6, <1>7, <1>8 DEF Drawn

\* Where sh_readline is entered again.
LEMMA AgainDraws ==
  ASSUME LInv, NEW cs \in Seq(Call), NEW str \in Text, NEW to, NEW n,
         ReadLine(str, con, cs, to, n)
  PROVE  LinePlain' /\ Drawn'
<1>1. Drawn'
  BY ReadLineDraws DEF LInv, Drawn
<1>2. line' = <<>> /\ draft' = <<>> /\ hist' = hist
  BY DEF ReadLine, AtNewest
<1> QED BY <1>1, <1>2, PlainParts DEF LinePlain

\* Outside sh_readline a step only leaves a screen.
LEMMA OutsideDraws ==
  ASSUME LInv, con' \in Scr, mode' # "reading",
         line' \in {line, <<>>}, draft' \in {draft, <<>>}, hist' = hist
  PROVE  LinePlain' /\ Drawn'
<1>1. LinePlain'
  BY PlainParts DEF LinePlain
<1> QED BY <1>1 DEF Drawn

LEMMA ScreenLeft ==
  ASSUME con \in Scr, NEW str \in Text, NEW cs, NEW to, NEW n, Output(str, con, cs, to, n)
  PROVE  con' \in Scr
BY PutsIs DEF Output

LEMMA EnterDraws == ASSUME LInv, Enter PROVE LinePlain' /\ Drawn'
<1>1. /\ con \in Scr /\ line \in Seq(Plain) /\ hist \in Seq(Text) /\ Len(hist) \in Nat
      /\ \A k \in 1 .. Len(hist) : hist[k] \in Seq(Plain)
  BY LenProperties DEF LInv, Drawn, LinePlain, IInv, TypeOK, RecallOK
<1>2. line' = <<>> /\ draft' = <<>> /\ mode' = "executing" /\ <<>> \in Seq(Plain)
  BY PlainParts DEF Enter, AtNewest
<1>3. con' \in Scr
  <2>1. Output(<<"LF">>, con, calls, cap, capLen)
    BY DEF Enter, Say
  <2> QED BY <1>1, <2>1, StringsAre, ScreenLeft
<1>4. hist \in Seq(Seq(Plain))
  <2> DEFINE W == Seq(Plain)
             n == Len(hist)
  <2>1. hist \in [1 .. n -> W] /\ n \in Nat
    <3>1. hist \in [1 .. n -> Text]
      BY <1>1, LenProperties
    <3> HIDE DEF n
    <3> QED BY <1>1, <3>1 DEF n
  <2> HIDE DEF W, n
  <2>2. hist \in Seq(W)
    BY <2>1, CellsAre
  <2> QED BY <2>2 DEF W
<1>5. hist' \in Seq(Seq(Plain))
  <2> DEFINE W == Seq(Plain)
  <2>1. hist \in Seq(W) /\ line \in W
    BY <1>1, <1>4
  <2>2. hist' = hist \/ hist' = Append(hist, line) \/ (hist # <<>> /\ hist' = Append(Tail(hist), line))
    <3>1. \/ hist' = hist \/ hist' = Append(hist, line)
          \/ ~(Len(hist) < HistMax) /\ hist' = Append(Tail(hist), line)
      BY DEF Enter
    <3>2. ~(Len(hist) < HistMax) => hist # <<>>
      BY <1>1, SizesAre, EmptySeq
    <3> QED BY <3>1, <3>2
  <2> HIDE DEF W
  <2>3. hist # <<>> => Tail(hist) \in Seq(W)
    BY <2>1, HeadTailProperties
  <2>4. hist' \in Seq(W)
    BY <2>1, <2>2, <2>3, AppendProperties
  <2> QED BY <2>4 DEF W
<1>6. \A k \in 1 .. Len(hist') : hist'[k] \in Seq(Plain)
  BY <1>5, ElementOfSeq
<1> QED BY <1>2, <1>3, <1>6 DEF LinePlain, Drawn

LEMMA NextDraws == LInv /\ [Next]_vars => LinePlain' /\ Drawn'
<1> SUFFICES ASSUME LInv, [Next]_vars PROVE LinePlain' /\ Drawn'
  OBVIOUS
<1>0. con \in Scr /\ IInv
  BY DEF LInv, Drawn
<1>1. ASSUME NEW c \in Char, Insert(c) PROVE LinePlain' /\ Drawn'
  BY <1>1, InsertDraws
<1>2. CASE Backspace \/ DeleteKey \/ EscKey \/ (\E p \in 0 .. LineMax : Move(p))
  BY <1>2, DrawDraws
<1>3. CASE KeyUp \/ KeyDown
  BY <1>3, RecallDraws
<1>4. CASE TabKey
  BY <1>4, TabDraws
<1>5. CASE ClearKey
  BY <1>5, ClearDraws
<1>6. CASE Abandon
  <2>1. PICK str \in {<<"^", "C", "LF">>} \cup {<<"LF">> : l \in {line} \cap {<<>>}} :
          ReadLine(str, con, calls, cap, capLen)
    BY <1>6 DEF Abandon
  <2>2. str \in Text /\ calls \in Seq(Call)
    BY <1>0, StringsAre DEF IInv, TypeOK, CallsOK
  <2> QED BY <2>1, <2>2, AgainDraws
<1>7. CASE Enter
  BY <1>7, EnterDraws
<1>8. ASSUME NEW r \in BOOLEAN, Execute(r) PROVE LinePlain' /\ Drawn'
  BY <1>0, <1>8, OutsideDraws DEF Execute, Still, edit, recall
<1>9. ASSUME NEW c \in Out, Prints(c) PROVE LinePlain' /\ Drawn'
  <2>1. /\ Output(<<c>>, con, [calls EXCEPT ![Len(calls)].out = @ + 1], cap, capLen)
        /\ mode' # "reading" /\ line' = line /\ draft' = draft /\ hist' = hist
    BY <1>9 DEF Prints, Runs, Still, edit, recall
  <2>2. <<c>> \in Text
    BY ShellAssumption, StringsAre
  <2>3. con' \in Scr
    BY <1>0, <2>1, <2>2, ScreenLeft
  <2> QED BY <2>1, <2>3, OutsideDraws
<1>10. CASE ClearScreen
  <2>1. con' = Newline(con) /\ mode' # "reading" /\ line' = line /\ draft' = draft /\ hist' = hist
    BY <1>10 DEF ClearScreen, Runs, Still, edit, recall, Cleared
  <2>2. con' \in Scr
    BY <1>0, <2>1, NewlineIs
  <2> QED BY <2>1, <2>2, OutsideDraws
<1>11. CASE Leave
  BY <1>0, <1>11, OutsideDraws DEF Leave, Runs, Still, edit, recall
<1>12. CASE Nest
  <2> DEFINE c == [Top EXCEPT !.does = "shell"]
             cs == [calls EXCEPT ![Len(calls)] = c]
  <2>1. CallsOK /\ Capture(calls, cap, capLen) /\ calls # <<>>
    BY <1>0, <1>12 DEF IInv, TypeOK, Nest
  <2>2. Top \in Call
    BY <2>1, EmptySeq, ElementOfSeq DEF CallsOK, Top
  <2>3. /\ c \in Call /\ c.redir = Top.redir /\ c.inner = Top.inner
        /\ c.buf = Top.buf /\ c.said = Top.said
    BY <2>2 DEF Call
  <2>4. ReadLine(Message, con, cs, cap, capLen)
    BY <1>12 DEF Top, Nest
  <2> HIDE DEF c
  <2>5. cs \in Seq(Call)
    BY <2>1, <2>3, TopKeeps
  <2> HIDE DEF cs
  <2> QED BY <2>4, <2>5, StringsAre, AgainDraws
<1>13. ASSUME NEW path \in BOOLEAN, NEW ok \in BOOLEAN, End(path, ok) PROVE LinePlain' /\ Drawn'
  <2> DEFINE rest == Front(calls)
             to == IF Top.redir THEN 0 ELSE cap
             str == IF ok THEN <<>> ELSE Message
  <2>1. rest \in Seq(Call) /\ str \in Text
    BY <1>0, <1>13, FrontKeeps, StringsAre DEF IInv, TypeOK, End
  <2>2. GoOn(str, to)
    BY <1>13 DEF End
  <2> HIDE DEF to, str
  <2>3. CASE ~leaving
    <3>1. ReadLine(str, con, rest, to, capLen)
      BY <2>2, <2>3 DEF GoOn
    <3> HIDE DEF rest
    <3> QED BY <2>1, <3>1, AgainDraws
  <2>4. CASE leaving
    <3>1. PICK cs : Output(str, con, cs, to, capLen)
      BY <2>2, <2>4 DEF GoOn
    <3>2. con' \in Scr
      BY <1>0, <2>1, <3>1, ScreenLeft
    <3>3. mode' # "reading" /\ line' = line /\ draft' = draft /\ hist' = hist
      BY <2>2, <2>4 DEF GoOn, Still, edit, recall
    <3> QED BY <3>2, <3>3, OutsideDraws
  <2> QED BY <2>3, <2>4
<1>14. CASE UNCHANGED vars
  BY <1>14 DEF vars, edit, recall, LInv, LinePlain, Drawn, Fits
<1> QED BY <1>1, <1>2, <1>3, <1>4, <1>5, <1>6, <1>7, <1>8, <1>9, <1>10, <1>11, <1>12, <1>13,
           <1>14 DEF Next

LEMMA InitDraws == Init => LinePlain /\ Drawn
<1> SUFFICES ASSUME Init PROVE LinePlain /\ Drawn
  OBVIOUS
<1>1. PICK gui \in BOOLEAN : con = Puts(EmptyScreen(gui), Prompt)
  BY DEF Init
<1>2. line = <<>> /\ pos = 0 /\ shown = 0 /\ hist = <<>> /\ draft = <<>> /\ calls = <<>>
  BY DEF Init
<1>3. <<>> \in Seq(Plain) /\ Len(<<>>) = 0
  BY EmptySeq
<1>4. LinePlain
  BY <1>2, <1>3 DEF LinePlain
<1>5. con \in Scr
  <2>1. EmptyScreen(gui) \in Scr
    BY EmptyOn
  <2> QED BY <1>1, <2>1, ShellAssumption, PutsIs
<1>6. Len(line) = 0 /\ Len(calls) = 0 /\ Prompt = PromptAt(0) /\ Larger(shown, Len(line)) = 0
  BY <1>2, <1>3 DEF PromptAt, Larger
<1>7. ASSUME Fits PROVE Shows(con, Looks(Len(calls)), line, pos)
  <2>1. ~Wraps(0) /\ Len(Looks(0)) + 0 < Cols
    BY <1>6, <1>7 DEF Fits
  <2>2. Len(Looks(0)) < Cols
    BY <2>1, LooksIs
  <2>3. Shows(Puts(EmptyScreen(gui), PromptAt(0)), Looks(0), <<>>, 0)
    BY <2>1, <2>2, PromptShown
  <2> QED BY <1>1, <1>2, <1>6, <2>3
<1> QED BY <1>2, <1>4, <1>5, <1>6, <1>7 DEF Drawn

\* Between two keys the row is the prompt and the line, and the cursor is where pos says,
\* for every prompt, every line and both screens, whatever was typed, recalled, completed
\* or cleared before.
THEOREM LineIsShown == Spec => []LineShown
<1>1. Init => LInv
  BY InitIInv, InitDraws DEF LInv
<1>2. LInv /\ [Next]_vars => LInv'
  BY NextKeeps, NextDraws DEF LInv
<1>3. LInv => LineShown
  BY DrawnShows DEF LInv
<1> QED BY <1>1, <1>2, <1>3, PTL DEF Spec
=============================================================================
