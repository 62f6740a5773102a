--------------------------- MODULE PatchesProofs ---------------------------
(***************************************************************************)
(* Proofs about remote_patch: of PatchFiles, for any paths, patches, kinds *)
(* of sections and number of edits by others, and of NativePatch, for any  *)
(* words, files and sections.  What a patch means and how pieces of a text *)
(* are put together are recursive functions; the inductions they take rest *)
(* on the least number of a set, from the library's theorem on             *)
(* well-founded relations.                                                 *)
(***************************************************************************)
EXTENDS Patches, SequenceTheorems, FiniteSetTheorems, FunctionTheorems, WellFoundedInduction, TLAPS

-----------------------------------------------------------------------------
\* Before the first removal, and before the push is over.
Writing == pc \in {"pulling", "applying", "pushing"}
AllPushed == pc \in {"removing", "moving", "done"}

\* What the first k sections remove, and what they write.
Removed(k) == UNION {Removes(sections[j]) : j \in 1..k}
Kept(k) == sections[k].kind # "delete"
Written(k) == {sections[j].path : j \in {n \in 1..k : Kept(n)}}

\* What the push has uploaded, and what has been removed.
Pushed == IF pc = "pushing" THEN {sections[k].path : k \in Concerned("pushing") \ todo} ELSE {}
Gone ==
    UNION {Removes(sections[k]) :
              k \in {j \in 1..Len(sections) : j \notin todo /\ (pc = "removing" => ~ Kept(j))}}

\* What the patch has made of a file so far.
Base(f) == IF f \in Pushed THEN mirror[f] ELSE saw[f]

\* No stamp of the manifest is that of an edit still to come, nor is any content.
Fresh == -MaxEdits..-(edits + 1)
Aged(text) == text # None => \A n \in 1..Len(text) : text[n] \notin Fresh
AgedInv == \A f \in Paths : Aged(remote[f]) /\ Aged(mirror[f]) /\ Aged(pulled[f])

\* The call works on what is of its stage, and on what it has registered.
TodoInv ==
    /\ pc # "pulling" => todo \subseteq Concerned(pc)
    /\ Writing => \A k \in 1..Len(sections) : sections[k].path \in tracked /\ Reads(sections[k]) \in tracked

\* Each file is as the patch left it, with the edits of others after that.
StandingInv ==
    Writing => \A f \in Paths :
        IF f \in touched
        THEN remote[f] \notin {None, pulled[f]} /\ Edited(Text(Base(f)), remote[f])
        ELSE remote[f] = Base(f)

\* The mirror has what was pulled.
PulledInv ==
    Writing => \A f \in tracked \ (IF pc = "pulling" THEN todo ELSE {}) :
        /\ mirror[f] # None
        /\ pc = "pulling" => mirror[f] = Text(saw[f])

\* The mirror holds what the sections applied so far mean, but for what they remove.
MirrorIs(k) == \A f \in tracked \ Removed(k) : mirror[f] = Text(After[k][f])
AppliedUpTo(k) == todo = {j \in Concerned("applying") : j > k}
MirrorInv ==
    /\ pc = "applying" /\ Straight => \E k \in 0..Len(sections) : AppliedUpTo(k) /\ MirrorIs(k)
    /\ pc = "pushing" /\ Straight => MirrorIs(Len(sections))

\* After the push, what is not to be removed is as it is meant.
PushedInv ==
    AllPushed /\ Straight =>
        /\ \A f \in Paths \ Removed(Len(sections)) :
              IF f \in touched THEN remote[f] # None /\ Edited(Text(Meant[f]), remote[f]) ELSE remote[f] = Meant[f]
        /\ ~ RmFails => \A f \in Gone \ touched : remote[f] = None

\* A patch that failed has lost nothing.
FailedInv == pc = "failed" => RemovesLast

PatchInv == AgedInv /\ TodoInv /\ StandingInv /\ PulledInv /\ MirrorInv /\ PushedInv
            /\ FailedInv

-----------------------------------------------------------------------------
(* Induction. *)

LEMMA LeastNumber ==
    ASSUME NEW S \in SUBSET Nat, S # {}
    PROVE  \E n \in S : \A m \in S : n <= m
  <1> DEFINE R == OpToRel(<, Nat)
  <1>1. IsWellFoundedOn(R, Nat)
    BY NatLessThanWellFounded
  <1>2. \A m \in Nat, n \in Nat : m < n => <<m, n>> \in R
    BY DEF OpToRel
  <1> HIDE DEF R
  <1>3. PICK n \in S : \A m \in S : ~ (<<m, n>> \in R)
    BY <1>1, WFMin
  <1>4. \A m \in S : ~ (m < n) /\ m \in Nat /\ n \in Nat
    BY <1>2, <1>3
  <1> QED BY <1>4

LEMMA UpTo ==
    ASSUME NEW S, 0 \in S, NEW N \in Nat,
           \A n \in 0..N : n \in S /\ n < N => n + 1 \in S
    PROVE  \A n \in 0..N : n \in S
  <1> SUFFICES ASSUME {n \in 0..N : n \notin S} # {} PROVE FALSE
    OBVIOUS
  <1> DEFINE Rest == {n \in 0..N : n \notin S}
  <1>1. PICK n \in Rest : \A m \in Rest : n <= m
    <2>1. Rest \in SUBSET Nat /\ Rest # {}
      OBVIOUS
    <2> HIDE DEF Rest
    <2> QED BY <2>1, LeastNumber
  <1>2. n \in 1..N /\ n - 1 \in 0..N /\ n - 1 \in S
    BY <1>1
  <1> QED BY <1>1, <1>2

-----------------------------------------------------------------------------
(* Sequences. *)

LEMMA FrontTypes ==
    ASSUME NEW S, NEW s \in Seq(S), s # <<>>
    PROVE  /\ SubSeq(s, 1, Len(s) - 1) \in Seq(S) /\ Len(SubSeq(s, 1, Len(s) - 1)) = Len(s) - 1
           /\ Len(s) \in Nat \ {0} /\ s[Len(s)] \in S
  <1> DEFINE n == Len(s)
  <1>1. n \in Nat \ {0}
    BY EmptySeq
  <1>2. \A k \in 1..n : s[k] \in S
    OBVIOUS
  <1> HIDE DEF n
  <1>3. 1 \in Int /\ n - 1 \in Int /\ \A k \in 1..(n - 1) : s[k] \in S
    BY <1>1, <1>2
  <1>4. /\ SubSeq(s, 1, n - 1) \in Seq(S)
        /\ Len(SubSeq(s, 1, n - 1)) = IF 1 <= n - 1 THEN n - 1 - 1 + 1 ELSE 0
    BY ONLY <1>3, SubSeqProperties
  <1>5. Len(SubSeq(s, 1, n - 1)) = n - 1
    <2> DEFINE m == Len(SubSeq(s, 1, n - 1))
    <2>1. m = IF 1 <= n - 1 THEN n - 1 - 1 + 1 ELSE 0
      BY <1>4
    <2> HIDE DEF m
    <2> QED BY <2>1, <1>1 DEF m
  <1>6. s[n] \in S
    BY <1>1, <1>2
  <1> QED BY <1>1, <1>4, <1>5, <1>6 DEF n

LEMMA CutTypes ==
    ASSUME NEW S, NEW s \in Seq(S), NEW from \in Nat, NEW to \in Nat, to <= Len(s)
    PROVE  /\ SubSeq(s, from + 1, to) \in Seq(S)
           /\ from <= to => Len(SubSeq(s, from + 1, to)) = to - from
           /\ \A k \in 1..(to - from) : SubSeq(s, from + 1, to)[k] = s[from + k]
  <1> DEFINE n == Len(s)
             cut == SubSeq(s, from + 1, to)
  <1>1. n \in Nat /\ to <= n /\ \A k \in 1..n : s[k] \in S
    OBVIOUS
  <1> HIDE DEF n
  <1>2. from + 1 \in Int /\ to \in Int /\ \A k \in (from + 1)..to : s[k] \in S
    BY <1>1
  <1>3. /\ cut \in Seq(S)
        /\ Len(cut) = IF from + 1 <= to THEN to - (from + 1) + 1 ELSE 0
        /\ \A k \in 1..(to - (from + 1) + 1) : cut[k] = s[from + 1 + k - 1]
    BY ONLY <1>2, SubSeqProperties
  <1>4. from <= to => Len(cut) = to - from
    <2> DEFINE m == Len(cut)
    <2>1. m = IF from + 1 <= to THEN to - (from + 1) + 1 ELSE 0
      BY <1>3
    <2> HIDE DEF m, cut
    <2> QED BY <2>1 DEF m
  <1>5. ASSUME NEW k \in 1..(to - from)
        PROVE  cut[k] = s[from + k]
    <2>1. k \in 1..(to - (from + 1) + 1) /\ from + 1 + k - 1 = from + k
      OBVIOUS
    <2> HIDE DEF cut
    <2> QED BY <1>3, <2>1
  <1> QED BY <1>3, <1>4, <1>5

LEMMA ConcatTypes ==
    ASSUME NEW S, NEW s \in Seq(S), NEW t \in Seq(S), NEW n, NEW m, n = Len(s), m = Len(t)
    PROVE  /\ n \in Nat /\ m \in Nat
           /\ s \o t \in Seq(S) /\ Len(s \o t) = n + m
           /\ \A k \in 1..n : (s \o t)[k] = s[k]
           /\ \A k \in 1..m : (s \o t)[n + k] = t[k]
  <1> DEFINE st == s \o t
  <1>1. n \in Nat /\ m \in Nat
    OBVIOUS
  <1>2. /\ st \in Seq(S) /\ Len(st) = n + m
        /\ \A k \in 1..(n + m) : st[k] = IF k <= n THEN s[k] ELSE t[k - n]
    <2>1. /\ st \in Seq(S) /\ Len(st) = Len(s) + Len(t)
          /\ \A k \in 1..Len(s) + Len(t) : st[k] = IF k <= Len(s) THEN s[k] ELSE t[k - Len(s)]
      BY ConcatProperties
    <2> HIDE DEF st
    <2> QED BY <2>1
  <1> HIDE DEF st
  <1>3. \A k \in 1..n : st[k] = s[k]
    BY <1>1, <1>2
  <1>4. ASSUME NEW k \in 1..m PROVE st[n + k] = t[k]
    <2>1. n + k \in 1..(n + m) /\ ~ (n + k <= n) /\ n + k - n = k
      BY <1>1
    <2> QED BY <1>2, <2>1
  <1> QED BY <1>1, <1>2, <1>3, <1>4 DEF st

\* Cutting at and behind what a replacement takes, where all behind it has been spliced.
LEMMA SpliceFacts ==
    ASSUME NEW S, NEW text \in Seq(S), NEW rest \in Seq(S), NEW at \in Nat, NEW end \in Nat, NEW to \in Nat,
           at <= end, end <= to, to <= Len(text)
    PROVE  LET lines == SubSeq(text, 1, to) \o rest
           IN  /\ SubSeq(lines, 1, at) = SubSeq(text, 1, at)
               /\ SubSeq(lines, end + 1, Len(lines)) = SubSeq(text, end + 1, to) \o rest
               /\ at <= Len(lines)
  <1> DEFINE first == SubSeq(text, 1, to)
             lines == first \o rest
             n == Len(lines)
             m == Len(rest)
  <1>1. /\ first \in Seq(S) /\ Len(first) = to /\ \A k \in 1..to : first[k] = text[k]
    <2>1. /\ SubSeq(text, 0 + 1, to) \in Seq(S) /\ Len(SubSeq(text, 0 + 1, to)) = to - 0
          /\ \A k \in 1..(to - 0) : SubSeq(text, 0 + 1, to)[k] = text[0 + k]
      BY CutTypes
    <2> QED BY <2>1
  <1> HIDE DEF first
  <1>2. /\ m \in Nat /\ lines \in Seq(S) /\ n = to + m
        /\ \A k \in 1..to : lines[k] = first[k]
        /\ \A k \in 1..m : lines[to + k] = rest[k]
    <2>1. to = Len(first) /\ m = Len(rest)
      BY <1>1
    <2> HIDE DEF m
    <2> QED BY <2>1, <1>1, ConcatTypes
  <1> HIDE DEF lines, n, m
  <1>3. SubSeq(lines, 1, at) = SubSeq(text, 1, at)
    <2> DEFINE x == SubSeq(lines, 1, at)
               y == SubSeq(text, 1, at)
    <2>1. at <= n /\ n = Len(lines) /\ at <= Len(text)
      BY <1>1, <1>2 DEF n
    <2>2. /\ SubSeq(lines, 0 + 1, at) \in Seq(S) /\ Len(SubSeq(lines, 0 + 1, at)) = at - 0
          /\ \A k \in 1..(at - 0) : SubSeq(lines, 0 + 1, at)[k] = lines[0 + k]
      BY <1>2, <2>1, CutTypes
    <2>3. /\ SubSeq(text, 0 + 1, at) \in Seq(S) /\ Len(SubSeq(text, 0 + 1, at)) = at - 0
          /\ \A k \in 1..(at - 0) : SubSeq(text, 0 + 1, at)[k] = text[0 + k]
      BY <2>1, CutTypes
    <2>4. ASSUME NEW k \in 1..at PROVE lines[k] = text[k]
      <3>1. k \in 1..to
        OBVIOUS
      <3> QED BY <1>1, <1>2, <3>1
    <2>5. x \in Seq(S) /\ y \in Seq(S) /\ Len(x) = at /\ Len(y) = at /\ \A k \in 1..at : x[k] = y[k]
      BY <2>2, <2>3, <2>4
    <2> HIDE DEF x, y
    <2>6. x = y
      BY <2>5, SeqEqual
    <2> QED BY <2>6 DEF x, y
  <1>4. SubSeq(lines, end + 1, n) = SubSeq(text, end + 1, to) \o rest
    <2> DEFINE x == SubSeq(lines, end + 1, n)
               kept == SubSeq(text, end + 1, to)
               y == kept \o rest
               d == to - end
    <2>1. n = Len(lines) /\ n \in Nat /\ end <= n
      BY <1>2 DEF n
    <2>2. x \in Seq(S) /\ Len(x) = n - end /\ \A k \in 1..(n - end) : x[k] = lines[end + k]
      BY <1>2, <2>1, CutTypes
    <2>3. kept \in Seq(S) /\ Len(kept) = d /\ \A k \in 1..d : kept[k] = text[end + k]
      BY CutTypes
    <2> HIDE DEF x, kept
    <2>4. /\ y \in Seq(S) /\ Len(y) = d + m
          /\ \A k \in 1..d : y[k] = kept[k]
          /\ \A k \in 1..m : y[d + k] = rest[k]
      <3>1. d = Len(kept) /\ m = Len(rest)
        BY <2>3 DEF m
      <3> HIDE DEF d
      <3> QED BY <2>3, <3>1, ConcatTypes
    <2> HIDE DEF y
    <2>5. d \in Nat /\ n - end = d + m /\ end + d = to
      BY <1>2
    <2> HIDE DEF d
    <2>6. ASSUME NEW k \in 1..(d + m)
          PROVE  x[k] = y[k]
      <3>1. x[k] = lines[end + k]
        BY <2>2, <2>5
      <3>2. CASE k <= d
        <4>1. k \in 1..d /\ end + k \in 1..to
          BY <2>5, <3>2
        <4>2. lines[end + k] = text[end + k]
          BY <1>1, <1>2, <4>1
        <4>3. y[k] = text[end + k]
          BY <2>3, <2>4, <4>1
        <4> QED BY <3>1, <4>2, <4>3
      <3>3. CASE ~ (k <= d)
        <4>1. PICK j \in 1..m : k = d + j
          <5>1. k - d \in 1..m /\ k = d + (k - d)
            BY <1>2, <2>5, <3>3
          <5> QED BY <5>1
        <4>2. end + k = to + j
          BY <1>2, <2>5, <4>1
        <4>3. lines[end + k] = rest[j]
          BY <1>2, <4>2
        <4>4. y[k] = rest[j]
          BY <2>4, <4>1
        <4> QED BY <3>1, <4>3, <4>4
      <3> QED BY <3>2, <3>3
    <2>7. x = y
      BY <2>2, <2>4, <2>5, <2>6, SeqEqual
    <2> QED BY <2>7 DEF x, y, kept
  <1>5. at <= n
    BY <1>2
  <1> QED BY <1>3, <1>4, <1>5 DEF n, lines, first

-----------------------------------------------------------------------------
(* What a patch means. *)

Contents == Texts \cup {None}
Files == [Paths -> Contents]

LEMMA TextTypes ==
    ASSUME NEW content \in Contents
    PROVE  /\ Text(content) \in Texts
           /\ content # None => Text(content) = content
           /\ Text(content) # None /\ Text(Text(content)) = Text(content)
  <1>1. <<>> \in Texts
    BY DEF Texts
  <1> QED BY <1>1, PatchAssumption DEF Text, Contents, PatchConstants

\* Each mark of a section is one, and what a section carries over is a text.
LEMMA SectionTypes ==
    ASSUME TypeOK, NEW k \in 1..Len(sections)
    PROVE  /\ sections[k] \in Sections /\ sections[k].path \in Paths
           /\ made + k \in 1..MaxSections
           /\ sections[k].kind \in {"add", "update", "empty", "delete", "move"}
           /\ sections[k].kind = "move" => sections[k].from \in Paths
           /\ sections[k].kind # "move" => sections[k].from = None
           /\ Reads(sections[k]) \in Paths /\ Removes(sections[k]) \subseteq Paths
  <1>1. sections[k] \in Sections /\ made + k \in 1..MaxSections
    <2>1. Len(sections) \in Nat /\ sections[k] \in Sections /\ made \in Nat /\ made + Len(sections) <= MaxSections
      BY DEF TypeOK
    <2> QED BY <2>1, PatchAssumption DEF PatchConstants
  <1> QED BY <1>1, PatchAssumption DEF Sections, Reads, Removes, PatchConstants

LEMMA AppendTypes ==
    ASSUME NEW text \in Texts, NEW mark \in -MaxEdits..MaxSections
    PROVE  /\ Append(text, mark) \in Texts /\ <<mark>> \in Texts /\ <<>> \in Texts
           /\ Append(text, mark) # None /\ <<mark>> # None /\ <<>> # None
  <1>1. Append(text, mark) \in Texts /\ <<mark>> \in Texts /\ <<>> \in Texts
    BY DEF Texts
  <1> QED BY <1>1, PatchAssumption DEF PatchConstants

LEMMA CarriedType ==
    ASSUME TypeOK, NEW k \in 1..Len(sections), NEW files \in Files
    PROVE  Carried(files, k) \in Files
  <1> DEFINE s == sections[k]
  <1>1. /\ s \in Sections /\ s.path \in Paths /\ made + k \in -MaxEdits..MaxSections
        /\ s.kind \in {"add", "update", "empty", "delete", "move"}
        /\ s.kind = "move" => s.from \in Paths
    BY SectionTypes, PatchAssumption DEF PatchConstants
  <1>2. \A f \in Paths : Append(Text(files[f]), made + k) \in Contents
    BY <1>1, TextTypes, AppendTypes DEF Files, Contents
  <1>3. None \in Contents /\ <<>> \in Contents /\ <<made + k>> \in Contents
    BY <1>1, AppendTypes, TextTypes DEF Contents
  <1>4. CASE s.kind = "add"
    BY <1>1, <1>3, <1>4 DEF Carried, Files
  <1>5. CASE s.kind = "update"
    BY <1>1, <1>2, <1>5 DEF Carried, Files
  <1>6. CASE s.kind = "empty"
    BY <1>1, <1>3, <1>6 DEF Carried, Files
  <1>7. CASE s.kind = "delete"
    BY <1>1, <1>3, <1>7 DEF Carried, Files
  <1>8. CASE s.kind = "move"
    BY <1>1, <1>2, <1>3, <1>8 DEF Carried, Files
  <1> QED BY <1>1, <1>4, <1>5, <1>6, <1>7, <1>8

\* The recursion has a solution, so After is one.
LEMMA AfterFacts ==
    ASSUME TypeOK
    PROVE  /\ After[0] = saw
           /\ \A k \in 1..Len(sections) : After[k] = Carried(After[k - 1], k)
           /\ \A k \in 0..Len(sections) : After[k] \in Files
  <1> DEFINE N == Len(sections)
             Solves(g, n) == g[0] = saw /\ \A k \in 1..n : g[k] = Carried(g[k - 1], k)
             Solved == {n \in 0..N : \E g \in [0..n -> Files] : Solves(g, n)}
  <1>1. N \in Nat /\ saw \in Files
    BY DEF TypeOK, Files, Contents
  <1>2. 0 \in Solved
    <2> DEFINE g == [k \in 0..0 |-> saw]
    <2>1. g \in [0..0 -> Files] /\ Solves(g, 0)
      BY <1>1
    <2> HIDE DEF g
    <2> QED BY <1>1, <2>1
  <1>3. ASSUME NEW n \in 0..N, n \in Solved, n < N
        PROVE  n + 1 \in Solved
    <2>1. PICK g \in [0..n -> Files] : Solves(g, n)
      BY <1>3
    <2> DEFINE h == [k \in 0..n + 1 |-> IF k <= n THEN g[k] ELSE Carried(g[n], n + 1)]
    <2>2. Carried(g[n], n + 1) \in Files
      BY CarriedType, <1>1, <1>3
    <2>3. h \in [0..n + 1 -> Files]
      BY <2>2, <1>3
    <2>4. Solves(h, n + 1)
      BY <2>1, <1>3
    <2> HIDE DEF h, Solves
    <2> QED BY <2>3, <2>4, <1>3, <1>1
  <1>4. N \in Solved
    <2> HIDE DEF Solved, N
    <2> QED BY <1>1, <1>2, <1>3, UpTo
  <1>5. PICK g \in [0..N -> Files] : Solves(g, N)
    BY <1>4
  <1>6. g = [k \in 0..N |-> IF k = 0 THEN saw ELSE Carried(g[k - 1], k)]
    BY <1>5, <1>1
  <1>7. After = [k \in 0..N |-> IF k = 0 THEN saw ELSE Carried(After[k - 1], k)]
    BY <1>6 DEF After
  <1>8. /\ After[0] = saw
        /\ \A k \in 1..N : After[k] = Carried(After[k - 1], k)
    BY <1>7, <1>1
  <1>9. \A k \in 0..N : After[k] \in Files
    <2> DEFINE Typed == {k \in 0..N : After[k] \in Files}
    <2>1. 0 \in Typed
      BY <1>1, <1>8
    <2>2. ASSUME NEW n \in 0..N, n \in Typed, n < N
          PROVE  n + 1 \in Typed
      BY <1>8, <2>2, CarriedType, <1>1
    <2> HIDE DEF Typed, N
    <2>3. \A n \in 0..N : n \in Typed
      BY <2>1, <2>2, <1>1, UpTo
    <2> QED BY <2>3 DEF Typed
  <1> QED BY <1>8, <1>9

\* What section k means for one file.
LEMMA CarriedAt ==
    ASSUME TypeOK, Straight, NEW k \in 1..Len(sections), NEW files \in Files, NEW f \in Paths
    PROVE  Carried(files, k)[f] =
             IF f \in Removes(sections[k]) THEN None
             ELSE IF Kept(k) /\ f = sections[k].path
             THEN NewText(sections[k], made + k, Text(files[Reads(sections[k])]))
             ELSE files[f]
  <1> DEFINE s == sections[k]
  <1>1. /\ s.path \in Paths /\ s.kind \in {"add", "update", "empty", "delete", "move"}
        /\ s.kind = "move" => s.from \in Paths /\ s.from # s.path
    BY SectionTypes DEF Straight
  <1>2. CASE s.kind \in {"add", "update", "empty"}
    BY <1>1, <1>2 DEF Carried, Removes, Kept, NewText, Reads, Files
  <1>3. CASE s.kind = "delete"
    BY <1>1, <1>3 DEF Carried, Removes, Kept, NewText, Reads, Files
  <1>4. CASE s.kind = "move"
    BY <1>1, <1>4 DEF Carried, Removes, Kept, NewText, Reads, Files
  <1> QED BY <1>1, <1>2, <1>3, <1>4

\* What a section makes of a text is one, and has no mark of others that the text lacks.
LEMMA NewTextTypes ==
    ASSUME TypeOK, NEW k \in 1..Len(sections), Kept(k), NEW text \in Texts
    PROVE  /\ NewText(sections[k], made + k, text) \in Texts
           /\ NewText(sections[k], made + k, text) # None
           /\ Aged(text) => Aged(NewText(sections[k], made + k, text))
  <1> DEFINE new == NewText(sections[k], made + k, text)
  <1>1. made + k \in 1..MaxSections /\ made + k \in -MaxEdits..MaxSections /\ made + k \notin Fresh
    BY SectionTypes, PatchAssumption DEF PatchConstants, Fresh, TypeOK
  <1>2. new \in {<<made + k>>, <<>>, Append(text, made + k)}
    BY DEF NewText
  <1>3. new \in Texts /\ new # None
    BY <1>1, <1>2, AppendTypes
  <1>4. ASSUME Aged(text) PROVE Aged(Append(text, made + k))
    BY <1>1, <1>4, PatchAssumption DEF Aged, Texts, PatchConstants
  <1>5. Aged(<<>>) /\ Aged(<<made + k>>)
    BY <1>1 DEF Aged
  <1> QED BY <1>2, <1>3, <1>4, <1>5

LEMMA OneMore ==
    ASSUME TypeOK, NEW k \in 1..Len(sections)
    PROVE  /\ k - 1 \in 0..Len(sections) /\ k \in 0..Len(sections) /\ Len(sections) \in Nat
           /\ Removed(k) = Removed(k - 1) \cup Removes(sections[k])
           /\ Written(k) = Written(k - 1) \cup (IF Kept(k) THEN {sections[k].path} ELSE {})
           /\ Straight => /\ sections[k].path \notin Removed(k - 1)
                          /\ Reads(sections[k]) \notin Removed(k - 1)
                          /\ Kept(k) => sections[k].path \notin Removes(sections[k])
  <1>1. Len(sections) \in Nat /\ k \in Nat
    BY DEF TypeOK
  <1>2. 1..k = (1..(k - 1)) \cup {k} /\ k - 1 \in 0..Len(sections)
    BY <1>1
  <1>3. Removed(k) = Removed(k - 1) \cup Removes(sections[k])
    BY <1>2 DEF Removed
  <1>4. Written(k) = Written(k - 1) \cup (IF Kept(k) THEN {sections[k].path} ELSE {})
    BY <1>2 DEF Written
  <1>5. ASSUME Straight
        PROVE  /\ sections[k].path \notin Removed(k - 1)
               /\ Reads(sections[k]) \notin Removed(k - 1)
    <2>1. ASSUME NEW j \in 1..k - 1
          PROVE  Removes(sections[j]) \cap {sections[k].path, Reads(sections[k])} = {}
      <3>1. j \in 1..Len(sections) /\ k \in 1..Len(sections) /\ j < k
        BY <1>1
      <3>2. \A m \in 1..Len(sections), n \in 1..Len(sections) :
               n < m => Removes(sections[n]) \cap {sections[m].path, Reads(sections[m])} = {}
        BY <1>5 DEF Straight
      <3> QED BY ONLY <3>1, <3>2
    <2> QED BY <2>1 DEF Removed
  <1>6. ASSUME Straight, Kept(k) PROVE sections[k].path \notin Removes(sections[k])
    BY <1>1, <1>6 DEF Straight, Removes, Kept
  <1> QED BY <1>1, <1>2, <1>3, <1>4, <1>5, <1>6

\* What has been removed is gone, what has been written is there, the rest is untouched.
LEMMA WhatIsMeant ==
    ASSUME TypeOK, Straight
    PROVE  \A k \in 0..Len(sections) : \A f \in Paths :
              /\ f \in Removed(k) => After[k][f] = None
              /\ f \in Written(k) \ Removed(k) => After[k][f] # None
              /\ f \notin Written(k) \cup Removed(k) => After[k][f] = saw[f]
  <1> DEFINE Holds(k) ==
               \A f \in Paths :
                  /\ f \in Removed(k) => After[k][f] = None
                  /\ f \in Written(k) \ Removed(k) => After[k][f] # None
                  /\ f \notin Written(k) \cup Removed(k) => After[k][f] = saw[f]
             Right == {k \in 0..Len(sections) : Holds(k)}
  <1>1. Len(sections) \in Nat
    BY DEF TypeOK
  <1>2. 0 \in Right
    <2>1. Removed(0) = {} /\ Written(0) = {}
      BY DEF Removed, Written
    <2> QED BY <1>1, <2>1, AfterFacts
  <1>3. ASSUME NEW n \in 0..Len(sections), n \in Right, n < Len(sections)
        PROVE  n + 1 \in Right
    <2> DEFINE k == n + 1
    <2>1. k \in 1..Len(sections) /\ k - 1 = n
      BY <1>1, <1>3
    <2>2. After[n] \in Files /\ After[k] = Carried(After[n], k)
      BY <2>1, AfterFacts
    <2>3. ASSUME NEW f \in Paths
          PROVE  After[k][f] =
                   IF f \in Removes(sections[k]) THEN None
                   ELSE IF Kept(k) /\ f = sections[k].path
                   THEN NewText(sections[k], made + k, Text(After[n][Reads(sections[k])]))
                   ELSE After[n][f]
      BY <2>1, <2>2, CarriedAt
    <2>4. Kept(k) => NewText(sections[k], made + k, Text(After[n][Reads(sections[k])])) # None
      <3>1. After[n][Reads(sections[k])] \in Contents
        BY <2>1, <2>2, SectionTypes DEF Files
      <3>2. Text(After[n][Reads(sections[k])]) \in Texts
        BY <3>1, TextTypes
      <3> QED BY <2>1, <3>2, NewTextTypes
    <2>5. /\ Removed(k) = Removed(n) \cup Removes(sections[k])
          /\ Written(k) = Written(n) \cup (IF Kept(k) THEN {sections[k].path} ELSE {})
          /\ sections[k].path \notin Removed(n)
          /\ Kept(k) => sections[k].path \notin Removes(sections[k])
      BY <2>1, OneMore
    <2>6. Holds(n)
      BY <1>3
    <2>7. Holds(k)
      <3> HIDE DEF k
      <3> QED BY <2>3, <2>4, <2>5, <2>6
    <2> HIDE DEF Holds
    <2> QED BY <2>1, <2>7
  <1> HIDE DEF Right
  <1>4. \A k \in 0..Len(sections) : k \in Right
    BY <1>1, <1>2, <1>3, UpTo
  <1> QED BY <1>4 DEF Right

\* Sections that delete change nothing but what they delete.
LEMMA DeletesOnly ==
    ASSUME TypeOK, Straight, NEW j \in 0..Len(sections), NEW k \in 0..Len(sections), j <= k,
           \A i \in j + 1..k : ~ Kept(i), NEW f \in Paths \ Removed(k)
    PROVE  After[k][f] = After[j][f] /\ f \notin Removed(j)
  <1> DEFINE Same == {n \in 0..k : n <= j \/ After[n][f] = After[j][f]}
  <1>1. Len(sections) \in Nat
    BY DEF TypeOK
  <1>2. 0 \in Same
    BY <1>1
  <1>3. ASSUME NEW n \in 0..k, n \in Same, n < k
        PROVE  n + 1 \in Same
    <2>1. n + 1 \in 1..Len(sections) /\ (n + 1) - 1 = n /\ n + 1 \in 0..k /\ n + 1 \in 1..k
      BY <1>1, <1>3
    <2>2. CASE n + 1 <= j
      BY <2>1, <2>2
    <2>3. CASE n + 1 > j
      <3>1. ~ Kept(n + 1)
        BY <1>1, <2>1, <2>3
      <3>2. After[n] \in Files /\ After[n + 1] = Carried(After[n], n + 1)
        BY <2>1, AfterFacts
      <3>3. f \notin Removes(sections[n + 1])
        BY <2>1 DEF Removed
      <3>4. After[n + 1][f] = After[n][f]
        BY <2>1, <3>1, <3>2, <3>3, CarriedAt
      <3>5. After[n][f] = After[j][f]
        BY <1>1, <1>3, <2>3
      <3> QED BY <2>1, <3>4, <3>5
    <2> QED BY <1>1, <2>1, <2>2, <2>3
  <1>4. k \in Same
    <2>1. k \in Nat /\ k \in 0..k
      BY <1>1
    <2> HIDE DEF Same
    <2> QED BY <1>2, <1>3, <2>1, UpTo
  <1>5. f \notin Removed(j)
    BY <1>1 DEF Removed
  <1> QED BY <1>1, <1>4, <1>5

-----------------------------------------------------------------------------
(* Types. *)

LEMMA Stored == TypeOK => /\ remote \in Files /\ mirror \in Files /\ pulled \in Files /\ saw \in Files
                          /\ Len(sections) \in Nat
  BY DEF TypeOK, Files, Contents

LEMMA Stages5 ==
    /\ Following("pulling") = "applying" /\ Following("applying") = "pushing"
    /\ Following("pushing") = "removing" /\ Following("removing") = "moving"
    /\ Following("moving") = "done"
  BY DEF Following, Order

LEMMA TurnFacts ==
    ASSUME TypeOK, NEW stage \in Stages \ {"pulling"}, NEW k, Turn(stage, k)
    PROVE  /\ pc = stage /\ k \in todo /\ k \in 1..Len(sections)
           /\ \A j \in todo : k <= j
  <1>1. pc = stage /\ todo # {} /\ todo \subseteq 1..Len(sections) /\ Len(sections) \in Nat
    BY DEF Turn, TypeOK
  <1>2. \E n \in todo : \A m \in todo : n <= m
    <2>1. todo \in SUBSET Nat
      BY <1>1
    <2> QED BY <1>1, <2>1, LeastNumber
  <1>3. k \in todo /\ \A j \in todo : k <= j
    BY <1>2 DEF Turn, Min
  <1> QED BY <1>1, <1>3

\* An upload replaces one file, by what the mirror has.
LEMMA UploadFacts ==
    ASSUME TypeOK, NEW k, Upload(k)
    PROVE  /\ pc = "pushing" /\ k \in todo /\ k \in 1..Len(sections) /\ sections[k].path \in Paths
           /\ \A j \in todo : k <= j
           /\ \/ touched' = touched \ {sections[k].path}
              \/ touched' = touched /\ remote[sections[k].path] = pulled[sections[k].path]
           /\ remote' = [remote EXCEPT ![sections[k].path] = mirror[sections[k].path]]
           /\ remote' \in Files
  <1>1. Turn("pushing", k) /\ "pushing" \in Stages \ {"pulling"}
    BY DEF Upload, Stages
  <1>2. pc = "pushing" /\ k \in todo /\ k \in 1..Len(sections) /\ \A j \in todo : k <= j
    BY <1>1, TurnFacts
  <1>3. sections[k].path \in Paths
    BY <1>2, SectionTypes
  <1>4. /\ remote' = [remote EXCEPT ![sections[k].path] = mirror[sections[k].path]]
        /\ \/ touched' = touched \ {sections[k].path}
           \/ touched' = touched /\ remote[sections[k].path] = pulled[sections[k].path]
    BY DEF Upload, Refused, RemoteStamp
  <1> QED BY <1>2, <1>3, <1>4, Stored DEF Files

\* An rm removes what the section removes, or nothing.
LEMMA RmFacts ==
    ASSUME TypeOK, NEW stage \in {"removing", "moving"}, NEW k, Rm(stage, k)
    PROVE  /\ pc = stage /\ k \in todo /\ k \in 1..Len(sections)
           /\ Removes(sections[k]) \subseteq Paths
           /\ remote' \in Files
           /\ \A f \in Paths : remote'[f] = remote[f] \/ (f \in Removes(sections[k]) /\ remote'[f] = None)
           /\ ~ RmFails => \A f \in Removes(sections[k]) : remote'[f] = None
  <1>1. Turn(stage, k) /\ stage \in Stages \ {"pulling"}
    BY DEF Rm, Stages
  <1>2. pc = stage /\ k \in todo /\ k \in 1..Len(sections)
    BY <1>1, TurnFacts
  <1>3. Removes(sections[k]) \subseteq Paths
    BY <1>2, SectionTypes
  <1>4. CASE remote' = [f \in Paths |-> IF f \in Removes(sections[k]) THEN None ELSE remote[f]]
    <2>1. None \in Contents
      BY DEF Contents
    <2>2. remote' \in Files
      BY <1>4, <2>1, Stored DEF Files
    <2>3. \A f \in Paths : remote'[f] = (IF f \in Removes(sections[k]) THEN None ELSE remote[f])
      BY <1>4
    <2>4. \A f \in Paths : remote'[f] = remote[f] \/ (f \in Removes(sections[k]) /\ remote'[f] = None)
      BY <2>3
    <2>5. \A f \in Removes(sections[k]) : remote'[f] = None
      BY <1>3, <2>3
    <2> QED BY <1>2, <1>3, <2>2, <2>4, <2>5, Zenon
  <1>5. CASE RmFails /\ UNCHANGED remote
    <2>1. remote' \in Files
      BY <1>5, Stored
    <2>2. \A f \in Paths : remote'[f] = remote[f]
      BY <1>5
    <2> QED BY <1>2, <1>3, <1>5, <2>1, <2>2, Zenon
  <1> QED BY <1>4, <1>5 DEF Rm

LEMMA CallTypes ==
    ASSUME TypeOK, NEW patch \in BoundedSeq(Sections, MaxSections), Call(patch)
    PROVE  TypeOK' /\ \A k \in 1..Len(patch) : patch[k].path \in tracked' /\ Reads(patch[k]) \in tracked'
  <1>1. patch \in Seq(Sections) /\ Len(patch) \in Nat
    <2>1. PICK m \in 0..MaxSections : patch \in [1..m -> Sections]
      BY DEF BoundedSeq, SeqOf
    <2>2. m \in Nat
      BY PatchAssumption DEF PatchConstants
    <2> QED BY <2>1, <2>2
  <1>2. \A s \in ToSet(patch) : s.path \in Paths /\ Reads(s) \in Paths
    <2>1. \A s \in ToSet(patch) : s \in Sections
      BY <1>1 DEF ToSet
    <2> QED BY <2>1 DEF Sections, Reads
  <1>3. tracked' = tracked \cup UNION {{s.path, Reads(s)} : s \in ToSet(patch)}
    BY DEF Call
  <1>4. tracked' \subseteq Paths
    BY <1>2, <1>3 DEF TypeOK
  <1>5. \A k \in 1..Len(patch) : patch[k] \in ToSet(patch)
    BY <1>1 DEF ToSet
  <1>6. \A k \in 1..Len(patch) : patch[k].path \in tracked' /\ Reads(patch[k]) \in tracked'
    BY <1>3, <1>5
  <1>7. made' \in Nat /\ made' + Len(sections') <= MaxSections
    BY <1>1, PatchAssumption DEF Call, TypeOK, PatchConstants
  <1>8. TypeOK'
    BY <1>1, <1>4, <1>7 DEF Call, TypeOK, Stages
  <1> QED BY <1>6, <1>8

LEMMA PullTypes ==
    ASSUME TypeOK, NEW f \in Paths, Pull(f)
    PROVE  TypeOK'
  <1>1. Text(remote[f]) \in Contents
    BY Stored, TextTypes DEF Files, Contents
  <1>2. mirror' \in Files /\ pulled' \in Files /\ saw' \in Files /\ remote' \in Files
    BY <1>1, Stored DEF Pull, Record, RemoteStamp, Files
  <1> QED BY <1>2 DEF Pull, TypeOK, Files, Contents

LEMMA ApplyFacts ==
    ASSUME TypeOK, NEW k, Apply(k)
    PROVE  /\ pc = "applying" /\ k \in todo /\ k \in 1..Len(sections) /\ sections[k].path \in Paths
           /\ \A j \in todo : k <= j
           /\ mirror' = [mirror EXCEPT ![sections[k].path] =
                                  NewText(sections[k], made + k, mirror[Reads(sections[k])])]
  <1>1. Turn("applying", k) /\ "applying" \in Stages \ {"pulling"}
    BY DEF Apply, Stages
  <1>2. pc = "applying" /\ k \in todo /\ k \in 1..Len(sections) /\ \A j \in todo : k <= j
    BY <1>1, TurnFacts
  <1>3. sections[k].path \in Paths
    BY <1>2, SectionTypes
  <1> QED BY <1>2, <1>3 DEF Apply, TextFor

LEMMA OthersTypes ==
    ASSUME TypeOK, NEW f \in Paths, OthersEdit(f)
    PROVE  /\ TypeOK' /\ remote'[f] = Append(Text(remote[f]), -(edits + 1)) /\ remote'[f] \in Texts
           /\ \A g \in Paths \ {f} : remote'[g] = remote[g]
           /\ -(edits + 1) \in OthersMarks /\ -(edits + 1) \in Fresh
           /\ Fresh' \subseteq Fresh /\ -(edits + 1) \notin Fresh'
  <1>1. /\ -(edits + 1) \in OthersMarks /\ -(edits + 1) \in -MaxEdits..MaxSections
        /\ -(edits + 1) \in Fresh /\ Fresh' \subseteq Fresh /\ -(edits + 1) \notin Fresh'
        /\ edits' \in 0..MaxEdits
    BY PatchAssumption DEF OthersEdit, TypeOK, PatchConstants, OthersMarks, Fresh
  <1>2. Text(remote[f]) \in Texts
    BY Stored, TextTypes DEF Files
  <1>3. Append(Text(remote[f]), -(edits + 1)) \in Texts
    BY <1>1, <1>2, AppendTypes
  <1>4. remote' = [remote EXCEPT ![f] = Append(Text(remote[f]), -(edits + 1))]
    BY DEF OthersEdit
  <1>5. remote' \in Files
    BY <1>3, <1>4, Stored DEF Files, Contents
  <1>6. TypeOK'
    BY <1>1, <1>5 DEF OthersEdit, TypeOK, Files, Contents, callVars
  <1> QED BY <1>1, <1>3, <1>4, <1>6, Stored DEF Files

LEMMA FailFacts ==
    ASSUME TypeOK, Fail
    PROVE  /\ remote' \in Files /\ pc' = "failed" /\ todo' = {}
           /\ pc \in {"pulling", "applying", "pushing", "removing", "moving"}
           /\ UNCHANGED <<mirror, pulled, tracked, sections, made, edits, saw>> /\ touched' \subseteq touched
           /\ \/ UNCHANGED <<remote, touched>>
              \/ \E k : Upload(k) \/ ((Rm("removing", k) \/ Rm("moving", k)) /\ UNCHANGED touched)
  <1>1. remote' \in Files /\ touched' \subseteq touched
    <2>1. CASE UNCHANGED <<remote, touched>>
      BY <2>1, Stored
    <2>2. CASE \E k \in todo : Upload(k) \/ ((Rm("removing", k) \/ Rm("moving", k)) /\ UNCHANGED touched)
      BY <2>2, UploadFacts, RmFacts
    <2> QED BY <2>1, <2>2 DEF Fail
  <1> QED BY <1>1 DEF Fail

LEMMA ProceedFacts ==
    ASSUME TypeOK, Proceed
    PROVE  /\ \/ pc = "pulling" /\ pc' = "applying"
              \/ pc = "applying" /\ pc' = "pushing"
              \/ pc = "pushing" /\ pc' = "removing"
              \/ pc = "removing" /\ pc' = "moving"
              \/ pc = "moving" /\ pc' = "done"
           /\ todo = {} /\ todo' = Concerned(pc') /\ todo' \subseteq 1..Len(sections)
           /\ UNCHANGED <<remote, mirror, pulled, tracked, sections, made, edits, saw, touched>>
  <1>1. Concerned(pc') \subseteq 1..Len(sections)
    BY DEF Concerned
  <1> QED BY <1>1, Stages5 DEF Proceed, fileVars, historyVars

LEMMA RestTypes ==
    ASSUME TypeOK, TodoInv, NEW k, Push(k) \/ Delete(k) \/ Move(k)
    PROVE  TypeOK'
  <1>1. CASE Push(k)
    <2>1. Upload(k) /\ pulled' \in {pulled, [pulled EXCEPT ![sections[k].path] = mirror[sections[k].path]]}
      BY <1>1 DEF Push, Record
    <2>2. remote' \in Files /\ pulled' \in Files /\ touched' \subseteq touched
      BY <2>1, UploadFacts, Stored DEF Files
    <2> QED BY <1>1, <2>2 DEF Push, TypeOK, Files, Contents
  <1>2. CASE Delete(k)
    <2>1. k \in 1..Len(sections) /\ remote' \in Files
      BY <1>2, RmFacts DEF Delete
    <2>2. mirror' \in Files /\ pulled' \in Files
      BY <1>2, <2>1, Stored DEF Delete, Forget, Files, Contents
    <2>3. tracked' \subseteq Paths
      BY <1>2 DEF Delete, Forget, TypeOK
    <2> QED BY <1>2, <2>1, <2>2, <2>3 DEF Delete, TypeOK, Files, Contents, historyVars
  <1>3. CASE Move(k)
    <2>1. k \in 1..Len(sections) /\ k \in todo /\ pc = "moving" /\ remote' \in Files
      BY <1>3, RmFacts DEF Move
    <2>2. pulled' \in Files
      BY <1>3, <2>1, Stored DEF Move, Forget, Files, Contents
    <2>3. mirror' \in Files
      <3>1. CASE mirror[sections[k].from] = None \/ sections[k].from = sections[k].path
        BY <1>3, <3>1, Stored DEF Move
      <3>2. CASE ~ (mirror[sections[k].from] = None \/ sections[k].from = sections[k].path)
        <4>1. mirror[sections[k].from] \in Contents
          <5>1. sections[k].from \in Paths
            BY <2>1, SectionTypes DEF Concerned, TodoInv
          <5> QED BY <5>1, Stored DEF Files
        <4> QED BY <1>3, <3>2, <4>1, Stored DEF Move, Files, Contents
      <3> QED BY <3>1, <3>2
    <2>4. tracked' \subseteq Paths
      BY <1>3 DEF Move, Forget, TypeOK
    <2> QED BY <1>3, <2>1, <2>2, <2>3, <2>4 DEF Move, TypeOK, Files, Contents, historyVars
  <1> QED BY <1>1, <1>2, <1>3

-----------------------------------------------------------------------------
(* The invariant, one action after the other. *)

\* While a call works on its sections, what they mean stays the same.
LEMMA SamePatch ==
    ASSUME UNCHANGED <<saw, sections, made>>
    PROVE  /\ After' = After /\ Meant' = Meant /\ Straight' = Straight
           /\ \A k : Removed(k)' = Removed(k) /\ Written(k)' = Written(k) /\ Kept(k)' = Kept(k)
           /\ \A stage : Concerned(stage)' = Concerned(stage)
  <1>1. After' = After
    BY DEF After, Carried
  <1>2. Meant' = Meant
    BY <1>1 DEF Meant
  <1>3. \A k : Removed(k)' = Removed(k) /\ Written(k)' = Written(k) /\ Kept(k)' = Kept(k)
    BY DEF Removed, Written, Kept
  <1>4. \A stage : Concerned(stage)' = Concerned(stage)
    BY DEF Concerned
  <1>5. Straight' = Straight
    BY DEF Straight
  <1> QED BY <1>1, <1>2, <1>3, <1>4, <1>5

LEMMA EditedMore ==
    ASSUME NEW earlier \in Texts, NEW later \in Texts, NEW mark \in OthersMarks,
           later = earlier \/ Edited(earlier, later)
    PROVE  Edited(earlier, Append(later, mark))
  <1> DEFINE more == Append(later, mark)
  <1>1. /\ Len(later) \in Nat /\ Len(earlier) \in Nat /\ Len(more) = Len(later) + 1
        /\ \A n \in 1..Len(later) : more[n] = later[n]
        /\ more[Len(later) + 1] = mark
    BY DEF Texts
  <1>2. /\ Len(earlier) <= Len(later)
        /\ \A n \in 1..Len(earlier) : later[n] = earlier[n]
        /\ \A n \in Len(earlier) + 1..Len(later) : later[n] \in OthersMarks
    <2>1. CASE later = earlier
      BY <1>1, <2>1
    <2>2. CASE Edited(earlier, later)
      <3>1. SubSeq(later, 1, Len(earlier)) = earlier /\ Len(later) > Len(earlier)
        BY <2>2 DEF Edited
      <3>2. \A n \in 1..Len(earlier) : SubSeq(later, 1, Len(earlier))[n] = later[n]
        BY <1>1, <3>1 DEF Texts
      <3> QED BY <1>1, <2>2, <3>1, <3>2 DEF Edited
    <2> QED BY <2>1, <2>2
  <1>3. SubSeq(more, 1, Len(earlier)) = earlier
    <2>1. more \in Seq(Paths \cup -MaxEdits..MaxSections \cup OthersMarks)
      BY DEF Texts
    <2>2. /\ SubSeq(more, 1, Len(earlier)) \in Seq(Paths \cup -MaxEdits..MaxSections \cup OthersMarks)
          /\ Len(SubSeq(more, 1, Len(earlier))) = Len(earlier)
          /\ \A n \in 1..Len(earlier) : SubSeq(more, 1, Len(earlier))[n] = more[n]
      BY <1>1, <1>2, <2>1
    <2> HIDE DEF more
    <2> QED BY <1>1, <1>2, <2>2 DEF Texts
  <1>4. \A n \in Len(earlier) + 1..Len(more) : more[n] \in OthersMarks
    BY <1>1, <1>2
  <1> HIDE DEF more
  <1> QED BY <1>1, <1>2, <1>3, <1>4 DEF Edited

LEMMA CallInv ==
    ASSUME TypeOK, PatchInv, NEW patch \in BoundedSeq(Sections, MaxSections), Call(patch)
    PROVE  PatchInv'
  <1>1. /\ pc' = "pulling" /\ touched' = {} /\ saw' = remote /\ todo' = tracked' /\ sections' = patch
        /\ UNCHANGED <<remote, mirror, pulled, edits>>
    BY DEF Call
  <1>2. AgedInv'
    BY <1>1 DEF PatchInv, AgedInv, Aged, Fresh
  <1>3. TodoInv'
    BY <1>1, CallTypes DEF TodoInv
  <1>4. StandingInv' /\ PulledInv'
    BY <1>1 DEF StandingInv, PulledInv, Base, Pushed
  <1> QED BY <1>1, <1>2, <1>3, <1>4 DEF PatchInv, MirrorInv, PushedInv, AllPushed, FailedInv

LEMMA PullInv ==
    ASSUME TypeOK, PatchInv, NEW f \in Paths, Pull(f)
    PROVE  PatchInv'
  <1>1. /\ pc = "pulling" /\ pc' = "pulling" /\ todo' = todo \ {f} /\ touched' = touched \ {f}
        /\ saw' = [saw EXCEPT ![f] = remote[f]]
        /\ mirror' = [mirror EXCEPT ![f] = Text(remote[f])]
        /\ \/ pulled' = pulled
           \/ remote[f] # None /\ pulled' = [pulled EXCEPT ![f] = remote[f]]
        /\ UNCHANGED <<remote, tracked, sections, made, edits>>
    BY DEF Pull, Record, RemoteStamp
  <1>2. /\ saw'[f] = remote[f] /\ mirror'[f] = Text(remote[f])
        /\ pulled'[f] \in {pulled[f], remote[f]}
        /\ \A g \in Paths \ {f} : saw'[g] = saw[g] /\ mirror'[g] = mirror[g] /\ pulled'[g] = pulled[g]
    BY <1>1, Stored DEF Files
  <1>3. AgedInv'
    <2>1. Aged(remote[f]) => Aged(Text(remote[f]))
      BY DEF Aged, Text
    <2> QED BY <1>1, <1>2, <2>1 DEF PatchInv, AgedInv, Aged, Fresh
  <1>4. TodoInv'
    BY <1>1 DEF PatchInv, TodoInv, Writing
  <1>5. \A g \in Paths : Base(g) = saw[g] /\ Base(g)' = saw'[g]
    BY <1>1 DEF Base, Pushed
  <1>6. StandingInv'
    BY <1>1, <1>2, <1>5 DEF PatchInv, StandingInv, Writing
  <1>7. PulledInv'
    <2>1. Text(remote[f]) # None
      BY Stored, TextTypes DEF Files
    <2>2. tracked \subseteq Paths
      BY DEF TypeOK
    <2> QED BY <1>1, <1>2, <1>5, <2>1, <2>2 DEF PatchInv, PulledInv, Writing
  <1> QED BY <1>1, <1>3, <1>4, <1>6, <1>7 DEF PatchInv, MirrorInv, PushedInv, AllPushed, FailedInv

LEMMA ApplyInv ==
    ASSUME TypeOK, PatchInv, NEW k, Apply(k)
    PROVE  PatchInv'
  <1> DEFINE s == sections[k]
             new == NewText(s, made + k, mirror[Reads(s)])
  <1>1. /\ pc = "applying" /\ pc' = "applying" /\ todo' = todo \ {k}
        /\ UNCHANGED <<remote, pulled, tracked, sections, made, edits, saw, touched>>
    BY ApplyFacts DEF Apply, historyVars
  <1>2. k \in todo /\ k \in 1..Len(sections) /\ s.path \in Paths /\ (\A j \in todo : k <= j)
    BY ApplyFacts
  <1>3. Kept(k) /\ todo \subseteq Concerned("applying")
    BY <1>1, <1>2 DEF PatchInv, TodoInv, Concerned, Kept
  <1>4. /\ mirror'[s.path] = new
        /\ \A g \in Paths \ {s.path} : mirror'[g] = mirror[g]
    BY <1>2, ApplyFacts, Stored DEF Files
  <1>5. Reads(s) \in tracked /\ s.path \in tracked /\ Reads(s) \in Paths
    BY <1>1, <1>2, SectionTypes DEF PatchInv, TodoInv, Writing
  <1>6. mirror[Reads(s)] \in Texts
    BY <1>1, <1>5, Stored DEF PatchInv, PulledInv, Writing, Files, Contents
  <1>7. new \in Texts /\ new # None /\ (Aged(mirror[Reads(s)]) => Aged(new))
    BY <1>2, <1>3, <1>6, NewTextTypes
  <1> HIDE DEF new
  <1>8. AgedInv'
    BY <1>1, <1>4, <1>5, <1>7 DEF PatchInv, AgedInv, Aged, Fresh
  <1>9. TodoInv'
    BY <1>1, <1>3, SamePatch DEF PatchInv, TodoInv, Writing
  <1>10. \A g \in Paths : Base(g) = saw[g] /\ Base(g)' = saw[g]
    BY <1>1 DEF Base, Pushed
  <1>11. StandingInv'
    BY <1>1, <1>10 DEF PatchInv, StandingInv, Writing
  <1>12. PulledInv'
    BY <1>1, <1>4, <1>7, <1>10 DEF PatchInv, PulledInv, Writing, TypeOK
  <1>13. ASSUME Straight PROVE \E j \in 0..Len(sections) : AppliedUpTo(j)' /\ MirrorIs(j)'
    <2>1. PICK j \in 0..Len(sections) : AppliedUpTo(j) /\ MirrorIs(j)
      BY <1>1, <1>13 DEF PatchInv, MirrorInv
    <2>2. Len(sections) \in Nat /\ j < k /\ j <= k - 1 /\ k - 1 \in 0..Len(sections) /\ k \in 0..Len(sections)
      BY <1>2, <2>1, Stored DEF AppliedUpTo
    <2>3. \A i \in j + 1..k - 1 : ~ Kept(i)
      BY <1>2, <2>1, <2>2 DEF AppliedUpTo, Concerned, Kept
    <2>4. MirrorIs(k - 1)
      <3>1. ASSUME NEW f \in tracked \ Removed(k - 1)
            PROVE  mirror[f] = Text(After[k - 1][f])
        <4>1. f \in Paths
          BY DEF TypeOK
        <4>2. After[k - 1][f] = After[j][f] /\ f \notin Removed(j)
          BY <1>13, <2>2, <2>3, <4>1, DeletesOnly
        <4> QED BY <2>1, <4>2 DEF MirrorIs
      <3> QED BY <3>1 DEF MirrorIs
    <2>5. AppliedUpTo(k)'
      <3>1. todo = {i \in Concerned("applying") : i > j} /\ Concerned("applying") \subseteq Nat
        BY <2>1 DEF AppliedUpTo, Concerned
      <3>2. todo \ {k} = {i \in Concerned("applying") : i > k}
        BY <1>2, <2>2, <3>1
      <3> QED BY <1>1, <3>2, SamePatch DEF AppliedUpTo
    <2>6. MirrorIs(k)'
      <3>1. ASSUME NEW f \in tracked \ Removed(k)
            PROVE  mirror'[f] = Text(After[k][f])
        <4>1. f \in Paths
          BY DEF TypeOK
        <4>2. /\ Removed(k) = Removed(k - 1) \cup Removes(s)
              /\ Reads(s) \notin Removed(k - 1) /\ s.path \notin Removed(k - 1)
          BY <1>2, <1>13, OneMore
        <4>3. After[k - 1] \in Files /\ After[k] = Carried(After[k - 1], k)
          BY <1>2, <2>2, AfterFacts
        <4>4. After[k][f] = IF f = s.path THEN NewText(s, made + k, Text(After[k - 1][Reads(s)]))
                            ELSE After[k - 1][f]
          BY <1>2, <1>3, <1>13, <4>1, <4>2, <4>3, CarriedAt
        <4>5. mirror[Reads(s)] = Text(After[k - 1][Reads(s)])
          BY <1>5, <2>4, <4>2 DEF MirrorIs
        <4>6. f # s.path => mirror[f] = Text(After[k - 1][f])
          BY <2>4, <4>2 DEF MirrorIs
        <4>7. Text(new) = new
          BY <1>7 DEF Text
        <4> QED BY <1>4, <4>1, <4>4, <4>5, <4>6, <4>7 DEF new
      <3> QED BY <1>1, <3>1, SamePatch DEF MirrorIs
    <2> QED BY <2>2, <2>5, <2>6
  <1>14. MirrorInv'
    BY <1>1, <1>13, SamePatch DEF MirrorInv
  <1> QED BY <1>1, <1>8, <1>9, <1>11, <1>12, <1>14 DEF PatchInv, PushedInv, AllPushed, FailedInv

\* A file that is uploaded is as the call found it, or left it, or what others made of it
\* is written over.
LEMMA UploadSafe ==
    ASSUME TypeOK, PatchInv, NEW k, Upload(k)
    PROVE  /\ sections[k].path \notin touched' /\ sections[k].path \in tracked
           /\ touched' \subseteq touched /\ touched \subseteq touched' \cup {sections[k].path}
           /\ mirror[sections[k].path] \in Texts
           /\ Kept(k)
  <1> DEFINE f == sections[k].path
  <1>1. pc = "pushing" /\ k \in todo /\ k \in 1..Len(sections) /\ f \in Paths
    BY UploadFacts
  <1>2. \/ touched' = touched \ {f}
        \/ touched' = touched /\ remote[f] = pulled[f]
    BY UploadFacts
  <1>3. f \notin touched'
    BY <1>1, <1>2 DEF PatchInv, StandingInv, Writing
  <1>4. f \in tracked
    BY <1>1 DEF PatchInv, TodoInv, Writing
  <1>5. mirror[f] \in Texts
    BY <1>1, <1>4, Stored DEF PatchInv, PulledInv, Writing, Files, Contents
  <1>6. Kept(k)
    BY <1>1 DEF PatchInv, TodoInv, Concerned, Kept
  <1> QED BY <1>2, <1>3, <1>4, <1>5, <1>6

LEMMA PushKeeps ==
    ASSUME TypeOK, PatchInv, NEW k, Push(k)
    PROVE  PatchInv'
  <1> DEFINE f == sections[k].path
  <1>1. /\ pc = "pushing" /\ pc' = "pushing" /\ todo' = todo \ {k} /\ Upload(k)
        /\ UNCHANGED <<mirror, tracked, sections, made, edits, saw>>
        /\ pulled' \in {pulled, [pulled EXCEPT ![f] = mirror[f]]}
    BY UploadFacts DEF Push, Record
  <1>2. k \in todo /\ k \in 1..Len(sections) /\ f \in Paths /\ remote' = [remote EXCEPT ![f] = mirror[f]]
    BY <1>1, UploadFacts
  <1>3. /\ f \notin touched' /\ f \in tracked /\ mirror[f] # None /\ Kept(k)
        /\ \A g \in Paths \ {f} : g \in touched' <=> g \in touched
    <2>1. /\ mirror[f] \in Texts /\ f \notin touched' /\ f \in tracked /\ Kept(k)
          /\ touched' \subseteq touched /\ touched \subseteq touched' \cup {f}
      BY <1>1, UploadSafe
    <2> QED BY <2>1, PatchAssumption DEF PatchConstants
  <1>4. /\ remote'[f] = mirror[f] /\ pulled'[f] \in {pulled[f], mirror[f]}
        /\ \A g \in Paths \ {f} : remote'[g] = remote[g] /\ pulled'[g] = pulled[g]
    BY <1>1, <1>2, Stored DEF Files
  <1>5. \A stage : Concerned(stage)' = Concerned(stage)
    BY <1>1, SamePatch
  <1>6. k \in Concerned("pushing")
    BY <1>2, <1>3 DEF Concerned, Kept
  <1>7. Pushed' = Pushed \cup {f}
    BY <1>1, <1>5, <1>6 DEF Pushed
  <1>8. Base(f)' = mirror[f] /\ \A g \in Paths \ {f} : Base(g)' = Base(g)
    BY <1>1, <1>7 DEF Base
  <1>9. AgedInv'
    <2> SUFFICES ASSUME NEW g \in Paths
                 PROVE  Aged(remote[g])' /\ Aged(mirror[g])' /\ Aged(pulled[g])'
      BY DEF AgedInv
    <2>1. /\ Aged(remote[g]) /\ Aged(mirror[g]) /\ Aged(pulled[g]) /\ Aged(mirror[f])
          /\ mirror' = mirror /\ edits' = edits
      BY <1>1, <1>2 DEF PatchInv, AgedInv
    <2>2. CASE g = f
      BY <1>4, <2>1, <2>2 DEF Aged, Fresh
    <2>3. CASE g # f
      BY <1>4, <2>1, <2>3 DEF Aged, Fresh
    <2> QED BY <2>2, <2>3
  <1>10. TodoInv'
    BY <1>1, <1>5 DEF PatchInv, TodoInv, Writing
  <1>11. StandingInv'
    BY <1>1, <1>3, <1>4, <1>8 DEF PatchInv, StandingInv, Writing
  <1>12. PulledInv'
    BY <1>1, <1>3, <1>4, <1>8 DEF PatchInv, PulledInv, Writing, TypeOK
  <1>13. MirrorInv'
    BY <1>1, SamePatch DEF PatchInv, MirrorInv, MirrorIs
  <1> QED BY <1>1, <1>9, <1>10, <1>11, <1>12, <1>13 DEF PatchInv, PushedInv, AllPushed, FailedInv

\* What is removed is meant to be, so what is meant to stay is as it was.
LEMMA RmSafe ==
    ASSUME TypeOK, PatchInv, Straight, NEW stage \in {"removing", "moving"}, NEW k, Rm(stage, k),
           NEW f \in Paths \ Removed(Len(sections))
    PROVE  remote'[f] = remote[f]
  <1>1. k \in 1..Len(sections) /\ \A g \in Paths : g \notin Removes(sections[k]) => remote'[g] = remote[g]
    BY RmFacts
  <1>2. f \notin Removes(sections[k])
    BY <1>1 DEF Removed
  <1> QED BY <1>1, <1>2

LEMMA RemovalKeeps ==
    ASSUME TypeOK, PatchInv, NEW k, Delete(k) \/ Move(k)
    PROVE  PatchInv'
  <1> DEFINE s == sections[k]
  <1>1. /\ pc \in {"removing", "moving"} /\ pc' = pc /\ k \in todo /\ k \in 1..Len(sections)
        /\ Rm(pc, k) /\ todo' = todo \ {k} /\ Forget(k)
        /\ UNCHANGED <<sections, made, edits, saw, touched>>
        /\ remote' \in Files
    BY RmFacts DEF Delete, Move, historyVars
  <1>2. /\ \A f \in Paths : remote'[f] = remote[f] \/ (f \in Removes(s) /\ remote'[f] = None)
        /\ ~ RmFails => \A f \in Removes(s) : remote'[f] = None
    BY <1>1, RmFacts
  <1>3. \A f \in Paths : pulled'[f] \in {None, pulled[f]}
    BY <1>1 DEF Forget
  <1>4. \A f \in Paths : mirror'[f] = None \/ \E g \in Paths : mirror'[f] = mirror[g]
    <2>1. CASE Delete(k)
      BY <2>1, Stored DEF Delete, Files
    <2>2. CASE Move(k)
      <3>1. k \in Concerned("moving")
        BY <1>1, <2>2 DEF PatchInv, TodoInv, Move, Rm, Turn
      <3>2. s.from \in Paths /\ s.path \in Paths
        BY <3>1, <1>1, SectionTypes DEF Concerned
      <3>3. CASE mirror' = mirror
        BY <3>3
      <3>4. CASE mirror' = [mirror EXCEPT ![s.path] = mirror[s.from], ![s.from] = None]
        BY <3>2, <3>4, Stored DEF Files
      <3> QED BY <2>2, <3>3, <3>4 DEF Move
    <2> QED BY <2>1, <2>2
  <1>5. AgedInv'
    <2>1. Fresh' = Fresh /\ Aged(None)
      BY <1>1 DEF Fresh, Aged
    <2>2. ASSUME NEW f \in Paths
          PROVE  Aged(remote[f])' /\ Aged(mirror[f])' /\ Aged(pulled[f])'
      <3>1. Aged(remote'[f])
        BY <1>2, <2>1 DEF PatchInv, AgedInv
      <3>2. Aged(mirror'[f])
        BY <1>4, <2>1 DEF PatchInv, AgedInv
      <3>3. Aged(pulled'[f])
        BY <1>3, <2>1 DEF PatchInv, AgedInv
      <3> QED BY <2>1, <3>1, <3>2, <3>3 DEF Aged
    <2> QED BY <2>2 DEF AgedInv
  <1>6. TodoInv' /\ StandingInv' /\ PulledInv' /\ MirrorInv' /\ FailedInv'
    BY <1>1, SamePatch DEF PatchInv, TodoInv, Writing, StandingInv, PulledInv, MirrorInv, FailedInv
  <1>7. PushedInv'
    <2> SUFFICES ASSUME Straight
                 PROVE  /\ \A f \in Paths \ Removed(Len(sections)) :
                              IF f \in touched THEN remote'[f] # None /\ Edited(Text(Meant[f]), remote'[f]) ELSE remote'[f] = Meant[f]
                        /\ ~ RmFails => \A f \in Gone' \ touched : remote'[f] = None
      BY <1>1, SamePatch DEF PushedInv
    <2>1. \A f \in Paths \ Removed(Len(sections)) :
              IF f \in touched THEN remote'[f] # None /\ Edited(Text(Meant[f]), remote'[f]) ELSE remote'[f] = Meant[f]
      BY <1>1, RmSafe DEF PatchInv, PushedInv, AllPushed
    <2>2. Gone' \subseteq Gone \cup Removes(s)
      BY <1>1, SamePatch DEF Gone, Removes
    <2>3. Gone \subseteq Paths
      BY SectionTypes DEF Gone
    <2>4. ASSUME ~ RmFails, NEW f \in Gone' \ touched
          PROVE  remote'[f] = None
      <3>1. CASE f \in Removes(s)
        BY <1>2, <2>4, <3>1
      <3>2. CASE f \in Gone
        <4>1. remote[f] = None
          BY <1>1, <2>4, <3>2 DEF PatchInv, PushedInv, AllPushed
        <4> QED BY <1>2, <2>3, <3>2, <4>1
      <3> QED BY <2>2, <2>4, <3>1, <3>2
    <2> QED BY <2>1, <2>4
  <1> QED BY <1>5, <1>6, <1>7 DEF PatchInv

\* After the last push, each file that stays is as the sections mean.
LEMMA AllIsPushed ==
    ASSUME TypeOK, PatchInv, pc = "pushing", todo = {}, Straight, NEW f \in Paths \ Removed(Len(sections))
    PROVE  IF f \in touched THEN remote[f] # None /\ Edited(Text(Meant[f]), remote[f]) ELSE remote[f] = Meant[f]
  <1>1. Len(sections) \in 0..Len(sections)
    BY Stored
  <1>2. Pushed = Written(Len(sections))
    BY DEF Pushed, Concerned, Written, Kept
  <1>3. /\ f \in Written(Len(sections)) => Meant[f] # None
        /\ f \notin Written(Len(sections)) => Meant[f] = saw[f]
    BY <1>1, WhatIsMeant DEF Meant
  <1>4. CASE f \in Written(Len(sections))
    <2>1. f \in tracked
      BY <1>4 DEF PatchInv, TodoInv, Writing, Written
    <2>2. mirror[f] = Text(Meant[f])
      BY <2>1 DEF PatchInv, MirrorInv, MirrorIs, Meant
    <2>3. Text(Meant[f]) = Meant[f]
      BY <1>3, <1>4 DEF Text
    <2>4. Base(f) = Meant[f]
      BY <1>2, <1>4, <2>2, <2>3 DEF Base
    <2> QED BY <2>4 DEF PatchInv, StandingInv, Writing
  <1>5. CASE f \notin Written(Len(sections))
    <2>1. Base(f) = Meant[f]
      BY <1>2, <1>3, <1>5 DEF Base
    <2> QED BY <2>1 DEF PatchInv, StandingInv, Writing
  <1> QED BY <1>4, <1>5

LEMMA ProceedInv ==
    ASSUME TypeOK, PatchInv, Proceed
    PROVE  PatchInv'
  <1>1. /\ todo = {} /\ todo' = Concerned(pc')
        /\ UNCHANGED <<remote, mirror, pulled, tracked, sections, made, edits, saw, touched>>
    BY ProceedFacts
  <1>2. AgedInv'
    BY <1>1 DEF PatchInv, AgedInv, Aged, Fresh
  <1>3. /\ \A stage : Concerned(stage)' = Concerned(stage)
        /\ After' = After /\ Meant' = Meant /\ Straight' = Straight
        /\ \A k : Removed(k)' = Removed(k)
    BY <1>1, SamePatch
  <1>4. CASE pc = "pulling" /\ pc' = "applying"
    <2>1. \A f \in Paths : Base(f) = saw[f] /\ Base(f)' = saw[f]
      BY <1>1, <1>4 DEF Base, Pushed
    <2>2. TodoInv' /\ StandingInv' /\ PulledInv'
      BY <1>1, <1>3, <1>4, <2>1 DEF PatchInv, TodoInv, StandingInv, PulledInv, Writing, TypeOK
    <2>3. ASSUME Straight PROVE AppliedUpTo(0)' /\ MirrorIs(0)' /\ 0 \in 0..Len(sections)
      <3>1. AppliedUpTo(0)'
        BY <1>1, <1>3, <1>4 DEF AppliedUpTo, Concerned
      <3>2. \A f \in tracked : mirror[f] = Text(After[0][f])
        BY <1>1, <1>4, AfterFacts DEF PatchInv, PulledInv, Writing
      <3> QED BY <1>1, <1>3, <3>1, <3>2, Stored DEF MirrorIs
    <2> QED BY <1>1, <1>2, <1>3, <1>4, <2>2, <2>3
            DEF PatchInv, MirrorInv, PushedInv, AllPushed, FailedInv
  <1>5. CASE pc = "applying" /\ pc' = "pushing"
    <2>1. Pushed = {} /\ Pushed' = {}
      BY <1>1, <1>3, <1>5 DEF Pushed
    <2>2. \A f \in Paths : Base(f) = saw[f] /\ Base(f)' = saw[f]
      BY <1>1, <2>1 DEF Base
    <2>3. TodoInv' /\ StandingInv' /\ PulledInv'
      BY <1>1, <1>3, <1>5, <2>2 DEF PatchInv, TodoInv, StandingInv, PulledInv, Writing, TypeOK
    <2>4. ASSUME Straight PROVE MirrorIs(Len(sections))
      <3>1. PICK j \in 0..Len(sections) : AppliedUpTo(j) /\ MirrorIs(j)
        BY <1>5, <2>4 DEF PatchInv, MirrorInv
      <3>2. Len(sections) \in 0..Len(sections) /\ j <= Len(sections)
        BY Stored
      <3>3. \A i \in j + 1..Len(sections) : ~ Kept(i)
        BY <1>1, <3>1, <3>2 DEF AppliedUpTo, Concerned, Kept
      <3>4. ASSUME NEW f \in tracked \ Removed(Len(sections))
            PROVE  mirror[f] = Text(After[Len(sections)][f])
        <4>1. f \in Paths
          BY DEF TypeOK
        <4>2. After[Len(sections)][f] = After[j][f] /\ f \notin Removed(j)
          BY <2>4, <3>2, <3>3, <4>1, DeletesOnly
        <4> QED BY <3>1, <4>2 DEF MirrorIs
      <3> QED BY <3>4 DEF MirrorIs
    <2> QED BY <1>1, <1>2, <1>3, <1>5, <2>3, <2>4
            DEF PatchInv, MirrorInv, MirrorIs, PushedInv, AllPushed, FailedInv
  <1>6. CASE pc = "pushing" /\ pc' = "removing"
    <2>1. Gone' = {}
      BY <1>1, <1>3, <1>6 DEF Gone, Concerned, Kept
    <2>2. PushedInv'
      BY <1>1, <1>3, <1>6, <2>1, AllIsPushed DEF PushedInv
    <2> QED BY <1>1, <1>2, <1>3, <1>6, <2>2
            DEF PatchInv, TodoInv, StandingInv, PulledInv, Writing, MirrorInv, FailedInv
  <1>7. CASE \/ pc = "removing" /\ pc' = "moving"
             \/ pc = "moving" /\ pc' = "done"
    <2>1. Gone' \subseteq Gone
      BY <1>1, <1>3, <1>7 DEF Gone, Concerned, Kept, Removes
    <2>2. PushedInv'
      BY <1>1, <1>3, <1>7, <2>1 DEF PatchInv, PushedInv, AllPushed
    <2> QED BY <1>1, <1>2, <1>3, <1>7, <2>2
            DEF PatchInv, TodoInv, StandingInv, PulledInv, Writing, MirrorInv, FailedInv
  <1> QED BY <1>4, <1>5, <1>6, <1>7, ProceedFacts

\* Until the first removal nothing is missing, and each file that stays is as it was
\* or as it is meant.
LEMMA NothingMissing ==
    ASSUME TypeOK, PatchInv, Writing, Straight, NEW f \in Paths
    PROVE  /\ saw[f] # None => remote[f] # None
           /\ pc # "pulling" /\ f \notin touched /\ Meant[f] # None => remote[f] \in {saw[f], Meant[f]}
           /\ pc = "pulling" /\ f \notin touched => remote[f] = saw[f]
  <1>1. f \in Pushed => /\ pc = "pushing" /\ f \in tracked /\ mirror[f] # None
                        /\ Meant[f] # None => mirror[f] = Meant[f]
    <2> SUFFICES ASSUME f \in Pushed
                 PROVE  /\ pc = "pushing" /\ f \in tracked /\ mirror[f] # None
                        /\ Meant[f] # None => mirror[f] = Meant[f]
      OBVIOUS
    <2>1. pc = "pushing" /\ f \in tracked
      BY DEF Pushed, PatchInv, TodoInv, Concerned
    <2>2. mirror[f] # None
      BY <2>1 DEF PatchInv, PulledInv
    <2>3. ASSUME Meant[f] # None PROVE mirror[f] = Meant[f]
      <3>1. Len(sections) \in 0..Len(sections)
        BY Stored
      <3>2. f \notin Removed(Len(sections))
        BY <2>3, <3>1, WhatIsMeant DEF Meant
      <3>3. mirror[f] = Text(Meant[f])
        BY <2>1, <3>2 DEF PatchInv, MirrorInv, MirrorIs, Meant
      <3> QED BY <2>3, <3>3 DEF Text
    <2> QED BY <2>1, <2>2, <2>3
  <1>2. f \in touched => remote[f] # None
    BY DEF PatchInv, StandingInv
  <1>3. f \notin touched => remote[f] = Base(f)
    BY DEF PatchInv, StandingInv
  <1> QED BY <1>1, <1>2, <1>3 DEF Base

\* After the push all that stays is as it is meant.
LEMMA AllWritten ==
    ASSUME TypeOK, PatchInv, AllPushed, Straight, NEW f \in Paths \ touched, Meant[f] # None
    PROVE  remote[f] = Meant[f] /\ f \notin Removed(Len(sections))
  <1>1. Len(sections) \in 0..Len(sections)
    BY Stored
  <1>2. f \notin Removed(Len(sections))
    BY <1>1, WhatIsMeant DEF Meant
  <1> QED BY <1>2 DEF PatchInv, PushedInv

LEMMA FailInv ==
    ASSUME TypeOK, PatchInv, Fail
    PROVE  PatchInv'
  <1>1. /\ pc' = "failed" /\ todo' = {}
        /\ pc \in {"pulling", "applying", "pushing", "removing", "moving"}
        /\ UNCHANGED <<mirror, pulled, tracked, sections, made, edits, saw>> /\ touched' \subseteq touched
    BY FailFacts
  <1>2. /\ Meant' = Meant /\ Straight' = Straight
    BY <1>1, SamePatch
  <1>3. \/ UNCHANGED <<remote, touched>>
        \/ \E k : Upload(k) \/ ((Rm("removing", k) \/ Rm("moving", k)) /\ UNCHANGED touched)
    BY FailFacts
  <1>4. \A f \in Paths : remote'[f] \in {None, remote[f], mirror[f]}
    <2>1. ASSUME NEW k, Upload(k)
          PROVE  \A f \in Paths : remote'[f] \in {None, remote[f], mirror[f]}
      BY <2>1, UploadFacts, Stored DEF Files
    <2>2. ASSUME NEW k, Rm("removing", k) \/ Rm("moving", k)
          PROVE  \A f \in Paths : remote'[f] \in {None, remote[f], mirror[f]}
      BY <2>2, RmFacts
    <2> QED BY <1>3, <2>1, <2>2
  <1>5. AgedInv'
    <2>1. ASSUME NEW f \in Paths PROVE Aged(remote'[f]) /\ Fresh' = Fresh
      BY <1>1, <1>4 DEF PatchInv, AgedInv, Aged, Fresh
    <2> QED BY <1>1, <2>1 DEF PatchInv, AgedInv, Aged
  <1>6. ASSUME Straight
        PROVE  LET staying == {f \in Paths \ touched' : Meant[f] # None}
               IN  /\ \A f \in staying : remote'[f] \in {saw[f], Meant[f]}
                   /\ (\E f \in Paths : saw[f] # None /\ remote'[f] = None)
                         => \A f \in staying : remote'[f] = Meant[f]
    <2>1. CASE UNCHANGED <<remote, touched>> /\ Writing
      BY <1>6, <2>1, NothingMissing
    <2>2. CASE \E k : Upload(k)
      <3>1. PICK k : Upload(k)
        BY <2>2
      <3> DEFINE g == sections[k].path
      <3>2. /\ pc = "pushing" /\ g \in Paths /\ g \in tracked /\ mirror[g] \in Texts
            /\ touched \subseteq touched' \cup {g}
            /\ remote' = [remote EXCEPT ![g] = mirror[g]]
        BY <3>1, UploadFacts, UploadSafe
      <3>3. remote'[g] = mirror[g] /\ \A f \in Paths \ {g} : remote'[f] = remote[f]
        BY <3>2, Stored DEF Files
      <3>4. mirror[g] # None
        BY <3>2, PatchAssumption DEF PatchConstants
      <3>5. Meant[g] # None => mirror[g] = Meant[g]
        <4>1. Len(sections) \in 0..Len(sections)
          BY Stored
        <4>2. Meant[g] # None => g \notin Removed(Len(sections))
          BY <1>6, <3>2, <4>1, WhatIsMeant DEF Meant
        <4>3. Meant[g] # None => mirror[g] = Text(Meant[g])
          BY <1>6, <3>2, <4>2 DEF PatchInv, MirrorInv, MirrorIs, Meant
        <4> QED BY <4>3 DEF Text
      <3>6. \A f \in Paths : saw[f] # None => remote'[f] # None
        BY <1>6, <3>2, <3>3, <3>4, NothingMissing DEF Writing
      <3>7. \A f \in Paths \ touched' : Meant[f] # None => remote'[f] \in {saw[f], Meant[f]}
        BY <1>6, <3>2, <3>3, <3>5, NothingMissing DEF Writing
      <3> QED BY <3>6, <3>7
    <2>3. CASE /\ AllPushed /\ UNCHANGED touched
               /\ UNCHANGED remote \/ \E k : Rm("removing", k) \/ Rm("moving", k)
      <3>1. ASSUME NEW f \in Paths \ touched, Meant[f] # None
            PROVE  remote'[f] = Meant[f]
        BY <1>6, <2>3, <3>1, AllWritten, RmSafe
      <3> QED BY <2>3, <3>1
    <2>4. (\E k : Rm("removing", k) \/ Rm("moving", k)) => AllPushed
      BY RmFacts DEF AllPushed
    <2>5. Writing \/ AllPushed
      BY <1>1 DEF Writing, AllPushed
    <2>6. \/ UNCHANGED <<remote, touched>> /\ Writing
          \/ \E k : Upload(k)
          \/ /\ AllPushed /\ UNCHANGED touched
             /\ UNCHANGED remote \/ \E k : Rm("removing", k) \/ Rm("moving", k)
      BY <1>3, <2>4, <2>5
    <2> QED BY <2>1, <2>2, <2>3, <2>6, Zenon
  <1>7. FailedInv'
    BY <1>1, <1>2, <1>6 DEF FailedInv, RemovesLast
  <1> QED BY <1>1, <1>5, <1>7
          DEF PatchInv, TodoInv, Writing, StandingInv, PulledInv, MirrorInv, PushedInv, AllPushed

LEMMA OthersInv ==
    ASSUME TypeOK, PatchInv, NEW f \in Paths, OthersEdit(f)
    PROVE  PatchInv'
  <1> DEFINE mark == -(edits + 1)
  <1>1. /\ touched' = touched \cup {f}
        /\ UNCHANGED <<mirror, pulled, tracked, sections, made, pc, todo, saw>>
    BY DEF OthersEdit, callVars
  <1>2. /\ remote'[f] = Append(Text(remote[f]), mark) /\ remote'[f] \in Texts
        /\ \A g \in Paths \ {f} : remote'[g] = remote[g]
        /\ mark \in OthersMarks /\ mark \in Fresh /\ mark \notin Fresh' /\ Fresh' \subseteq Fresh
    BY OthersTypes
  <1> HIDE DEF mark
  <1>3. Text(remote[f]) \in Texts /\ (remote[f] # None => Text(remote[f]) = remote[f])
    BY Stored, TextTypes DEF Files
  <1>4. /\ Len(Text(remote[f])) \in Nat /\ Len(remote'[f]) = Len(Text(remote[f])) + 1
        /\ \A n \in 1..Len(Text(remote[f])) : remote'[f][n] = Text(remote[f])[n]
        /\ remote'[f][Len(remote'[f])] = mark
    BY <1>2, <1>3 DEF Texts
  <1>5. remote'[f] # None /\ remote'[f] # pulled[f]
    <2>1. remote'[f] # None
      BY <1>2, PatchAssumption DEF PatchConstants
    <2>2. Aged(pulled[f])
      BY DEF PatchInv, AgedInv
    <2>3. ~ Aged(remote'[f])
      BY <1>2, <1>4, <2>1 DEF Aged
    <2> QED BY <2>1, <2>2, <2>3
  <1>6. AgedInv'
    <2>1. \A text : Aged(text) => \A n \in 1..Len(text) : text = None \/ text[n] \notin Fresh'
      BY <1>2 DEF Aged
    <2>2. ASSUME NEW g \in Paths, NEW n \in 1..Len(remote'[g]), remote'[g] # None
          PROVE  remote'[g][n] \notin Fresh'
      <3>1. CASE g # f
        BY <1>2, <2>1, <2>2, <3>1 DEF PatchInv, AgedInv
      <3>2. CASE g = f
        <4>1. CASE n = Len(remote'[f])
          BY <1>2, <1>4, <3>2, <4>1
        <4>2. CASE n # Len(remote'[f])
          <5>1. n \in 1..Len(Text(remote[f])) /\ remote'[f][n] = Text(remote[f])[n]
            BY <1>4, <2>2, <3>2, <4>2
          <5>2. remote[f] # None
            BY <5>1 DEF Text
          <5>3. Aged(remote[f]) /\ Text(remote[f]) = remote[f]
            BY <5>2, <1>3 DEF PatchInv, AgedInv
          <5> QED BY <2>1, <3>2, <5>1, <5>2, <5>3
        <4> QED BY <4>1, <4>2
      <3> QED BY <3>1, <3>2
    <2>3. ASSUME NEW g \in Paths
          PROVE  Aged(mirror[g])' /\ Aged(pulled[g])' /\ Aged(remote[g])'
      <3>1. Aged(mirror[g]) /\ Aged(pulled[g])
        BY DEF PatchInv, AgedInv
      <3> QED BY <1>1, <2>1, <2>2, <3>1 DEF Aged
    <2> QED BY <2>3 DEF AgedInv
  <1>7. /\ \A stage : Concerned(stage)' = Concerned(stage)
        /\ After' = After /\ Meant' = Meant /\ Straight' = Straight
        /\ \A k : Removed(k)' = Removed(k)
    BY <1>1, SamePatch
  <1>8. Pushed' = Pushed /\ Gone' = Gone /\ (\A g : Base(g)' = Base(g))
    BY <1>1, <1>7 DEF Pushed, Gone, Base, Kept
  <1>9. TodoInv' /\ PulledInv' /\ MirrorInv'
    BY <1>1, <1>7, <1>8
       DEF PatchInv, TodoInv, Writing, PulledInv, MirrorInv, MirrorIs, AppliedUpTo
  <1>10. ASSUME NEW text \in Contents,
                IF f \in touched THEN Edited(Text(text), remote[f]) /\ remote[f] # None ELSE remote[f] = text
         PROVE  Edited(Text(text), remote'[f])
    <2>1. Text(text) \in Texts
      BY TextTypes
    <2>2. Text(remote[f]) = Text(text) \/ Edited(Text(text), Text(remote[f]))
      BY <1>3, <1>10
    <2> QED BY <1>2, <1>3, <2>1, <2>2, EditedMore
  <1>11. StandingInv'
    <2> SUFFICES ASSUME Writing, NEW g \in Paths
                 PROVE  IF g \in touched'
                        THEN remote'[g] \notin {None, pulled[g]} /\ Edited(Text(Base(g)), remote'[g])
                        ELSE remote'[g] = Base(g)
      BY <1>1, <1>8 DEF StandingInv, Writing
    <2>1. IF g \in touched
          THEN remote[g] \notin {None, pulled[g]} /\ Edited(Text(Base(g)), remote[g])
          ELSE remote[g] = Base(g)
      BY DEF PatchInv, StandingInv
    <2>2. CASE g = f
      <3>1. Base(f) \in Contents
        BY Stored DEF Base, Files
      <3>2. Edited(Text(Base(f)), remote'[f])
        BY <1>10, <2>1, <2>2, <3>1
      <3> QED BY <1>1, <1>5, <2>2, <3>2
    <2>3. CASE g # f
      BY <1>1, <1>2, <2>1, <2>3
    <2> QED BY <2>2, <2>3
  <1>12. PushedInv'
    <2> SUFFICES ASSUME AllPushed, Straight
                 PROVE  /\ \A g \in Paths \ Removed(Len(sections)) :
                              IF g \in touched' THEN remote'[g] # None /\ Edited(Text(Meant[g]), remote'[g])
                                                ELSE remote'[g] = Meant[g]
                        /\ ~ RmFails => \A g \in Gone \ touched' : remote'[g] = None
      BY <1>1, <1>7, <1>8 DEF PushedInv, AllPushed
    <2>1. ASSUME NEW g \in Paths \ Removed(Len(sections))
          PROVE  IF g \in touched' THEN remote'[g] # None /\ Edited(Text(Meant[g]), remote'[g]) ELSE remote'[g] = Meant[g]
      <3>1. IF g \in touched THEN remote[g] # None /\ Edited(Text(Meant[g]), remote[g]) ELSE remote[g] = Meant[g]
        BY DEF PatchInv, PushedInv
      <3>2. CASE g = f
        <4>1. Meant[f] \in Contents
          BY AfterFacts, Stored DEF Meant, Files
        <4>2. Edited(Text(Meant[f]), remote'[f])
          BY <1>10, <3>1, <3>2, <4>1
        <4> QED BY <1>1, <1>5, <3>2, <4>2
      <3>3. CASE g # f
        BY <1>1, <1>2, <3>1, <3>3
      <3> QED BY <3>2, <3>3
    <2>2. ASSUME ~ RmFails, NEW g \in Gone \ touched'
          PROVE  remote'[g] = None
      <3>1. g \in Paths \ {f} /\ g \in Gone \ touched
        BY <1>1, SectionTypes DEF Gone
      <3> QED BY <1>2, <2>2, <3>1 DEF PatchInv, PushedInv
    <2> QED BY <2>1, <2>2
  <1>13. FailedInv'
    <2> SUFFICES ASSUME pc = "failed", Straight
                 PROVE  LET staying == {g \in Paths \ touched' : Meant[g] # None}
                        IN  /\ \A g \in staying : remote'[g] \in {saw[g], Meant[g]}
                            /\ (\E g \in Paths : saw[g] # None /\ remote'[g] = None)
                                  => \A g \in staying : remote'[g] = Meant[g]
      BY <1>1, <1>7 DEF FailedInv, RemovesLast
    <2>1. LET staying == {g \in Paths \ touched : Meant[g] # None}
          IN  /\ \A g \in staying : remote[g] \in {saw[g], Meant[g]}
              /\ (\E g \in Paths : saw[g] # None /\ remote[g] = None)
                    => \A g \in staying : remote[g] = Meant[g]
      BY DEF PatchInv, FailedInv, RemovesLast
    <2> QED BY <1>1, <1>2, <1>5, <2>1
  <1> QED BY <1>6, <1>9, <1>11, <1>12, <1>13 DEF PatchInv

-----------------------------------------------------------------------------
(* The theorems. *)

LEMMA InitInv == Init => TypeOK /\ PatchInv
  <1> SUFFICES ASSUME Init PROVE TypeOK /\ PatchInv
    OBVIOUS
  <1>1. \A f \in Paths : remote[f] \in {<<f>>, None} /\ <<f>> \in Contents
    BY DEF Init, Contents, Texts
  <1>2. remote \in Files /\ None \in Contents
    <2>1. remote \in [Paths -> {<<f>> : f \in Paths} \cup {None}]
      BY DEF Init
    <2> QED BY <1>1, <2>1 DEF Files, Contents
  <1>3. mirror \in Files /\ pulled \in Files /\ saw \in Files
    BY <1>2 DEF Init, Files
  <1>4. TypeOK
    BY <1>2, <1>3, PatchAssumption DEF Init, TypeOK, Files, Contents, Stages, PatchConstants
  <1>5. AgedInv
    <2>1. ASSUME NEW f \in Paths PROVE Aged(<<f>>) /\ Aged(None)
      BY PatchAssumption DEF Aged, Fresh, PatchConstants, Init
    <2> QED BY <1>1, <2>1 DEF AgedInv, Init
  <1> QED BY <1>4, <1>5 DEF Init, PatchInv, TodoInv, Writing, StandingInv, PulledInv, MirrorInv,
                            PushedInv, AllPushed, FailedInv

LEMMA NextInv ==
    ASSUME TypeOK, PatchInv, [Next]_vars
    PROVE  TypeOK' /\ PatchInv'
  <1>1. ASSUME NEW patch \in BoundedSeq(Sections, MaxSections), Call(patch)
        PROVE  TypeOK' /\ PatchInv'
    BY <1>1, CallTypes, CallInv
  <1>2. ASSUME NEW f \in Paths, Pull(f)
        PROVE  TypeOK' /\ PatchInv'
    BY <1>2, PullTypes, PullInv
  <1>3. ASSUME NEW f \in Paths, OthersEdit(f)
        PROVE  TypeOK' /\ PatchInv'
    BY <1>3, OthersTypes, OthersInv
  <1>4. ASSUME NEW k, Apply(k)
        PROVE  TypeOK' /\ PatchInv'
    <2>1. mirror' \in Files /\ todo' \subseteq 1..Len(sections) /\ pc = "applying"
      <3> DEFINE new == NewText(sections[k], made + k, mirror[Reads(sections[k])])
      <3>1. /\ pc = "applying" /\ k \in todo /\ k \in 1..Len(sections) /\ sections[k].path \in Paths
            /\ mirror' = [mirror EXCEPT ![sections[k].path] = new]
        BY <1>4, ApplyFacts
      <3>2. Kept(k) /\ Reads(sections[k]) \in tracked
        BY <3>1 DEF PatchInv, TodoInv, Writing, Concerned, Kept
      <3>3. mirror[Reads(sections[k])] \in Texts
        BY <3>1, <3>2, SectionTypes, Stored DEF PatchInv, PulledInv, Writing, Files, Contents
      <3>4. new \in Contents
        BY <3>1, <3>2, <3>3, NewTextTypes DEF Contents
      <3> HIDE DEF new
      <3> QED BY <1>4, <3>1, <3>4, Stored DEF Files, Apply, TypeOK
    <2>2. TypeOK'
      BY <1>4, <2>1 DEF Apply, TypeOK, Files, Contents, historyVars
    <2> QED BY <1>4, <2>2, ApplyInv
  <1>5. ASSUME NEW k, Push(k) \/ Delete(k) \/ Move(k)
        PROVE  TypeOK' /\ PatchInv'
    <2>1. TypeOK'
      BY <1>5, RestTypes DEF PatchInv
    <2> QED BY <1>5, <2>1, PushKeeps, RemovalKeeps
  <1>6. CASE Proceed
    <2>1. TypeOK'
      BY <1>6, ProceedFacts DEF TypeOK, Stages
    <2> QED BY <1>6, <2>1, ProceedInv
  <1>7. CASE Fail
    <2>1. TypeOK'
      BY <1>7, FailFacts DEF TypeOK, Stages, Files, Contents
    <2> QED BY <1>7, <2>1, FailInv
  <1>8. CASE UNCHANGED vars
    <2>1. /\ After' = After /\ Meant' = Meant /\ Straight' = Straight
          /\ (\A k : Removed(k)' = Removed(k)) /\ \A stage : Concerned(stage)' = Concerned(stage)
      BY <1>8, SamePatch DEF vars, callVars, historyVars
    <2>2. TypeOK' /\ AgedInv' /\ TodoInv'
      BY <1>8, <2>1 DEF vars, fileVars, callVars, historyVars, TypeOK, PatchInv, AgedInv, Aged, Fresh,
                        TodoInv, Writing
    <2>3. Pushed' = Pushed /\ Gone' = Gone /\ (\A g : Base(g)' = Base(g))
      BY <1>8, <2>1 DEF vars, fileVars, callVars, historyVars, Pushed, Gone, Base, Kept
    <2>4. StandingInv' /\ PulledInv' /\ MirrorInv'
      BY <1>8, <2>1, <2>3 DEF vars, fileVars, callVars, historyVars, PatchInv, StandingInv, Writing,
                              PulledInv, MirrorInv, MirrorIs, AppliedUpTo
    <2>5. PushedInv' /\ FailedInv'
      BY <1>8, <2>1, <2>3 DEF vars, fileVars, callVars, historyVars, PatchInv, PushedInv, AllPushed,
                              FailedInv, RemovesLast
    <2> QED BY <2>2, <2>4, <2>5 DEF PatchInv
  <1> QED BY <1>1, <1>2, <1>3, <1>4, <1>5, <1>6, <1>7, <1>8 DEF Next

\* What a patch makes of each file keeps its type, and so does its manifest.
THEOREM PatchTypeCorrect == Spec => []TypeOK
  <1>1. Init => TypeOK /\ PatchInv
    BY InitInv
  <1>2. TypeOK /\ PatchInv /\ [Next]_vars => TypeOK' /\ PatchInv'
    BY NextInv
  <1> QED BY <1>1, <1>2, PTL DEF Spec

LEMMA PatchInvariant == Spec => [](TypeOK /\ PatchInv)
  <1>1. Init => TypeOK /\ PatchInv
    BY InitInv
  <1>2. TypeOK /\ PatchInv /\ [Next]_vars => TypeOK' /\ PatchInv'
    BY NextInv
  <1> QED BY <1>1, <1>2, PTL DEF Spec

\* Wherever a call fails and whatever others edit, no contents are lost: nothing is
\* removed before all is written.
THEOREM PatchLosesNothing == Spec => []RemovesLast
  <1>1. TypeOK /\ PatchInv => RemovesLast
    <2> SUFFICES ASSUME TypeOK, PatchInv, pc \notin {"idle", "pulling", "failed"}, Straight
                 PROVE  LET staying == {f \in Paths \ touched : Meant[f] # None}
                        IN  /\ \A f \in staying : remote[f] \in {saw[f], Meant[f]}
                            /\ (\E f \in Paths : saw[f] # None /\ remote[f] = None)
                                  => \A f \in staying : remote[f] = Meant[f]
      BY DEF RemovesLast, PatchInv, FailedInv
    <2>1. CASE Writing
      BY <2>1, NothingMissing
    <2>2. CASE AllPushed
      BY <2>2, AllWritten
    <2> QED BY <2>1, <2>2 DEF Writing, AllPushed, TypeOK, Stages
  <1> QED BY <1>1, PatchInvariant, PTL

\* Where rm does what it is told, a patch that reports success left every file as its
\* sections mean, with nothing but the later edits of others on top.
THEOREM SuccessMeansPatched ==
    ASSUME ~ RmFails
    PROVE  Spec => []PatchApplied
  <1>1. TypeOK /\ PatchInv => PatchApplied
    <2> SUFFICES ASSUME TypeOK, PatchInv, pc = "done", Straight, NEW f \in Paths
                 PROVE  \/ f \notin touched /\ remote[f] = Meant[f]
                        \/ f \in touched /\ (Meant[f] # None => Edited(Meant[f], remote[f]))
      BY DEF PatchApplied
    <2>1. Len(sections) \in 0..Len(sections) /\ todo = {}
      BY Stored DEF PatchInv, TodoInv, Concerned
    <2>2. f \in Removed(Len(sections)) => Meant[f] = None
      BY <2>1, WhatIsMeant DEF Meant
    <2>3. CASE f \in Removed(Len(sections))
      <3>1. f \in Gone
        BY <2>1, <2>3 DEF Gone, Removed
      <3> QED BY <2>2, <2>3, <3>1 DEF PatchInv, PushedInv, AllPushed
    <2>4. CASE f \notin Removed(Len(sections))
      <3>1. Meant[f] # None => Text(Meant[f]) = Meant[f]
        BY DEF Text
      <3> QED BY <2>4, <3>1 DEF PatchInv, PushedInv, AllPushed
    <2> QED BY <2>3, <2>4
  <1> QED BY <1>1, PatchInvariant, PTL

-----------------------------------------------------------------------------
(* NativePatch. *)

\* The invariant keeps both, as long as the input stays.
InputInv == input \in Inputs

End(r) == r.at + r.len

\* While the chunks are looked for, what was found lies before the next search, in the
\* order of the chunks; what is only inserted goes to the end.
FoundInv ==
    nativePc \in {"parsing", "computing"} =>
      /\ \A p \in 1..Len(replacements) :
            IF replacements[p].len = 0 THEN replacements[p].at = Len(input.text)
            ELSE End(replacements[p]) <= lineIndex
      /\ \A p \in 1..Len(replacements), q \in 1..Len(replacements) :
            p < q /\ replacements[p].len > 0 /\ replacements[q].len > 0
              => End(replacements[p]) <= replacements[q].at

Apart(rs, n) ==
    \A p \in 1..Len(rs) :
        /\ End(rs[p]) <= n
        /\ \A q \in (p + 1)..Len(rs) : End(rs[p]) <= rs[q].at
ApartInv == nativePc \in {"splicing", "done"} => Apart(replacements, Len(input.text))

\* The lines that are kept and the new ones, in the order of the new file.
Piece(n) == IF n % 2 = 1 THEN Native!Kept(n \div 2) ELSE replacements[n \div 2].new
Pieces == [n \in 1..(2 * Len(replacements) + 1) |-> Piece(n)]

LEMMA MinFacts ==
    ASSUME NEW S \in SUBSET Nat, S # {}
    PROVE  Native!Min(S) \in S /\ \A n \in S : Native!Min(S) <= n
  BY LeastNumber DEF Native!Min

LEMMA SeekFacts ==
    ASSUME NEW ls \in Seq(Native!Lines), NEW pattern \in Seq(Native!Lines), NEW start \in Nat,
           NEW p \in Native!SeekSequence(ls, pattern, start)
    PROVE  p \in start..(Len(ls) - Len(pattern)) /\ pattern # <<>>
  <1> DEFINE found(n) == Native!Matches(ls, pattern, start, n)
             levels == {n \in 1..Len(Native!Ignored) : found(n) # {}}
  <1>1. pattern # <<>> /\ levels # {} /\ p = Native!Min(found(Native!Min(levels)))
    BY DEF Native!SeekSequence
  <1>2. levels \in SUBSET Nat
    BY DEF Native!Ignored
  <1>3. Native!Min(levels) \in levels
    <2> HIDE DEF levels
    <2> QED BY <1>1, <1>2, MinFacts
  <1>4. \A n : found(n) \subseteq start..(Len(ls) - Len(pattern))
    BY DEF Native!Matches
  <1>5. found(Native!Min(levels)) \in SUBSET Nat /\ found(Native!Min(levels)) # {}
    <2>1. found(Native!Min(levels)) # {}
      BY <1>3
    <2>2. start..(Len(ls) - Len(pattern)) \subseteq Nat
      BY LenProperties
    <2> HIDE DEF found, levels
    <2> QED BY <2>1, <2>2, <1>4
  <1>6. p \in found(Native!Min(levels))
    <2> HIDE DEF found, levels
    <2> QED BY <1>1, <1>5, MinFacts
  <1> QED BY <1>1, <1>4, <1>6

LEMMA NativeTypes ==
    ASSUME Native!TypeOK, InputInv
    PROVE  /\ input.text \in Seq(Native!Lines) /\ Len(input.text) \in Nat
           /\ \A c \in Native!Chunks : /\ c.old \in Seq(Native!Lines) /\ c.new \in Seq(Native!Lines)
                                       /\ c.context \in Native!Lines \cup {None}
           /\ \A k \in 1..Len(chunks) : chunks[k] \in Native!Chunks
           /\ \A n \in 1..Len(replacements) : replacements[n] \in Native!Replacements
           /\ \A r \in Native!Replacements : r.at \in Nat /\ r.len \in Nat /\ r.new \in Seq(Native!Lines)
           /\ lineIndex \in Nat /\ lineIndex <= Len(input.text)
           /\ sought \in Nat /\ Len(chunks) \in Nat /\ Len(replacements) \in Nat
           /\ left \in Nat /\ left <= Len(replacements)
           /\ result \in Seq(Native!Lines)
  <1>1. \A c \in Native!Chunks : /\ c.old \in Seq(Native!Lines) /\ c.new \in Seq(Native!Lines)
                                 /\ c.context \in Native!Lines \cup {None}
    BY DEF Native!Chunks
  <1>2. \A r \in Native!Replacements : r.at \in Nat /\ r.len \in Nat /\ r.new \in Seq(Native!Lines)
    BY DEF Native!Replacements
  <1>3. /\ Len(input.text) \in Nat /\ Len(chunks) \in Nat /\ Len(replacements) \in Nat
        /\ \A k \in 1..Len(chunks) : chunks[k] \in Native!Chunks
        /\ \A n \in 1..Len(replacements) : replacements[n] \in Native!Replacements
    BY DEF Native!TypeOK
  <1> QED BY <1>1, <1>2, <1>3 DEF Native!TypeOK

LEMMA ButBlankTypes ==
    ASSUME NEW ls \in Seq(Native!Lines)
    PROVE  Native!ButBlank(ls) \in Seq(Native!Lines)
  <1>1. CASE ls = <<>>
    BY <1>1 DEF Native!ButBlank
  <1>2. CASE ls # <<>>
    <2>1. Native!Front(ls) \in Seq(Native!Lines)
      BY <1>2, FrontTypes DEF Native!Front
    <2> QED BY <2>1 DEF Native!ButBlank
  <1> QED BY <1>1, <1>2

LEMMA FoundFacts ==
    ASSUME Native!TypeOK, InputInv, sought < Len(chunks),
           NEW start \in Native!SeekContext
    PROVE  /\ start \in lineIndex..Len(input.text)
           /\ \A r \in Native!Found :
                /\ r \in Native!Replacements /\ End(r) <= Len(input.text)
                /\ r.len = 0 => r.at = Native!InsertionIdx
                /\ r.len > 0 => lineIndex <= r.at
  <1> DEFINE c == Native!Chunk
             n == Len(input.text)
             seek(pattern, from) == Native!SeekSequence(input.text, pattern, from)
  <1>1. /\ c \in Native!Chunks /\ c.old \in Seq(Native!Lines) /\ c.new \in Seq(Native!Lines)
        /\ c.context \in Native!Lines \cup {None}
    BY NativeTypes DEF Native!Chunk
  <1>2. lineIndex \in 0..n /\ n \in Nat /\ input.text \in Seq(Native!Lines)
    BY NativeTypes
  <1>3. \A from \in Native!SeekContext : from \in lineIndex..n
    <2> SUFFICES ASSUME NEW from \in Native!SeekContext PROVE from \in lineIndex..n
      OBVIOUS
    <2>1. CASE c.context = None
      BY <1>2, <2>1 DEF Native!SeekContext
    <2>2. CASE c.context # None
      <3>1. <<c.context>> \in Seq(Native!Lines) /\ Len(<<c.context>>) = 1
        BY <1>1, <2>2
      <3>2. from \in seek(<<c.context>>, lineIndex)
        BY <2>2 DEF Native!SeekContext
      <3>3. from \in lineIndex..(n - Len(<<c.context>>))
        <4>1. lineIndex \in Nat
          BY <1>2
        <4> QED BY <3>1, <3>2, <4>1, <1>2, SeekFacts
      <3> QED BY <3>1, <3>3, <1>2
    <2> QED BY <2>1, <2>2
  <1> DEFINE Good(r) == /\ r \in Native!Replacements /\ End(r) <= n
                        /\ r.len > 0 /\ lineIndex <= r.at
  <1>4. ASSUME NEW old \in Seq(Native!Lines), NEW new \in Seq(Native!Lines),
               NEW from \in lineIndex..n, NEW p \in seek(old, from)
        PROVE  Good([at |-> p, len |-> Len(old), new |-> new])
    <2>1. p \in from..(n - Len(old)) /\ old # <<>>
      BY <1>4, <1>2, SeekFacts
    <2>2. Len(old) \in Nat \ {0}
      BY <2>1, EmptySeq
    <2>3. p \in Nat /\ lineIndex <= p /\ p + Len(old) <= n
      BY <1>2, <2>1, <2>2
    <2> QED BY <2>2, <2>3 DEF Native!Replacements, End
  <1>5. ASSUME NEW from \in lineIndex..n, c.old # <<>>, NEW r \in Native!SeekChunk(from)
        PROVE  Good(r)
    <2>1. Native!Front(c.old) \in Seq(Native!Lines)
      BY <1>1, <1>5, FrontTypes DEF Native!Front
    <2>2. Native!ButBlank(c.new) \in Seq(Native!Lines)
      BY <1>1, ButBlankTypes
    <2>3. \/ \E p \in seek(c.old, from) : r = [at |-> p, len |-> Len(c.old), new |-> c.new]
          \/ \E p \in seek(Native!Front(c.old), from) :
                r = [at |-> p, len |-> Len(Native!Front(c.old)), new |-> Native!ButBlank(c.new)]
      BY <1>5 DEF Native!SeekChunk
    <2> HIDE DEF Good
    <2> QED BY <1>1, <1>4, <2>1, <2>2, <2>3
  <1>6. CASE c.old = <<>>
    <2>1. Native!InsertionIdx \in 0..n
      <3>1. CASE input.text = <<>>
        BY <3>1, <1>2 DEF Native!InsertionIdx
      <3>2. CASE input.text # <<>>
        BY <3>2, <1>2, EmptySeq DEF Native!InsertionIdx
      <3> QED BY <3>1, <3>2
    <2>2. \A r \in Native!Found : r = [at |-> Native!InsertionIdx, len |-> 0, new |-> c.new]
      BY <1>6 DEF Native!Found
    <2> QED BY <1>1, <1>2, <1>3, <2>1, <2>2 DEF Native!Replacements, End
  <1>7. CASE c.old # <<>>
    <2>1. \A r \in Native!Found : \E from \in Native!SeekContext : r \in Native!SeekChunk(from)
      BY <1>7 DEF Native!Found
    <2>2. \A r \in Native!Found : Good(r)
      <3> HIDE DEF Good
      <3> QED BY <1>3, <1>5, <1>7, <2>1
    <2> QED BY <1>3, <2>2 DEF Native!Replacements
  <1> QED BY <1>6, <1>7

LEMMA ReadTypes ==
    ASSUME Native!TypeOK, linesRead < Len(input.section)
    PROVE  /\ Native!Line.text \in Native!Lines
           /\ Native!ContextOf(Native!Line.text) \in Native!Lines \cup {None}
  <1>1. input.section[linesRead + 1] \in Native!SectionLines
    <2> DEFINE n == Len(input.section)
    <2>1. n \in Nat /\ linesRead \in 0..n /\ \A k \in 1..n : input.section[k] \in Native!SectionLines
      BY DEF Native!TypeOK
    <2> HIDE DEF n
    <2>2. linesRead + 1 \in 1..n
      BY <2>1 DEF n
    <2> QED BY <2>1, <2>2
  <1>2. Native!Line.text \in Native!Lines
    <2> DEFINE l == input.section[linesRead + 1]
    <2>1. l.text \in Native!Lines
      BY <1>1 DEF Native!SectionLines
    <2>2. Native!Line.text = Native!Plain(l.text)
      BY <1>1 DEF Native!Line, Native!SectionLines
    <2>3. Native!Plain(l.text) \in Native!Lines
      BY <2>1 DEF Native!Plain, Native!Lines
    <2> QED BY <2>2, <2>3
  <1> QED BY <1>2 DEF Native!ContextOf, Native!Lines

LEMMA WithLineTypes ==
    ASSUME Native!TypeOK, InputInv, chunks # <<>>,
           linesRead < Len(input.section), Native!Line.tag \in Native!Changes
    PROVE  /\ Native!WithLine(Native!Line) \in Seq(Native!Chunks)
           /\ Len(Native!WithLine(Native!Line)) = Len(chunks)
  <1> DEFINE l == Native!Line
             open == chunks[Len(chunks)]
             grown == CASE l.tag = " " -> [open EXCEPT !.old = Append(@, l.text), !.new = Append(@, l.text)]
                        [] l.tag = "-" -> [open EXCEPT !.old = Append(@, l.text)]
                        [] l.tag = "+" -> [open EXCEPT !.new = Append(@, l.text)]
             front == SubSeq(chunks, 1, Len(chunks) - 1)
  <1>1. /\ chunks \in Seq(Native!Chunks) /\ open \in Native!Chunks
        /\ front \in Seq(Native!Chunks) /\ Len(front) = Len(chunks) - 1 /\ Len(chunks) \in Nat \ {0}
    BY FrontTypes DEF Native!TypeOK
  <1>2. l.text \in Native!Lines
    BY ReadTypes
  <1>3. grown \in Native!Chunks
    <2>1. Append(open.old, l.text) \in Seq(Native!Lines) /\ Append(open.new, l.text) \in Seq(Native!Lines)
      BY <1>1, <1>2, NativeTypes
    <2>2. /\ [open EXCEPT !.old = Append(@, l.text), !.new = Append(@, l.text)] \in Native!Chunks
          /\ [open EXCEPT !.old = Append(@, l.text)] \in Native!Chunks
          /\ [open EXCEPT !.new = Append(@, l.text)] \in Native!Chunks
      BY <1>1, <2>1 DEF Native!Chunks
    <2>3. l.tag \in {" ", "-", "+"}
      BY DEF Native!Changes
    <2> QED BY <2>2, <2>3
  <1>4. Native!WithLine(l) = Append(front, grown)
    BY DEF Native!WithLine, Native!Last, Native!Front
  <1> HIDE DEF l, grown, front
  <1>5. Append(front, grown) \in Seq(Native!Chunks) /\ Len(Append(front, grown)) = Len(front) + 1
    BY <1>1, <1>3, AppendProperties
  <1>6. Len(Append(front, grown)) = Len(chunks)
    <2> DEFINE m == Len(front)
               n == Len(chunks)
    <2>1. n \in Nat /\ m = n - 1
      BY <1>1
    <2> HIDE DEF m, n
    <2> QED BY <2>1, <1>5 DEF m, n
  <1> QED BY <1>4, <1>5, <1>6 DEF l

\* Sorting permutes, by position and then by the order before.
LEMMA SortedFacts ==
    ASSUME NEW rs, NEW N \in Nat, Len(rs) = N, \A n \in 1..N : rs[n].at \in Nat
    PROVE  \E perm \in [1..N -> 1..N] :
             /\ Native!Sorted(rs) = [n \in 1..N |-> rs[perm[n]]]
             /\ \A p \in 1..N, q \in 1..N : p < q =>
                  \/ rs[perm[p]].at < rs[perm[q]].at
                  \/ rs[perm[p]].at = rs[perm[q]].at /\ perm[p] < perm[q]
  <1> DEFINE before(p, q) == rs[p].at < rs[q].at \/ (rs[p].at = rs[q].at /\ p <= q)
             upTo(q) == {p \in 1..N : before(p, q)}
             rank == [q \in 1..N |-> Cardinality(upTo(q))]
             perm == [n \in 1..N |-> CHOOSE q \in 1..N : Native!Cardinality(upTo(q)) = n]
  <1>1. \A p \in 1..N, q \in 1..N, r \in 1..N :
          /\ before(q, q) /\ (before(p, q) \/ before(q, p))
          /\ before(p, q) /\ before(q, r) => before(p, r)
          /\ before(p, q) /\ before(q, p) => p = q
    OBVIOUS
  <1>2. IsFiniteSet(1..N) /\ Cardinality(1..N) = N
    BY FS_Interval
  <1> HIDE DEF before
  <1>3. ASSUME NEW q \in 1..N
        PROVE  IsFiniteSet(upTo(q)) /\ Cardinality(upTo(q)) \in 1..N
    <2>1. upTo(q) \subseteq 1..N /\ q \in upTo(q)
      BY <1>1
    <2>2. IsFiniteSet(upTo(q)) /\ Cardinality(upTo(q)) <= N
      BY <1>2, <2>1, FS_Subset
    <2>3. Cardinality(upTo(q)) \in Nat /\ Cardinality(upTo(q)) # 0
      BY <2>1, <2>2, FS_CardinalityType, FS_EmptySet
    <2> QED BY <2>2, <2>3
  <1>4. ASSUME NEW p \in 1..N, NEW q \in 1..N, p # q, before(p, q)
        PROVE  rank[p] < rank[q]
    <2>1. upTo(p) \subseteq upTo(q) /\ q \in upTo(q) /\ q \notin upTo(p)
      BY <1>1, <1>4
    <2>2. Cardinality(upTo(p)) < Cardinality(upTo(q))
      BY <1>3, <2>1, FS_Subset
    <2> QED BY <2>2
  <1>5. rank \in Injection(1..N, 1..N)
    <2>1. rank \in [1..N -> 1..N]
      BY <1>3
    <2>2. \A p \in 1..N, q \in 1..N : rank[p] \in Int /\ (rank[p] = rank[q] => p = q)
      <3> SUFFICES ASSUME NEW p \in 1..N, NEW q \in 1..N
                   PROVE  rank[p] \in Int /\ (rank[p] = rank[q] => p = q)
        OBVIOUS
      <3>1. rank[p] \in Int /\ rank[q] \in Int
        BY <2>1
      <3> HIDE DEF rank
      <3> QED BY <1>1, <1>4, <3>1
    <2> HIDE DEF rank
    <2> QED BY <2>1, <2>2 DEF Injection, IsInjective
  <1>6. \A n \in 1..N : \E q \in 1..N : rank[q] = n
    <2> HIDE DEF rank
    <2>1. rank \in Surjection(1..N, 1..N)
      BY <1>2, <1>5, FS_Injection
    <2> QED BY <2>1 DEF Surjection
  <1>7. perm \in [1..N -> 1..N] /\ \A n \in 1..N : rank[perm[n]] = n
    <2>1. \A S : Native!Cardinality(S) = Cardinality(S)
      BY DEF Native!Cardinality, Cardinality
    <2>2. \A q \in 1..N : rank[q] = Native!Cardinality(upTo(q))
      BY <2>1
    <2>3. \A n \in 1..N : \E q \in 1..N : Native!Cardinality(upTo(q)) = n
      <3> HIDE DEF rank, upTo
      <3> SUFFICES ASSUME NEW n \in 1..N PROVE \E q \in 1..N : Native!Cardinality(upTo(q)) = n
        OBVIOUS
      <3>1. PICK q \in 1..N : rank[q] = n
        BY <1>6
      <3> QED BY <2>2, <3>1
    <2>4. \A n \in 1..N : perm[n] \in 1..N /\ Native!Cardinality(upTo(perm[n])) = n
      <3> HIDE DEF upTo
      <3> QED BY <2>3
    <2> HIDE DEF rank, upTo
    <2> QED BY <2>2, <2>4
  <1>8. ASSUME NEW p \in 1..N, NEW q \in 1..N, p < q
        PROVE  before(perm[p], perm[q]) /\ perm[p] # perm[q]
    <2>1. perm[p] \in 1..N /\ perm[q] \in 1..N /\ rank[perm[p]] = p /\ rank[perm[q]] = q
      BY <1>7
    <2> HIDE DEF rank, perm
    <2> QED BY <2>1, <1>1, <1>4, <1>8
  <1>9. Native!Sorted(rs) = [n \in 1..N |-> rs[perm[n]]]
    BY DEF Native!Sorted, before
  <1> HIDE DEF perm
  <1>10. \A p \in 1..N, q \in 1..N : p < q =>
            \/ rs[perm[p]].at < rs[perm[q]].at
            \/ rs[perm[p]].at = rs[perm[q]].at /\ perm[p] < perm[q]
    <2> SUFFICES ASSUME NEW p \in 1..N, NEW q \in 1..N, p < q
                 PROVE  \/ rs[perm[p]].at < rs[perm[q]].at
                        \/ rs[perm[p]].at = rs[perm[q]].at /\ perm[p] < perm[q]
      OBVIOUS
    <2>1. perm[p] \in 1..N /\ perm[q] \in 1..N
      BY <1>7
    <2> QED BY <1>8, <2>1 DEF before
  <1> QED BY <1>7, <1>9, <1>10

LEMMA SortedTypes ==
    ASSUME Native!TypeOK, InputInv
    PROVE  /\ Native!Sorted(replacements) \in Seq(Native!Replacements)
           /\ Len(Native!Sorted(replacements)) = Len(replacements)
  <1> DEFINE N == Len(replacements)
             sorted == Native!Sorted(replacements)
  <1>1. N \in Nat /\ \A n \in 1..N : replacements[n] \in Native!Replacements /\ replacements[n].at \in Nat
    BY NativeTypes
  <1> HIDE DEF N
  <1>2. PICK perm \in [1..N -> 1..N] : sorted = [n \in 1..N |-> replacements[perm[n]]]
    BY <1>1, SortedFacts DEF N
  <1>3. sorted \in [1..N -> Native!Replacements]
    BY <1>1, <1>2
  <1> HIDE DEF sorted
  <1>4. sorted \in Seq(Native!Replacements) /\ Len(sorted) = N
    BY <1>1, <1>3
  <1> QED BY <1>4 DEF sorted, N

\* Where a replacement is spliced in.
From == Native!Min({Native!NextReplacement.at, Len(result)})

LEMMA SpliceTypes ==
    ASSUME Native!TypeOK, InputInv, left > 0
    PROVE  /\ Native!NextReplacement \in Native!Replacements /\ left \in 1..Len(replacements)
           /\ Native!NextReplacement = replacements[left]
           /\ From \in Nat /\ From <= Len(result)
           /\ Native!NextReplacement.at <= Len(result) => From = Native!NextReplacement.at
  <1> DEFINE r == Native!NextReplacement
             n == Len(result)
             N == Len(replacements)
  <1>1. N \in Nat /\ left \in Nat /\ left <= N /\ n \in Nat
    BY NativeTypes
  <1>2. left \in 1..N
    <2> HIDE DEF N
    <2> QED BY <1>1
  <1>3. r \in Native!Replacements /\ r.at \in Nat /\ r = replacements[left]
    BY <1>2, NativeTypes DEF Native!NextReplacement
  <1>4. {r.at, n} \in SUBSET Nat /\ {r.at, n} # {}
    BY <1>1, <1>3
  <1>5. Native!Min({r.at, n}) \in {r.at, n} /\ \A k \in {r.at, n} : Native!Min({r.at, n}) <= k
    BY ONLY <1>4, MinFacts
  <1> HIDE DEF r, n, N
  <1>6. From = Native!Min({r.at, n})
    BY DEF From, r, n
  <1> QED BY <1>1, <1>2, <1>3, <1>5, <1>6 DEF r, n, N

LEMMA NativeTypeStep ==
    ASSUME Native!TypeOK, InputInv, [Native!Next]_(Native!vars)
    PROVE  Native!TypeOK' /\ InputInv'
  <1>1. /\ chunks \in Seq(Native!Chunks) /\ Len(chunks) \in Nat /\ linesRead \in Nat /\ Len(input.section) \in Nat
        /\ linesRead <= Len(input.section) /\ lineIndex \in 0..Len(input.text)
        /\ sought \in 0..Len(chunks) /\ Len(input.text) \in Nat
        /\ replacements \in Seq(Native!Replacements) /\ Len(replacements) \in Nat
        /\ left \in 0..Len(replacements)
    BY NativeTypes DEF Native!TypeOK
  <1>2. CASE Native!OpenChunk
    <2> DEFINE c == [context |-> Native!ContextOf(Native!Line.text), old |-> <<>>, new |-> <<>>]
    <2>1. c \in Native!Chunks
      BY <1>2, <1>1, ReadTypes DEF Native!OpenChunk, Native!Reading, Native!Chunks
    <2>2. chunks' = Append(chunks, c) /\ linesRead' = linesRead + 1 /\ linesRead < Len(input.section)
      BY <1>2 DEF Native!OpenChunk, Native!Reading
    <2> HIDE DEF c
    <2>3. chunks' \in Seq(Native!Chunks) /\ Len(chunks') = Len(chunks) + 1
      BY <1>1, <2>1, <2>2, AppendProperties
    <2>4. sought \in 0..Len(chunks')
      <3> DEFINE m == Len(chunks')
                 k == Len(chunks)
      <3>1. m = k + 1 /\ k \in Nat /\ sought \in 0..k
        BY <1>1, <2>3
      <3> HIDE DEF m, k
      <3> QED BY <3>1 DEF m
    <2>5. linesRead' \in 0..Len(input.section)
      BY <1>1, <2>2
    <2> QED BY <1>2, <2>3, <2>4, <2>5 DEF Native!OpenChunk, Native!TypeOK, InputInv
  <1>3. CASE Native!ChangeLine
    <2>1. /\ chunks' \in Seq(Native!Chunks) /\ Len(chunks') = Len(chunks)
          /\ linesRead' = linesRead + 1 /\ linesRead < Len(input.section)
      BY <1>3, <1>1, WithLineTypes DEF Native!ChangeLine, Native!Reading
    <2>2. linesRead' \in 0..Len(input.section) /\ sought \in 0..Len(chunks')
      BY <1>1, <2>1
    <2> QED BY <1>3, <2>1, <2>2 DEF Native!ChangeLine, Native!TypeOK, InputInv
  <1>4. CASE Native!SkipLine
    <2>1. linesRead' \in 0..Len(input.section)
      BY <1>1, <1>4 DEF Native!SkipLine, Native!Reading
    <2> QED BY <1>4, <2>1 DEF Native!SkipLine, Native!TypeOK, InputInv
  <1>5. CASE Native!EndSection
    BY <1>5 DEF Native!EndSection, Native!TypeOK, InputInv
  <1>6. CASE Native!ComputeChunk
    <2>1. PICK start \in Native!SeekContext, r \in Native!Found :
            replacements' = Append(replacements, r) /\ lineIndex' = Native!After(r, start)
      BY <1>6 DEF Native!ComputeChunk
    <2>2. sought < Len(chunks) /\ sought' = sought + 1
      BY <1>6 DEF Native!ComputeChunk
    <2>3. /\ start \in lineIndex..Len(input.text) /\ r \in Native!Replacements
          /\ End(r) <= Len(input.text) /\ r.at \in Nat /\ r.len \in Nat
      BY <2>2, FoundFacts, NativeTypes
    <2>4. lineIndex' \in 0..Len(input.text)
      BY <1>1, <2>1, <2>3 DEF Native!After, End
    <2>5. replacements' \in Seq(Native!Replacements) /\ Len(replacements') = Len(replacements) + 1
      BY <1>1, <2>1, <2>3, AppendProperties
    <2>6. left \in 0..Len(replacements')
      <3> DEFINE m == Len(replacements')
                 k == Len(replacements)
      <3>1. m = k + 1 /\ k \in Nat /\ left \in 0..k
        BY <1>1, <2>5
      <3> HIDE DEF m, k
      <3> QED BY <3>1 DEF m
    <2>7. sought' \in 0..Len(chunks)
      BY <1>1, <2>2
    <2> QED BY <1>6, <2>4, <2>5, <2>6, <2>7 DEF Native!ComputeChunk, Native!TypeOK, InputInv
  <1>7. CASE Native!ChunkNotFound
    BY <1>7 DEF Native!ChunkNotFound, Native!TypeOK, InputInv
  <1>8. CASE Native!Computed
    <2>1. replacements' \in Seq(Native!Replacements) /\ left' \in 0..Len(replacements')
      BY <1>8, <1>1, SortedTypes DEF Native!Computed
    <2> QED BY <1>8, <2>1 DEF Native!Computed, Native!TypeOK, InputInv
  <1>9. CASE Native!ApplyReplacement
    <2> DEFINE r == Native!NextReplacement
    <2>1. left > 0 /\ left' = left - 1
          /\ result' = SubSeq(result, 1, From) \o r.new \o SubSeq(result, From + r.len + 1, Len(result))
      BY <1>9 DEF Native!ApplyReplacement, From
    <2>2. /\ r.new \in Seq(Native!Lines) /\ From + r.len \in Nat /\ From \in Nat /\ From <= Len(result)
          /\ result \in Seq(Native!Lines) /\ Len(result) \in Nat
      <3>1. /\ r \in Native!Replacements /\ From \in Nat /\ From <= Len(result)
            /\ result \in Seq(Native!Lines) /\ Len(result) \in Nat
        BY <2>1, SpliceTypes, NativeTypes
      <3>2. r.new \in Seq(Native!Lines) /\ r.len \in Nat
        BY <3>1, NativeTypes
      <3> QED BY <3>1, <3>2
    <2>3. SubSeq(result, 1, From) \in Seq(Native!Lines)
      <3>1. SubSeq(result, 0 + 1, From) \in Seq(Native!Lines)
        BY <2>2, CutTypes
      <3> QED BY <3>1
    <2>4. SubSeq(result, From + r.len + 1, Len(result)) \in Seq(Native!Lines)
      BY <2>2, CutTypes
    <2> HIDE DEF r
    <2>5. result' \in Seq(Native!Lines)
      BY <2>1, <2>2, <2>3, <2>4, ConcatProperties
    <2>6. left' \in 0..Len(replacements)
      BY <1>1, <2>1
    <2> QED BY <1>9, <2>5, <2>6 DEF Native!ApplyReplacement, Native!TypeOK, InputInv
  <1>10. CASE Native!Finish
    <2>1. result' \in Seq(Native!Lines)
      BY <1>10, NativeTypes, ButBlankTypes DEF Native!Finish
    <2> QED BY <1>10, <2>1 DEF Native!Finish, Native!TypeOK, InputInv
  <1>11. CASE UNCHANGED Native!vars
    BY <1>11 DEF Native!vars, Native!TypeOK, InputInv
  <1>12. Native!Ended => UNCHANGED Native!vars
    BY DEF Native!Ended
  <1> QED BY <1>2, <1>3, <1>4, <1>5, <1>6, <1>7, <1>8, <1>9, <1>10, <1>11, <1>12 DEF Native!Next

LEMMA FoundStep ==
    ASSUME NoBlankEnd, Native!TypeOK, InputInv, FoundInv, [Native!Next]_(Native!vars)
    PROVE  FoundInv'
  <1> DEFINE n == Len(input.text)
             N == Len(replacements)
             rs == replacements
  <1>1. CASE UNCHANGED <<input, replacements, lineIndex>> /\ (nativePc' \in {"parsing", "computing"} => nativePc \in {"parsing", "computing"})
    BY <1>1 DEF FoundInv, End
  <1>2. CASE Native!ComputeChunk
    <2>1. PICK start \in Native!SeekContext, r \in Native!Found :
            replacements' = Append(rs, r) /\ lineIndex' = Native!After(r, start)
      BY <1>2 DEF Native!ComputeChunk
    <2>2. sought < Len(chunks) /\ nativePc = "computing" /\ input' = input
      BY <1>2 DEF Native!ComputeChunk
    <2>3. /\ start \in lineIndex..n /\ r \in Native!Replacements
          /\ End(r) <= n /\ r.at \in Nat /\ r.len \in Nat
          /\ r.len = 0 => r.at = Native!InsertionIdx
          /\ r.len > 0 => lineIndex <= r.at
      BY <2>2, FoundFacts, NativeTypes
    <2>4. Native!InsertionIdx = n
      BY DEF NoBlankEnd, Native!InsertionIdx, InputInv, Native!Last
    <2>5. /\ N \in Nat /\ lineIndex \in 0..n /\ n \in Nat
          /\ \A p \in 1..N : rs[p].at \in Nat /\ rs[p].len \in Nat
      BY NativeTypes
    <2>6. /\ Len(Append(rs, r)) = N + 1 /\ Append(rs, r)[N + 1] = r
          /\ \A p \in 1..N : Append(rs, r)[p] = rs[p]
      BY <2>3, AppendProperties DEF Native!TypeOK
    <2>7. lineIndex' \in Nat /\ lineIndex <= lineIndex' /\ (r.len > 0 => lineIndex' = End(r))
      BY <2>1, <2>3, <2>5 DEF Native!After, End
    <2>8. /\ \A p \in 1..N : IF rs[p].len = 0 THEN rs[p].at = n ELSE End(rs[p]) <= lineIndex
          /\ \A p \in 1..N, q \in 1..N : p < q /\ rs[p].len > 0 /\ rs[q].len > 0 => End(rs[p]) <= rs[q].at
      BY <2>2 DEF FoundInv
    <2> HIDE DEF N, n, rs
    <2> DEFINE rs2 == Append(rs, r)
    <2> HIDE DEF rs2
    <2>9. ASSUME NEW p \in 1..(N + 1)
          PROVE  IF rs2[p].len = 0 THEN rs2[p].at = n ELSE End(rs2[p]) <= lineIndex'
      <3>1. CASE p \in 1..N
        BY <2>5, <2>6, <2>7, <2>8, <3>1 DEF rs2, End
      <3>2. CASE p = N + 1
        BY <2>3, <2>4, <2>6, <2>7, <3>2 DEF rs2
      <3> QED BY <3>1, <3>2, <2>5
    <2>10. ASSUME NEW p \in 1..(N + 1), NEW q \in 1..(N + 1), p < q, rs2[p].len > 0, rs2[q].len > 0
           PROVE  End(rs2[p]) <= rs2[q].at
      <3>1. p \in 1..N /\ rs2[p] = rs[p]
        BY <2>5, <2>6, <2>10 DEF rs2
      <3>2. CASE q \in 1..N
        BY <2>6, <2>8, <2>10, <3>1, <3>2 DEF rs2
      <3>3. CASE q = N + 1
        <4>1. rs2[q] = r /\ rs[p].len > 0 /\ r.len > 0
          BY <2>6, <2>10, <3>1, <3>3 DEF rs2
        <4>2. End(rs[p]) <= lineIndex /\ lineIndex <= r.at
          BY <2>3, <2>8, <3>1, <4>1
        <4> QED BY <2>3, <2>5, <3>1, <4>1, <4>2 DEF End
      <3> QED BY <3>2, <3>3, <2>5
    <2> QED BY <2>1, <2>2, <2>6, <2>9, <2>10 DEF FoundInv, rs2, n, N
  <1>3. CASE Native!Computed \/ Native!ApplyReplacement \/ Native!Finish
    BY <1>3 DEF Native!Computed, Native!ApplyReplacement, Native!Finish, FoundInv
  <1>4. CASE Native!OpenChunk \/ Native!ChangeLine \/ Native!SkipLine \/ Native!EndSection \/ Native!ChunkNotFound
             \/ UNCHANGED Native!vars
    BY <1>1, <1>4 DEF Native!OpenChunk, Native!ChangeLine, Native!SkipLine, Native!EndSection,
                      Native!ChunkNotFound, Native!Reading, Native!vars
  <1> QED BY <1>2, <1>3, <1>4 DEF Native!Next, Native!Ended

LEMMA ApartStep ==
    ASSUME Native!TypeOK, InputInv, FoundInv, ApartInv, [Native!Next]_(Native!vars)
    PROVE  ApartInv'
  <1> DEFINE n == Len(input.text)
             N == Len(replacements)
             rs == replacements
  <1>1. CASE Native!Computed
    <2>1. nativePc = "computing" /\ rs' = Native!Sorted(rs) /\ input' = input
      BY <1>1 DEF Native!Computed
    <2>2. /\ N \in Nat /\ lineIndex \in Nat /\ lineIndex <= n /\ n \in Nat
          /\ \A p \in 1..N : rs[p].at \in Nat /\ rs[p].len \in Nat
      BY NativeTypes
    <2>3. /\ \A p \in 1..N : IF rs[p].len = 0 THEN rs[p].at = n ELSE End(rs[p]) <= lineIndex
          /\ \A p \in 1..N, q \in 1..N : p < q /\ rs[p].len > 0 /\ rs[q].len > 0 => End(rs[p]) <= rs[q].at
      BY <2>1 DEF FoundInv
    <2>4. Len(rs') = N
      BY <2>1, SortedTypes
    <2> HIDE DEF N, n
    <2>5. PICK perm \in [1..N -> 1..N] :
             /\ Native!Sorted(rs) = [k \in 1..N |-> rs[perm[k]]]
             /\ \A p \in 1..N, q \in 1..N : p < q =>
                  \/ rs[perm[p]].at < rs[perm[q]].at
                  \/ rs[perm[p]].at = rs[perm[q]].at /\ perm[p] < perm[q]
      BY <2>2, SortedFacts DEF N
    <2>6. ASSUME NEW p \in 1..N
          PROVE  rs'[p] = rs[perm[p]] /\ perm[p] \in 1..N
      BY <2>1, <2>5
    <2>7. ASSUME NEW a \in 1..N
          PROVE  /\ rs[a].at \in Nat /\ rs[a].len \in Nat /\ End(rs[a]) \in Nat
                 /\ rs[a].len = 0 => End(rs[a]) = rs[a].at /\ rs[a].at = n
                 /\ rs[a].len > 0 => rs[a].at < End(rs[a])
                 /\ End(rs[a]) <= n
      <3>1. rs[a].at \in Nat /\ rs[a].len \in Nat
        BY <2>2
      <3>2. /\ rs[a].len = 0 => rs[a].at = n
            /\ rs[a].len > 0 => End(rs[a]) <= lineIndex
        BY <2>3
      <3>3. /\ End(rs[a]) \in Nat
            /\ rs[a].len = 0 => End(rs[a]) = rs[a].at
            /\ rs[a].len > 0 => rs[a].at < End(rs[a])
        BY <3>1 DEF End
      <3>4. CASE rs[a].len = 0
        <4>1. n \in Nat
          BY <2>2
        <4> QED BY ONLY <3>1, <3>2, <3>3, <3>4, <4>1
      <3>5. CASE rs[a].len > 0
        <4>1. End(rs[a]) <= lineIndex /\ End(rs[a]) \in Nat
          BY <3>2, <3>3, <3>5
        <4>2. End(rs[a]) <= n
          BY <2>2, <4>1
        <4> QED BY <3>1, <3>3, <3>5, <4>2
      <3> QED BY <3>1, <3>4, <3>5
    <2>8. ASSUME NEW a \in 1..N, NEW b \in 1..N,
                 rs[a].at < rs[b].at \/ (rs[a].at = rs[b].at /\ a < b)
          PROVE  End(rs[a]) <= rs[b].at
      <3>1. /\ rs[a].at \in Nat /\ rs[b].at \in Nat /\ rs[a].at <= rs[b].at
            /\ End(rs[a]) <= n /\ End(rs[b]) <= n /\ End(rs[a]) \in Nat /\ End(rs[b]) \in Nat
        BY <2>7, <2>8
      <3>2. CASE rs[b].len = 0
        BY <2>7, <3>1, <3>2
      <3>3. CASE rs[b].len > 0 /\ rs[a].len = 0
        BY <2>2, <2>7, <3>1, <3>3
      <3>4. CASE rs[b].len > 0 /\ rs[a].len > 0
        <4>1. CASE a < b
          BY <2>3, <3>4, <4>1
        <4>2. CASE b < a
          <5>1. End(rs[b]) <= rs[a].at /\ rs[b].at < End(rs[b])
            BY <2>3, <2>7, <3>4, <4>2
          <5> QED BY <5>1, <3>1
        <4>3. CASE a = b
          BY <2>8, <3>1, <4>3
        <4> QED BY <4>1, <4>2, <4>3, <2>2
      <3>5. rs[a].len \in Nat /\ rs[b].len \in Nat
        BY <2>7
      <3> QED BY <3>2, <3>3, <3>4, <3>5
    <2>9. ASSUME NEW p \in 1..N
          PROVE  /\ End(rs'[p]) <= n
                 /\ \A q \in (p + 1)..N : End(rs'[p]) <= rs'[q].at
      <3>1. End(rs'[p]) <= n
        BY <2>6, <2>7
      <3>2. ASSUME NEW q \in (p + 1)..N
            PROVE  End(rs'[p]) <= rs'[q].at
        <4>1. q \in 1..N /\ p < q
          BY <2>2
        <4>2. perm[p] \in 1..N /\ perm[q] \in 1..N /\ rs'[p] = rs[perm[p]] /\ rs'[q] = rs[perm[q]]
          BY <2>6, <4>1
        <4>3. \/ rs[perm[p]].at < rs[perm[q]].at
              \/ rs[perm[p]].at = rs[perm[q]].at /\ perm[p] < perm[q]
          BY <2>5, <4>1
        <4> QED BY <2>8, <4>2, <4>3
      <3> QED BY <3>1, <3>2
    <2> QED BY <2>1, <2>4, <2>9 DEF ApartInv, Apart, N, n
  <1>2. CASE UNCHANGED <<input, replacements>> /\ (nativePc' \in {"splicing", "done"} => nativePc \in {"splicing", "done"})
    BY <1>2 DEF ApartInv, Apart, End
  <1>3. Native!OpenChunk \/ Native!ChangeLine \/ Native!SkipLine \/ Native!EndSection \/ Native!ChunkNotFound
          \/ Native!ApplyReplacement \/ Native!Finish \/ UNCHANGED Native!vars
          => UNCHANGED <<input, replacements>> /\ (nativePc' \in {"splicing", "done"} => nativePc \in {"splicing", "done"})
    BY DEF Native!OpenChunk, Native!ChangeLine, Native!SkipLine, Native!EndSection, Native!ChunkNotFound,
           Native!ApplyReplacement, Native!Finish, Native!Reading, Native!vars
  <1>4. CASE Native!ComputeChunk
    BY <1>4 DEF Native!ComputeChunk, ApartInv
  <1> QED BY <1>1, <1>2, <1>3, <1>4 DEF Native!Next, Native!Ended

\* The function FlattenSeq is defined with exists, and its values are sequences.
Flattens(f, s, n) == f[1] = s[1] /\ \A k \in 2..n : f[k] = f[k - 1] \o s[k]

LEMMA FlattenFacts ==
    ASSUME NEW S, NEW N \in Nat \ {0}, NEW s \in [1..N -> Seq(S)]
    PROVE  \E f \in [1..N -> Seq(S)] : Flattens(f, s, N) /\ Native!FlattenSeq(s) = f[N]
  <1> DEFINE Solved == {n \in 0..N : n > 0 => \E g \in [1..n -> Seq(S)] : Flattens(g, s, n)}
  <1>1. \A k \in 1..N : s[k] \in Seq(S)
    OBVIOUS
  <1>2. ASSUME NEW n \in 0..N, n \in Solved, n < N
        PROVE  n + 1 \in Solved
    <2>1. CASE n = 0
      <3> DEFINE g == [k \in 1..1 |-> s[1]]
      <3>1. g \in [1..1 -> Seq(S)] /\ Flattens(g, s, 1)
        BY <1>1 DEF Flattens
      <3> HIDE DEF g
      <3> QED BY <2>1, <3>1
    <2>2. CASE n > 0
      <3>1. PICK g \in [1..n -> Seq(S)] : Flattens(g, s, n)
        BY <1>2, <2>2
      <3> DEFINE new == g[n] \o s[n + 1]
                 h == [k \in 1..(n + 1) |-> IF k <= n THEN g[k] ELSE new]
      <3>2. n \in 1..n /\ n + 1 \in 1..N
        BY <1>2, <2>2
      <3>3. new \in Seq(S)
        <4>1. g[n] \in Seq(S) /\ s[n + 1] \in Seq(S)
          BY <3>2
        <4> HIDE DEF Flattens
        <4> QED BY <4>1, ConcatProperties
      <3> HIDE DEF new
      <3>4. h \in [1..(n + 1) -> Seq(S)] /\ \A k \in 1..n : h[k] = g[k]
        BY <3>3, <2>2
      <3>5. h[n + 1] = new
        BY <2>2
      <3> HIDE DEF h
      <3>6. h[1] = s[1]
        BY <2>2, <3>1, <3>4 DEF Flattens
      <3>7. ASSUME NEW k \in 2..(n + 1)
            PROVE  h[k] = h[k - 1] \o s[k]
        <4>1. CASE k = n + 1
          <5>1. k - 1 = n /\ h[n] = g[n]
            BY <3>2, <3>4, <4>1
          <5> QED BY <3>5, <4>1, <5>1 DEF new
        <4>2. CASE k # n + 1
          <5>1. k \in 2..n /\ k \in 1..n /\ k - 1 \in 1..n
            BY <4>2
          <5> QED BY <3>1, <3>4, <5>1 DEF Flattens
        <4> QED BY <4>1, <4>2
      <3>8. Flattens(h, s, n + 1)
        BY <3>6, <3>7 DEF Flattens
      <3> QED BY <3>4, <3>8, <3>2
    <2> QED BY <2>1, <2>2
  <1>3. N \in Solved
    <2>1. 0 \in Solved
      OBVIOUS
    <2> HIDE DEF Solved
    <2>2. N \in Nat /\ \A n \in 0..N : n \in Solved /\ n < N => n + 1 \in Solved
      BY <1>2
    <2>3. \A n \in 0..N : n \in Solved
      BY <2>1, <2>2, UpTo
    <2> QED BY <2>2, <2>3
  <1>4. PICK g \in [1..N -> Seq(S)] : Flattens(g, s, N)
    BY <1>3
  <1> DEFINE step(h, k) == IF k = 1 THEN s[k] ELSE h[k - 1] \o s[k]
             flat == CHOOSE h : h = [k \in 1..Len(s) |-> step(h, k)]
  <1>5. Len(s) = N
    OBVIOUS
  <1>6. g = [k \in 1..N |-> step(g, k)]
    <2> SUFFICES ASSUME NEW k \in 1..N PROVE g[k] = step(g, k)
      OBVIOUS
    <2>1. CASE k = 1
      BY <1>4, <2>1 DEF Flattens
    <2>2. CASE k # 1
      <3>1. k \in 2..N
        BY <2>2
      <3> QED BY <1>4, <2>2, <3>1 DEF Flattens
    <2> QED BY <2>1, <2>2
  <1>7. flat = [k \in 1..N |-> step(flat, k)]
    <2>1. flat = [k \in 1..Len(s) |-> step(flat, k)]
      <3>1. g = [k \in 1..Len(s) |-> step(g, k)]
        BY <1>5, <1>6
      <3> HIDE DEF step
      <3> QED BY <3>1
    <2> HIDE DEF flat
    <2> QED BY <1>5, <2>1
  <1>8. Native!FlattenSeq(s) = flat[N]
    BY <1>5 DEF Native!FlattenSeq
  <1> HIDE DEF flat
  <1>9. \A k \in 1..N : flat[k] = step(flat, k)
    <2> HIDE DEF step
    <2> QED BY <1>7
  <1>10. Flattens(flat, s, N)
    <2>1. flat[1] = s[1]
      BY <1>9
    <2>2. ASSUME NEW k \in 2..N PROVE flat[k] = flat[k - 1] \o s[k]
      <3>1. k \in 1..N /\ k # 1
        OBVIOUS
      <3> QED BY <1>9, <3>1
    <2> QED BY <2>1, <2>2 DEF Flattens
  <1>11. flat \in [1..N -> Seq(S)]
    <2> DEFINE Typed == {n \in 0..N : n > 0 => flat[n] \in Seq(S)}
    <2>1. ASSUME NEW n \in 0..N, n \in Typed, n < N
          PROVE  n + 1 \in Typed
      <3>1. n + 1 \in 1..N
        BY <2>1
      <3>2. CASE n = 0
        BY <1>1, <1>10, <3>1, <3>2 DEF Flattens
      <3>3. CASE n # 0
        <4>1. n + 1 \in 2..N /\ n + 1 - 1 = n /\ n > 0 /\ flat[n] \in Seq(S)
          BY <2>1, <3>3
        <4>2. flat[n + 1] = flat[n] \o s[n + 1]
          <5>1. \A k \in 2..N : flat[k] = flat[k - 1] \o s[k]
            BY <1>10 DEF Flattens
          <5> DEFINE k == n + 1
          <5>2. k \in 2..N /\ k - 1 = n
            BY <4>1
          <5> HIDE DEF k
          <5>3. flat[k] = flat[n] \o s[k]
            BY <5>1, <5>2
          <5> QED BY <5>3 DEF k
        <4>3. flat[n + 1] \in Seq(S)
          BY <1>1, <3>1, <4>1, <4>2, ConcatProperties
        <4> QED BY <3>1, <4>3
      <3> QED BY <3>2, <3>3
    <2>2. 0 \in Typed /\ N \in Nat
      OBVIOUS
    <2> HIDE DEF Typed
    <2>3. \A n \in 0..N : n \in Typed
      BY <2>1, <2>2, UpTo
    <2>4. \A k \in 1..N : flat[k] \in Seq(S)
      BY <2>3 DEF Typed
    <2>5. DOMAIN flat = 1..N /\ flat = [k \in 1..N |-> flat[k]]
      <3> HIDE DEF step
      <3>1. flat = [k \in 1..N |-> step(flat, k)]
        BY <1>7
      <3> QED BY <1>9, <3>1
    <2> QED BY <2>4, <2>5
  <1> QED BY <1>8, <1>10, <1>11
LEMMA LinesRegroup ==
    \A s, t, u \in Seq(Native!Lines) : (s \o t) \o u = s \o (t \o u)
  BY ConcatAssociative

LEMMA LinesCut ==
    \A text, rest \in Seq(Native!Lines), at, end, to \in Nat : at <= end /\ end <= to /\ to <= Len(text) =>
        LET lines == SubSeq(text, 1, to) \o rest
        IN  /\ SubSeq(lines, 1, at) = SubSeq(text, 1, at)
            /\ SubSeq(lines, end + 1, Len(lines)) = SubSeq(text, end + 1, to) \o rest
            /\ at <= Len(lines)
  BY SpliceFacts

\* The lines kept before replacement p + 1 are those from Begins(p) to Ends(p).
Begins(p) == IF p = 0 THEN 0 ELSE End(replacements[p])
Ends(p) == IF p = Len(replacements) THEN Len(input.text) ELSE replacements[p + 1].at

\* Nothing is spliced before all is found.
ResultInv == nativePc \in {"parsing", "computing"} => result = input.text

\* What is before the replacements still to come is as it was, and what is behind is as
\* in the new file.
SplicedInv ==
    nativePc = "splicing" =>
        \A f \in [DOMAIN Pieces -> Seq(Native!Lines)] : Flattens(f, Pieces, 2 * Len(replacements) + 1) =>
            \E rest \in Seq(Native!Lines) :
                /\ result = SubSeq(input.text, 1, Ends(left)) \o rest
                /\ f[2 * Len(replacements) + 1] = f[2 * left + 1] \o rest
DoneInv == nativePc = "done" => result = Native!ButBlank(Native!Assembled)

NativeInv ==
    /\ Native!TypeOK /\ InputInv /\ FoundInv /\ ApartInv
    /\ ResultInv /\ SplicedInv /\ DoneInv

LEMMA PieceFacts ==
    ASSUME Native!TypeOK, InputInv, Apart(replacements, Len(input.text))
    PROVE  /\ \A p \in 0..Len(replacements) :
                /\ Begins(p) \in Nat /\ Ends(p) \in Nat /\ Begins(p) <= Ends(p) /\ Ends(p) <= Len(input.text)
                /\ Pieces[2 * p + 1] = SubSeq(input.text, Begins(p) + 1, Ends(p))
                /\ Pieces[2 * p + 1] \in Seq(Native!Lines)
           /\ \A p \in 1..Len(replacements) :
                Pieces[2 * p] = replacements[p].new /\ replacements[p].new \in Seq(Native!Lines)
           /\ Pieces \in [1..(2 * Len(replacements) + 1) -> Seq(Native!Lines)]
  <1> DEFINE N == Len(replacements)
             n == Len(input.text)
             rs == replacements
  <1>1. /\ N \in Nat /\ n \in Nat /\ input.text \in Seq(Native!Lines)
        /\ \A p \in 1..N : rs[p].at \in Nat /\ rs[p].len \in Nat /\ rs[p].new \in Seq(Native!Lines)
    BY NativeTypes
  <1>2. \A p \in 1..N : End(rs[p]) <= n /\ \A q \in (p + 1)..N : End(rs[p]) <= rs[q].at
    BY DEF Apart
  <1>3. Pieces = [k \in 1..(2 * N + 1) |-> Piece(k)]
    BY DEF Pieces
  <1>4. n = Len(input.text) /\ N = Len(rs)
    OBVIOUS
  <1> HIDE DEF N, n, rs
  <1>5. ASSUME NEW p \in 1..N
        PROVE  End(rs[p]) \in Nat /\ rs[p].at <= End(rs[p]) /\ End(rs[p]) <= n
    BY <1>1, <1>2 DEF End
  <1>6. ASSUME NEW p \in 0..N
        PROVE  Begins(p) \in Nat /\ Ends(p) \in Nat /\ Begins(p) <= Ends(p) /\ Ends(p) <= n
    <2>1. Begins(p) = (IF p = 0 THEN 0 ELSE End(rs[p])) /\ Ends(p) = IF p = N THEN n ELSE rs[p + 1].at
      BY <1>4 DEF Begins, Ends, rs
    <2>2. Begins(p) \in Nat /\ Begins(p) <= n
      BY <1>1, <1>5, <2>1
    <2>3. CASE p = N
      BY <1>1, <2>1, <2>2, <2>3
    <2>4. CASE p # N
      <3> DEFINE q == p + 1
      <3>1. q \in 1..N
        BY <1>1, <2>4
      <3>2. p # 0 => End(rs[p]) <= rs[q].at
        BY <1>1, <1>2, <3>1
      <3> HIDE DEF q
      <3>3. Ends(p) = rs[q].at /\ rs[q].at \in Nat /\ rs[q].at <= End(rs[q]) /\ End(rs[q]) <= n /\ End(rs[q]) \in Nat
        BY <1>1, <1>5, <2>1, <2>4, <3>1 DEF q
      <3>4. Begins(p) <= rs[q].at
        BY <2>1, <3>2, <3>3
      <3> QED BY <1>1, <2>2, <3>3, <3>4
    <2> QED BY <2>3, <2>4
  <1>7. ASSUME NEW p \in 0..N
        PROVE  /\ Pieces[2 * p + 1] = SubSeq(input.text, Begins(p) + 1, Ends(p))
               /\ Pieces[2 * p + 1] \in Seq(Native!Lines)
    <2>1. 2 * p + 1 \in 1..(2 * N + 1) /\ (2 * p + 1) % 2 = 1 /\ (2 * p + 1) \div 2 = p
      BY <1>1
    <2>2. Pieces[2 * p + 1] = Native!Kept(p)
      BY <1>3, <2>1 DEF Piece
    <2>3. Native!Kept(p) = SubSeq(input.text, Begins(p) + 1, Ends(p))
      BY DEF Native!Kept, Begins, Ends, End
    <2>4. SubSeq(input.text, Begins(p) + 1, Ends(p)) \in Seq(Native!Lines)
      BY <1>1, <1>4, <1>6, CutTypes
    <2> QED BY <2>2, <2>3, <2>4
  <1>8. ASSUME NEW p \in 1..N
        PROVE  Pieces[2 * p] = rs[p].new
    <2>1. 2 * p \in 1..(2 * N + 1) /\ (2 * p) % 2 # 1 /\ (2 * p) \div 2 = p
      BY <1>1
    <2> QED BY <1>3, <2>1 DEF Piece, rs
  <1>9. Pieces \in [1..(2 * N + 1) -> Seq(Native!Lines)]
    <2>1. ASSUME NEW k \in 1..(2 * N + 1) PROVE Pieces[k] \in Seq(Native!Lines)
      <3>1. CASE k % 2 = 1
        <4>1. PICK p \in 0..N : k = 2 * p + 1
          <5>1. k \div 2 \in 0..N /\ k = 2 * (k \div 2) + 1
            BY <1>1, <3>1
          <5> QED BY <5>1
        <4> QED BY <1>7, <4>1
      <3>2. CASE k % 2 # 1
        <4>1. PICK p \in 1..N : k = 2 * p
          <5>1. k \div 2 \in 1..N /\ k = 2 * (k \div 2)
            BY <1>1, <3>2
          <5> QED BY <5>1
        <4> QED BY <1>1, <1>8, <4>1
      <3> QED BY <3>1, <3>2
    <2> QED BY <1>3, <2>1
  <1> QED BY <1>1, <1>6, <1>7, <1>8, <1>9 DEF N, n, rs

\* Splicing a replacement in.
LEMMA SplicedOnce ==
    ASSUME Native!TypeOK, InputInv, ApartInv, SplicedInv, Native!ApplyReplacement
    PROVE  SplicedInv'
  <1> DEFINE N == Len(replacements)
             M == 2 * N + 1
             r == replacements[left]
             text == input.text
             to == Ends(left)
             end == End(r)
             before == SubSeq(text, 1, r.at)
             kept == SubSeq(text, end + 1, to)
  <1>1. /\ nativePc = "splicing" /\ left > 0 /\ left' = left - 1
        /\ UNCHANGED <<input, nativePc, replacements>>
        /\ result' = SubSeq(result, 1, From) \o r.new \o SubSeq(result, From + r.len + 1, Len(result))
    BY DEF Native!ApplyReplacement, Native!NextReplacement, From
  <1>2. /\ left \in 1..N /\ N \in Nat /\ r \in Native!Replacements /\ r.at \in Nat /\ r.len \in Nat
        /\ r.new \in Seq(Native!Lines) /\ text \in Seq(Native!Lines) /\ result \in Seq(Native!Lines)
        /\ r.at <= Len(result) => From = r.at
    <2>1. Native!NextReplacement = r
      BY DEF Native!NextReplacement
    <2> QED BY <1>1, <2>1, NativeTypes, SpliceTypes
  <1>3. Apart(replacements, Len(text))
    BY <1>1 DEF ApartInv
  <1>4. /\ Begins(left) = end /\ end <= to /\ to <= Len(text) /\ to \in Nat /\ end \in Nat
        /\ r.at <= end /\ Ends(left - 1) = r.at
    <2>1. /\ Begins(left) \in Nat /\ Ends(left) \in Nat /\ Begins(left) <= Ends(left)
          /\ Ends(left) <= Len(text)
      <3>1. left \in 0..N
        BY <1>2
      <3> QED BY <1>3, <3>1, PieceFacts
    <2>2. Begins(left) = end
      BY <1>2 DEF Begins
    <2>3. Ends(left - 1) = r.at
      <3>1. left - 1 # N /\ left - 1 + 1 = left
        BY <1>2
      <3> QED BY <3>1 DEF Ends
    <2>4. r.at <= end
      BY <1>2 DEF End
    <2> QED BY <2>1, <2>2, <2>3, <2>4
  <1>5. Pieces[2 * left + 1] = kept /\ kept \in Seq(Native!Lines) /\ Pieces[2 * left] = r.new
    <2>1. /\ Pieces[2 * left + 1] = SubSeq(text, Begins(left) + 1, Ends(left))
          /\ Pieces[2 * left + 1] \in Seq(Native!Lines)
      <3>1. left \in 0..N
        BY <1>2
      <3> QED BY <1>3, <3>1, PieceFacts
    <2>2. Pieces[2 * left] = r.new
      BY <1>2, <1>3, PieceFacts
    <2> QED BY <1>4, <2>1, <2>2
  <1>6. before \in Seq(Native!Lines)
    <2>1. SubSeq(text, 0 + 1, r.at) \in Seq(Native!Lines)
      <3>1. r.at <= Len(text)
        BY <1>2, <1>4
      <3> QED BY <1>2, <3>1, CutTypes
    <2> QED BY <2>1
  <1>7. Pieces' = Pieces
    BY <1>1 DEF Pieces, Piece, Native!Kept
  <1>8. Ends(left)' = r.at
    BY <1>1, <1>4 DEF Ends
  <1> SUFFICES ASSUME NEW f \in [DOMAIN Pieces -> Seq(Native!Lines)], Flattens(f, Pieces, M)
               PROVE  \E rest \in Seq(Native!Lines) :
                         /\ result' = SubSeq(text, 1, r.at) \o rest
                         /\ f[M] = f[2 * (left - 1) + 1] \o rest
    BY <1>1, <1>7, <1>8 DEF SplicedInv
  <1>9. PICK rest \in Seq(Native!Lines) :
           result = SubSeq(text, 1, to) \o rest /\ f[M] = f[2 * left + 1] \o rest
    BY <1>1 DEF SplicedInv
  <1>10. /\ SubSeq(result, 1, r.at) = before
         /\ SubSeq(result, end + 1, Len(result)) = kept \o rest
         /\ r.at <= Len(result)
    <2> DEFINE at == r.at
    <2>1. at \in Nat /\ at <= end
      BY <1>2, <1>4
    <2> HIDE DEF at, end, to, text
    <2>2. LET lines == SubSeq(text, 1, to) \o rest
          IN  /\ SubSeq(lines, 1, at) = SubSeq(text, 1, at)
              /\ SubSeq(lines, end + 1, Len(lines)) = SubSeq(text, end + 1, to) \o rest
              /\ at <= Len(lines)
      <3>1. /\ text \in Seq(Native!Lines) /\ rest \in Seq(Native!Lines)
            /\ at \in Nat /\ end \in Nat /\ to \in Nat /\ at <= end /\ end <= to /\ to <= Len(text)
        BY <1>2, <1>4, <2>1 DEF text
      <3> QED BY ONLY <3>1, LinesCut
    <2> QED BY <1>9, <2>2 DEF at
  <1>11. result' = (before \o r.new) \o (kept \o rest)
    <2>1. From = r.at /\ From + r.len + 1 = end + 1
      BY <1>2, <1>10 DEF End
    <2> QED BY <1>1, <1>10, <2>1
  <1> DEFINE tail == kept \o rest
  <1>12. tail \in Seq(Native!Lines)
    BY <1>5, ConcatProperties
  <1>13. result' = before \o (r.new \o tail) /\ r.new \o tail \in Seq(Native!Lines)
    <2> HIDE DEF tail, before, kept
    <2>1. result' = (before \o r.new) \o tail
      BY <1>11 DEF tail
    <2>2. (before \o r.new) \o tail = before \o (r.new \o tail)
      <3>1. before \in Seq(Native!Lines) /\ r.new \in Seq(Native!Lines) /\ tail \in Seq(Native!Lines)
        BY <1>2, <1>6, <1>12
      <3> HIDE DEF r
      <3> QED BY ONLY <3>1, LinesRegroup
    <2>3. r.new \o tail \in Seq(Native!Lines)
      BY <1>2, <1>12, ConcatProperties
    <2> QED BY <2>1, <2>2, <2>3
  <1>14. f[M] = f[2 * (left - 1) + 1] \o (r.new \o tail)
    <2> DEFINE a == 2 * (left - 1) + 1
               b == 2 * left
               c == 2 * left + 1
    <2>1. a \in 1..M /\ b \in 2..M /\ c \in 2..M /\ b - 1 = a /\ c - 1 = b
      BY <1>2
    <2>2. DOMAIN Pieces = 1..M
      BY DEF Pieces
    <2>3. Pieces[b] = r.new /\ Pieces[c] = kept
      BY <1>5
    <2>4. f[M] = f[c] \o rest
      BY <1>9
    <2> HIDE DEF a, b, c, M, kept
    <2>5. f[b] = f[a] \o r.new /\ f[c] = f[b] \o kept
      BY <2>1, <2>3 DEF Flattens
    <2>6. f[a] \in Seq(Native!Lines) /\ f[b] \in Seq(Native!Lines)
      <3>1. b \in 1..M
        BY <2>1
      <3> QED BY <2>1, <2>2, <3>1
    <2>7. f[M] = f[b] \o tail
      <3>1. (f[b] \o kept) \o rest = f[b] \o (kept \o rest)
        <4>1. f[b] \in Seq(Native!Lines) /\ kept \in Seq(Native!Lines) /\ rest \in Seq(Native!Lines)
          BY <1>5, <2>6
        <4> QED BY ONLY <4>1, LinesRegroup
      <3> QED BY <2>4, <2>5, <3>1 DEF tail
    <2> HIDE DEF tail
    <2>8. f[M] = f[a] \o (r.new \o tail)
      <3>1. (f[a] \o r.new) \o tail = f[a] \o (r.new \o tail)
        <4>1. f[a] \in Seq(Native!Lines) /\ r.new \in Seq(Native!Lines) /\ tail \in Seq(Native!Lines)
          BY <1>2, <1>12, <2>6
        <4> HIDE DEF r
        <4> QED BY ONLY <4>1, LinesRegroup
      <3> QED BY <2>5, <2>7, <3>1
    <2> QED BY <2>8 DEF a
  <1> QED BY <1>13, <1>14

\* Computed: nothing is spliced in yet.
LEMMA SplicedFirst ==
    ASSUME Native!TypeOK, Native!TypeOK', InputInv, ResultInv, Native!Computed
    PROVE  SplicedInv'
  <1> DEFINE N == Len(replacements)
             text == input.text
             n == Len(text)
  <1>1. /\ nativePc = "computing" /\ input' = input /\ result' = result /\ left' = N
        /\ replacements' = Native!Sorted(replacements)
    BY DEF Native!Computed
  <1>2. /\ text \in Seq(Native!Lines) /\ n \in Nat /\ N \in Nat /\ result = text
    BY <1>1, NativeTypes DEF ResultInv
  <1>3. Len(replacements') = N
    BY <1>1, SortedTypes
  <1>4. Ends(left)' = n
    BY <1>1, <1>3 DEF Ends
  <1>5. text = SubSeq(text, 1, n) \o <<>>
    <2>1. /\ SubSeq(text, 0 + 1, n) \in Seq(Native!Lines) /\ Len(SubSeq(text, 0 + 1, n)) = n - 0
          /\ \A k \in 1..(n - 0) : SubSeq(text, 0 + 1, n)[k] = text[0 + k]
      BY <1>2, CutTypes
    <2> DEFINE all == SubSeq(text, 1, n)
    <2>2. all \in Seq(Native!Lines) /\ Len(all) = Len(text) /\ \A k \in 1..Len(text) : all[k] = text[k]
      BY <1>2, <2>1
    <2> HIDE DEF all
    <2>3. all = text
      BY <1>2, <2>2, SeqEqual
    <2>4. all \o <<>> = all
      BY <2>2, ConcatEmptySeq
    <2> QED BY <2>3, <2>4 DEF all
  <1> SUFFICES ASSUME NEW f \in [DOMAIN Pieces' -> Seq(Native!Lines)]
               PROVE  \E rest \in Seq(Native!Lines) :
                         /\ result' = SubSeq(text, 1, n) \o rest
                         /\ f[2 * N + 1] = f[2 * N + 1] \o rest
    BY <1>1, <1>3, <1>4 DEF SplicedInv
  <1>6. DOMAIN Pieces' = 1..(2 * N + 1)
    BY <1>3 DEF Pieces
  <1>7. f[2 * N + 1] \in Seq(Native!Lines)
    <2>1. 2 * N + 1 \in 1..(2 * N + 1)
      BY <1>2
    <2> QED BY <1>6, <2>1
  <1>8. f[2 * N + 1] = f[2 * N + 1] \o <<>>
    BY <1>7, ConcatEmptySeq
  <1>9. <<>> \in Seq(Native!Lines)
    OBVIOUS
  <1> QED BY <1>1, <1>2, <1>5, <1>8, <1>9

\* Finish: all of the file is spliced.
LEMMA SplicedLast ==
    ASSUME Native!TypeOK, InputInv, ApartInv, SplicedInv, Native!Finish
    PROVE  DoneInv'
  <1> DEFINE N == Len(replacements)
             M == 2 * N + 1
  <1>1. /\ nativePc = "splicing" /\ left = 0 /\ UNCHANGED <<input, replacements>>
        /\ result' = Native!ButBlank(result)
    BY DEF Native!Finish
  <1>2. Apart(replacements, Len(input.text)) /\ N \in Nat
    BY <1>1, NativeTypes DEF ApartInv
  <1>3. Pieces \in [1..M -> Seq(Native!Lines)] /\ DOMAIN Pieces = 1..M
    BY <1>2, PieceFacts
  <1>4. Native!Assembled = Native!FlattenSeq(Pieces)
    BY DEF Native!Assembled, Pieces, Piece
  <1>5. PICK f \in [1..M -> Seq(Native!Lines)] : Flattens(f, Pieces, M) /\ Native!FlattenSeq(Pieces) = f[M]
    <2>1. M \in Nat \ {0}
      BY <1>2
    <2> HIDE DEF M
    <2> QED BY <1>3, <2>1, FlattenFacts
  <1>6. PICK rest \in Seq(Native!Lines) :
           result = SubSeq(input.text, 1, Ends(0)) \o rest /\ f[M] = f[2 * 0 + 1] \o rest
    <2>1. f \in [DOMAIN Pieces -> Seq(Native!Lines)]
      BY <1>3
    <2> QED BY <1>1, <1>5, <2>1 DEF SplicedInv
  <1>7. f[1] = SubSeq(input.text, 1, Ends(0))
    <2>1. Pieces[2 * 0 + 1] = SubSeq(input.text, Begins(0) + 1, Ends(0))
      <3>1. 0 \in 0..N
        BY <1>2
      <3> QED BY <1>2, <3>1, PieceFacts
    <2>2. 2 * 0 + 1 = 1 /\ Begins(0) + 1 = 1
      BY DEF Begins
    <2>3. Pieces[1] = SubSeq(input.text, 1, Ends(0))
      BY <2>1, <2>2
    <2> QED BY <1>5, <2>3 DEF Flattens
  <1>8. 2 * 0 + 1 = 1
    OBVIOUS
  <1>9. result = Native!Assembled
    <2> HIDE DEF M
    <2> QED BY <1>4, <1>5, <1>6, <1>7, <1>8
  <1>10. Native!Assembled' = Native!Assembled
    BY <1>1 DEF Native!Assembled, Native!Kept
  <1> QED BY <1>1, <1>9, <1>10 DEF DoneInv, Native!ButBlank

LEMMA PlaceStep ==
    ASSUME Native!TypeOK, Native!TypeOK', InputInv, ApartInv, ResultInv, SplicedInv, DoneInv,
           [Native!Next]_(Native!vars)
    PROVE  ResultInv' /\ SplicedInv' /\ DoneInv'
  <1>1. CASE Native!Computed
    BY <1>1, SplicedFirst DEF Native!Computed, ResultInv, DoneInv
  <1>2. CASE Native!ApplyReplacement
    BY <1>2, SplicedOnce DEF Native!ApplyReplacement, ResultInv, DoneInv
  <1>3. CASE Native!Finish
    BY <1>3, SplicedLast DEF Native!Finish, ResultInv, SplicedInv
  <1>4. CASE Native!ComputeChunk
    BY <1>4 DEF Native!ComputeChunk, ResultInv, SplicedInv, DoneInv
  <1>5. CASE Native!OpenChunk \/ Native!ChangeLine \/ Native!SkipLine \/ Native!EndSection \/ Native!ChunkNotFound
    BY <1>5 DEF Native!OpenChunk, Native!ChangeLine, Native!SkipLine, Native!EndSection, Native!ChunkNotFound,
                Native!Reading, ResultInv, SplicedInv, DoneInv
  <1>6. CASE UNCHANGED Native!vars
    <2>1. Pieces' = Pieces /\ Ends(left)' = Ends(left) /\ Native!Assembled' = Native!Assembled
      BY <1>6 DEF Native!vars, Pieces, Piece, Ends, Native!Assembled, Native!Kept
    <2> QED BY <1>6, <2>1 DEF Native!vars, ResultInv, SplicedInv, DoneInv
  <1> QED BY <1>1, <1>2, <1>3, <1>4, <1>5, <1>6 DEF Native!Next, Native!Ended

-----------------------------------------------------------------------------
(* Theorems about patches side by side. *)

\* The first state of a native patch.
LEMMA NativeInit ==
    ASSUME Native!Init
    PROVE  NativeInv
  <1>1. Native!TypeOK
    <2>1. input.text \in Seq(Native!Lines) /\ input.section \in Seq(Native!SectionLines)
      BY InputsAssumption DEF Native!Init
    <2> QED BY <2>1, LenProperties DEF Native!Init, Native!TypeOK
  <1>2. FoundInv
    BY DEF Native!Init, FoundInv
  <1> QED BY <1>1, <1>2 DEF Native!Init, NativeInv, InputInv, ApartInv, ResultInv, SplicedInv, DoneInv

LEMMA NativeStep ==
    ASSUME NoBlankEnd, NativeInv, [Native!Next]_(Native!vars)
    PROVE  NativeInv'
  <1>1. Native!TypeOK' /\ InputInv'
    BY NativeTypeStep DEF NativeInv
  <1>2. FoundInv' /\ ApartInv'
    BY FoundStep, ApartStep DEF NativeInv
  <1>3. ResultInv' /\ SplicedInv' /\ DoneInv'
    BY <1>1, PlaceStep DEF NativeInv
  <1> QED BY <1>1, <1>2, <1>3 DEF NativeInv

\* A behaviour of calls on files, seen alone.
LEMMA EitherFiles == SpecEither => Spec
  <1>1. InitEither => Init
    BY DEF InitEither
  <1>2. [NextEither]_<<subject, vars, nativeVars>> => [Next]_vars
    BY DEF NextEither
  <1> QED BY <1>1, <1>2, PTL DEF SpecEither, Spec

\* What remote_patch computes for an "*** Update File:" section is sound whatever the lines,
\* the chunks and the file are, but for a file that ends with an empty line: the replacements
\* found for the chunks lie in the file one behind the other, so that none takes lines another
\* one takes, and the file that is written is the old one with each in the place of its lines.
THEOREM NativeSplicesInPlace ==
    ASSUME NoBlankEnd
    PROVE  SpecEither => []SplicedInPlace
  <1> DEFINE IInv == subject = "native" => NativeInv
  <1>1. InitEither => IInv
    BY NativeInit DEF InitEither
  <1>2. IInv /\ [NextEither]_<<subject, vars, nativeVars>> => IInv'
    <2> SUFFICES ASSUME IInv, [NextEither]_<<subject, vars, nativeVars>>, subject' = "native"
                 PROVE  NativeInv'
      OBVIOUS
    <2>1. subject = "native" /\ NativeInv
      BY DEF NextEither
    <2>2. [Native!Next]_(Native!vars)
      BY <2>1 DEF NextEither, nativeVars, Native!vars
    <2> QED BY <2>1, <2>2, NativeStep
  <1>3. IInv => SplicedInPlace
    BY DEF NativeInv, ApartInv, Apart, DoneInv, End, Native!SplicedInPlace, SplicedInPlace
  <1> QED BY <1>1, <1>2, <1>3, PTL DEF SpecEither

=============================================================================
