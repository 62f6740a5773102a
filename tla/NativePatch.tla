---------------------------- MODULE NativePatch ----------------------------
(***************************************************************************)
(* remote_patch on one "*** Update File:" section of a native patch        *)
(* (tools/remote-patch.ts): parseUpdateFileChunks reads its lines,         *)
(* computeReplacements finds each chunk's old lines in the file, and       *)
(* applyReplacements splices the new ones in, from the last to the first.  *)
(*                                                                         *)
(* A line is a word and how it is written: with spaces before or after it, *)
(* with a carriage return, or with characters that normalizeUnicode makes  *)
(* plain.  A file is its lines with the "" behind the last newline popped. *)
(* A line of the section has the tag its first characters are.  Positions  *)
(* count from 0.                                                           *)
(***************************************************************************)
EXTENDS Integers, Sequences, SequencesExt, FiniteSets, FiniteSetsExt

CONSTANTS Words,
          Inputs,   \* [text, section, new]: what the section makes of the text, or
                    \* None when it was made for another text
          None

Styles == {"lead", "trail", "cr", "odd"}
Lines == [word : Words \cup {None}, style : SUBSET Styles]
Blank == [word |-> None, style |-> {}]

Changes == {" ", "-", "+"}
Markers == {"*** End of File", "***"}
SectionLines == [tag : {"@@"}, text : Lines]
                    \cup [tag : Changes \cup Markers \cup {"other"}, text : Lines]
Chunks == [context : Lines \cup {None}, old : Seq(Lines), new : Seq(Lines)]
Replacements == [at : Nat, len : Nat, new : Seq(Lines)]

VARIABLES
    input,          \* the file, the section and the file it should give
    pc,             \* parsing, computing, splicing, done, or failed
    i,              \* lines of the section that were read
    chunks,
    sought,             \* chunks whose replacement was found
    lineIndex,      \* where the next search starts
    replacements,
    left,           \* replacements still to splice in
    result          \* the lines of the file

vars == <<input, pc, i, chunks, sought, lineIndex, replacements, left, result>>

TypeOK ==
    /\ input.text \in Seq(Lines) /\ input.section \in Seq(SectionLines)
    /\ pc \in {"parsing", "computing", "splicing", "done", "failed"}
    /\ i \in 0..Len(input.section)
    /\ chunks \in Seq(Chunks) /\ sought \in 0..Len(chunks)
    /\ lineIndex \in 0..Len(input.text)
    /\ replacements \in Seq(Replacements) /\ left \in 0..Len(replacements)
    /\ result \in Seq(Lines)

Init ==
    /\ input \in Inputs
    /\ pc = "parsing" /\ i = 0 /\ chunks = <<>> /\ sought = 0 /\ lineIndex = 0
    /\ replacements = <<>> /\ left = 0 /\ result = input.text

-----------------------------------------------------------------------------
(* parseUpdateFileChunks *)

\* The handler takes the carriage returns out of the patch before it is parsed; the
\* lines of the file keep theirs.
Plain(l) == [l EXCEPT !.style = @ \ {"cr"}]
Line == [input.section[i + 1] EXCEPT !.text = Plain(@)]

\* A context of spaces only is none.
ContextOf(l) == IF l.word = None THEN None ELSE [l EXCEPT !.style = @ \ {"lead", "trail"}]

\* The chunks with one more line read.
WithLine(l) ==
    LET open == Last(chunks)
        grown == CASE l.tag = " " -> [open EXCEPT !.old = Append(@, l.text), !.new = Append(@, l.text)]
                   [] l.tag = "-" -> [open EXCEPT !.old = Append(@, l.text)]
                   [] l.tag = "+" -> [open EXCEPT !.new = Append(@, l.text)]
    IN  Append(Front(chunks), grown)

Reading == pc = "parsing" /\ i < Len(input.section) /\ Line.tag \notin Markers

OpenChunk ==
    /\ Reading /\ Line.tag = "@@"
    /\ chunks' = Append(chunks, [context |-> ContextOf(Line.text), old |-> <<>>, new |-> <<>>])
    /\ i' = i + 1
    /\ UNCHANGED <<input, pc, sought, lineIndex, replacements, left, result>>

ChangeLine ==
    /\ Reading /\ Line.tag \in Changes /\ chunks # <<>>
    /\ chunks' = WithLine(Line)
    /\ i' = i + 1
    /\ UNCHANGED <<input, pc, sought, lineIndex, replacements, left, result>>

\* Lines before the first "@@", and lines without a mark.
SkipLine ==
    /\ Reading /\ Line.tag # "@@"
    /\ Line.tag \in Changes => chunks = <<>>
    /\ i' = i + 1
    /\ UNCHANGED <<input, pc, chunks, sought, lineIndex, replacements, left, result>>

\* Every line that starts with "***" ends the section, "*** End of File" too:
\* no chunk has is_end_of_file, and parsePatch skips what follows.
EndSection ==
    /\ pc = "parsing"
    /\ i < Len(input.section) => Line.tag \in Markers
    /\ pc' = "computing"
    /\ UNCHANGED <<input, i, chunks, sought, lineIndex, replacements, left, result>>

-----------------------------------------------------------------------------
(* seekSequence *)

\* The comparisons, from the strictest: as it is, trimEnd, trim, normalized.
Ignored == <<{}, {"trail", "cr"}, {"lead", "trail", "cr"}, Styles>>
Alike(x, y, level) == x.word = y.word /\ x.style \ Ignored[level] = y.style \ Ignored[level]

Matches(ls, pattern, start, level) ==
    {p \in start..(Len(ls) - Len(pattern)) :
        \A j \in 1..Len(pattern) : Alike(ls[p + j], pattern[j], level)}

\* The first match of the strictest comparison that has one: a set of one or none.
SeekSequence(ls, pattern, start) ==
    LET levels == {n \in 1..Len(Ignored) : Matches(ls, pattern, start, n) # {}}
    IN  IF pattern = <<>> \/ levels = {} THEN {}
        ELSE {Min(Matches(ls, pattern, start, Min(levels)))}

-----------------------------------------------------------------------------
(* computeReplacements *)

Chunk == chunks[sought + 1]
SeekContext == IF Chunk.context = None THEN {lineIndex}
               ELSE SeekSequence(input.text, <<Chunk.context>>, lineIndex)

\* New lines alone go to the end of the file, before a last empty line.
InsertionIdx == IF input.text # <<>> /\ Last(input.text) = Blank
                THEN Len(input.text) - 1 ELSE Len(input.text)

\* A pattern that is not found is tried without its last line, if that is empty.
ButBlank(ls) == IF ls # <<>> /\ Last(ls) = Blank THEN Front(ls) ELSE ls
SeekChunk(start) ==
    LET at(old, new) == {[at |-> p, len |-> Len(old), new |-> new] :
                             p \in SeekSequence(input.text, old, start)}
        whole == at(Chunk.old, Chunk.new)
    IN  IF whole = {} /\ Last(Chunk.old) = Blank
        THEN at(Front(Chunk.old), ButBlank(Chunk.new)) ELSE whole

Found == IF Chunk.old = <<>>
         THEN {[at |-> InsertionIdx, len |-> 0, new |-> Chunk.new] : start \in SeekContext}
         ELSE UNION {SeekChunk(start) : start \in SeekContext}

\* Mutant: the next search starts a line too far.
AfterNext(r, start) == IF r.len = 0 THEN start ELSE r.at + r.len + 1

After(r, start) == IF r.len = 0 THEN start ELSE r.at + r.len

ComputeChunk ==
    /\ pc = "computing" /\ sought < Len(chunks)
    /\ \E start \in SeekContext, r \in Found :
         /\ replacements' = Append(replacements, r)
         /\ lineIndex' = After(r, start)
    /\ sought' = sought + 1
    /\ UNCHANGED <<input, pc, i, chunks, left, result>>

ChunkNotFound ==
    /\ pc = "computing" /\ sought < Len(chunks) /\ Found = {}
    /\ pc' = "failed"
    /\ UNCHANGED <<input, i, chunks, sought, lineIndex, replacements, left, result>>

\* By position, and by the order of the chunks where that is the same.
Sorted(rs) ==
    LET before(p, q) == rs[p].at < rs[q].at \/ (rs[p].at = rs[q].at /\ p <= q)
        rank(q) == Cardinality({p \in 1..Len(rs) : before(p, q)})
    IN  [n \in 1..Len(rs) |-> rs[CHOOSE q \in 1..Len(rs) : rank(q) = n]]

Computed ==
    /\ pc = "computing" /\ sought = Len(chunks)
    /\ pc' = "splicing"
    /\ replacements' = Sorted(replacements)
    /\ left' = Len(replacements)
    /\ UNCHANGED <<input, i, chunks, sought, lineIndex, result>>

-----------------------------------------------------------------------------
(* applyReplacements *)

\* Mutant: from the first to the last.
NextFromStart == replacements[Len(replacements) - left + 1]

NextReplacement == replacements[left]

ApplyReplacement ==
    /\ pc = "splicing" /\ left > 0
    /\ LET r == NextReplacement
           from == Min({r.at, Len(result)})   \* splice never starts past the end
       IN  result' = SubSeq(result, 1, from) \o r.new \o SubSeq(result, from + r.len + 1, Len(result))
    /\ left' = left - 1
    /\ UNCHANGED <<input, pc, i, chunks, sought, lineIndex, replacements>>

\* The "" behind the last newline is there again, unless the last line is one:
\* joined and split, such a file has a line less.
Finish ==
    /\ pc = "splicing" /\ left = 0
    /\ pc' = "done"
    /\ result' = ButBlank(result)
    /\ UNCHANGED <<input, i, chunks, sought, lineIndex, replacements, left>>

Ended == pc \in {"done", "failed"} /\ UNCHANGED vars

Next == \/ OpenChunk \/ ChangeLine \/ SkipLine \/ EndSection \/ ComputeChunk \/ ChunkNotFound \/ Computed
        \/ ApplyReplacement \/ Finish \/ Ended

Spec == Init /\ [][Next]_vars

-----------------------------------------------------------------------------
(* Properties. *)

Kept(p) == LET from == IF p = 0 THEN 0 ELSE replacements[p].at + replacements[p].len
               to == IF p = Len(replacements) THEN Len(input.text) ELSE replacements[p + 1].at
           IN  SubSeq(input.text, from + 1, to)
Assembled == FlattenSeq([n \in 1..(2 * Len(replacements) + 1) |->
                 IF n % 2 = 1 THEN Kept(n \div 2) ELSE replacements[n \div 2].new])

\* The chunks' replacements lie in the file one behind the other, so that no chunk
\* takes a line another one replaces; and the new file is the old one with each in
\* the place of its lines: splicing from the end moves none that is still to come.
SplicedInPlace ==
    /\ pc \in {"splicing", "done"} =>
        \A p \in 1..Len(replacements) :
            LET end == replacements[p].at + replacements[p].len
            IN  /\ end <= Len(input.text)
                /\ \A q \in (p + 1)..Len(replacements) : end <= replacements[q].at
    /\ pc = "done" => result = ButBlank(Assembled)

\* No word is there twice: no line can be taken for another.
WordsOf(ls) == [n \in 1..Len(ls) |-> ls[n].word]
Unambiguous == /\ input.new # None
               /\ IsInjective(WordsOf(input.text)) /\ IsInjective(WordsOf(input.new))

\* A patch of a file gives the file it was made for, whatever contexts it has and
\* however the lines of the file were respaced.
YieldsNew ==
    pc \in {"done", "failed"} /\ Unambiguous
        => pc = "done" /\ WordsOf(result) = WordsOf(input.new)

-----------------------------------------------------------------------------
(* What is said of the code and it does not keep: README, section Deviations. *)

\* A success has read every line of change of the section.
Read(tags) == {n \in 1..Len(input.section) : input.section[n].tag \in tags}
LinesOf(side) == FoldLeft(LAMBDA n, c : n + Len(c[side]), 0, chunks)
NothingSkipped ==
    pc = "done" => /\ LinesOf("old") = Cardinality(Read({" ", "-"}))
                   /\ LinesOf("new") = Cardinality(Read({" ", "+"}))

\* A file whose lines all end in a carriage return stays so.
EndingsKept ==
    LET Crlf(ls) == \A n \in 1..Len(ls) : "cr" \in ls[n].style
    IN  pc = "done" /\ input.text # <<>> /\ Crlf(input.text) => Crlf(result)

\* Lines marked with "*** End of File" that end the file are replaced there.
AtEndOfFile ==
    pc = "done" /\ Read({"*** End of File"}) # {} /\ chunks # <<>>
        => LET old == Last(chunks).old
               from == Len(input.text) - Len(old)
           IN  old # <<>> /\ from >= 0 /\ SubSeq(input.text, from + 1, Len(input.text)) = old
                   => Last(replacements).at = from

=============================================================================
