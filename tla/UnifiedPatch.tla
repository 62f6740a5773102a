---------------------------- MODULE UnifiedPatch ----------------------------
(***************************************************************************)
(* remote_patch on one file of a unified diff (tools/remote-patch.ts):     *)
(* parseUnifiedPatch reads the diff line by line, parseAndPrepareUnified   *)
(* refuses a section without hunks, and applyUnifiedDiff applies the hunks *)
(* from the last to the first, each where findHunkPosition finds its old   *)
(* lines.                                                                  *)
(*                                                                         *)
(* A line of a file is a member of Lines.  A text is its lines and whether *)
(* a newline ends the last one.  A line of the diff has the tag its first  *)
(* characters are, so that of a removed line whose text is in Dashed reads *)
(* as the "--- " of a file header.  Positions count from 0, as the code's. *)
(***************************************************************************)
EXTENDS Integers, Sequences, SequencesExt

CONSTANTS Lines,
          Plain,     \* each line without its carriage return
          Dashed,    \* the lines that begin with "-- "
          Inputs,    \* [text, diff, base, new]: the diff is one of base and new
          Window,    \* how far from its line a hunk is looked for (20)
          None

Body == {" ", "-", "+"}
DiffLines ==
    [tag : {"---"}, text : {None}] \cup [tag : {"@@"}, start : Nat]
        \cup [tag : Body, text : Lines] \cup [tag : {"no newline"}, text : {None}]
Texts == [lines : Seq(Lines), newline : BOOLEAN]
Hunks == [oldStart : Nat, lines : Seq([tag : Body, text : Lines])]

VARIABLES
    input,      \* the text, the diff and where the diff comes from
    pc,         \* parsing, applying, done, or failed
    i,          \* lines of the diff that were parsed
    files,      \* the hunks of each section parsed so far
    h,          \* hunks of the first section still to apply
    lines,      \* the lines of the file
    result      \* the new text, or None

vars == <<input, pc, i, files, h, lines, result>>

TypeOK ==
    /\ input.text \in Texts /\ input.diff \in Seq(DiffLines)
    /\ pc \in {"parsing", "applying", "done", "failed"}
    /\ i \in 0..Len(input.diff)
    /\ files \in Seq(Seq(Hunks))
    /\ h \in Nat /\ lines \in Seq(Lines)
    /\ result \in Texts \cup {None}

Init ==
    /\ input \in Inputs
    /\ pc = "parsing" /\ i = 0 /\ files = <<>>
    /\ h = 0 /\ lines = input.text.lines /\ result = None

-----------------------------------------------------------------------------
(* parseUnifiedPatch *)

\* The handler takes the carriage returns out of the patch before it is parsed; the
\* lines of the file keep theirs.
Line == LET l == input.diff[i + 1]
        IN  IF l.tag \in Body THEN [l EXCEPT !.text = Plain[@]] ELSE l

IsHeader(l) == l.tag = "---" \/ (l.tag = "-" /\ l.text \in Dashed)
Parsing == pc = "parsing" /\ i < Len(input.diff)
Current == IF files = <<>> THEN <<>> ELSE Last(files)
WithCurrent(hunks) == Append(Front(files), hunks)

ParseHeader ==
    /\ Parsing /\ IsHeader(Line)
    /\ files' = Append(files, <<>>)
    /\ i' = i + 1
    /\ UNCHANGED <<input, pc, h, lines, result>>

ParseHunk ==
    /\ Parsing /\ Line.tag = "@@" /\ files # <<>>
    /\ files' = WithCurrent(Append(Current, [oldStart |-> Line.start, lines |-> <<>>]))
    /\ i' = i + 1
    /\ UNCHANGED <<input, pc, h, lines, result>>

ParseBody ==
    /\ Parsing /\ Line.tag \in Body /\ ~ IsHeader(Line) /\ Current # <<>>
    /\ files' = WithCurrent(Append(Front(Current),
                    [Last(Current) EXCEPT !.lines = Append(@, Line)]))
    /\ i' = i + 1
    /\ UNCHANGED <<input, pc, h, lines, result>>

\* Any other line, "\ No newline at end of file" among them.
ParseOther ==
    /\ Parsing /\ ~ IsHeader(Line)
    /\ Line.tag = "@@" => files = <<>>
    /\ Line.tag \in Body => Current = <<>>
    /\ i' = i + 1
    /\ UNCHANGED <<input, pc, files, h, lines, result>>

\* A section without hunks is refused.  A further section is of another file,
\* that may not be there or may not fit.
Prepare ==
    /\ pc = "parsing" /\ i = Len(input.diff)
    /\ \/ /\ files # <<>> /\ \A s \in 1..Len(files) : files[s] # <<>>
          /\ pc' = "applying" /\ h' = Len(files[1])
       \/ /\ files = <<>> \/ Len(files) > 1 \/ \E s \in 1..Len(files) : files[s] = <<>>
          /\ pc' = "failed" /\ UNCHANGED h
    /\ UNCHANGED <<input, i, files, lines, result>>

-----------------------------------------------------------------------------
(* findHunkPosition *)

TextsOf(hunk, tags) ==
    LET kept == SelectSeq(hunk.lines, LAMBDA l : l.tag \in tags)
    IN  [j \in 1..Len(kept) |-> kept[j].text]
OldLines(hunk) == TextsOf(hunk, {" ", "-"})
NewLines(hunk) == TextsOf(hunk, {" ", "+"})

MatchesAt(ls, p, old) ==
    /\ 0 <= p /\ p + Len(old) <= Len(ls)
    /\ \A j \in 1..Len(old) : ls[p + j] = old[j]

\* Where it is expected, then one line up, one down, two up...
Nearer(o, q) == LET abs(n) == IF n < 0 THEN -n ELSE n
                IN  abs(o) < abs(q) \/ (abs(o) = abs(q) /\ o <= q)
Offsets(ls, hunk) ==
    {o \in -Window..Window : MatchesAt(ls, hunk.oldStart - 1 + o, OldLines(hunk))}

\* The position, as a set of one, or of none when the hunk does not apply.
FindHunkPosition(ls, hunk) ==
    IF OldLines(hunk) = <<>>
    THEN {hunk.oldStart - 1} \cap 0..Len(ls)
    ELSE {hunk.oldStart - 1 + o : o \in {q \in Offsets(ls, hunk) :
                                             \A r \in Offsets(ls, hunk) : Nearer(q, r)}}

-----------------------------------------------------------------------------
(* applyUnifiedDiff *)

Splice(ls, p, n, segment) == SubSeq(ls, 1, p) \o segment \o SubSeq(ls, p + n + 1, Len(ls))

\* Mutant: from the first hunk to the last.
NextHunkDown == files[1][Len(files[1]) - h + 1]

NextHunk == files[1][h]

ApplyHunk ==
    /\ pc = "applying" /\ h > 0
    /\ \E p \in FindHunkPosition(lines, NextHunk) :
         lines' = Splice(lines, p, Len(OldLines(NextHunk)), NewLines(NextHunk))
    /\ h' = h - 1
    /\ UNCHANGED <<input, pc, i, files, result>>

DoesNotApply ==
    /\ pc = "applying" /\ h > 0
    /\ FindHunkPosition(lines, NextHunk) = {}
    /\ pc' = "failed"
    /\ UNCHANGED <<input, i, files, h, lines, result>>

\* detectNoNewlineAtEnd looks for a line that no hunk has: there is no marker.
DetectNoNewlineAtEnd ==
    \E k \in 1..Len(files[1]) : \E l \in Range(files[1][k].lines) : l.tag = "no newline"

EndsWithNewline == ~ DetectNoNewlineAtEnd /\ lines # <<>>

Finish ==
    /\ pc = "applying" /\ h = 0
    /\ pc' = "done"
    /\ result' = [lines |-> lines, newline |-> EndsWithNewline]
    /\ UNCHANGED <<input, i, files, h, lines>>

Ended == pc \in {"done", "failed"} /\ UNCHANGED vars

Next == \/ ParseHeader \/ ParseHunk \/ ParseBody \/ ParseOther \/ Prepare
        \/ ApplyHunk \/ DoesNotApply \/ Finish \/ Ended

Spec == Init /\ [][Next]_vars

-----------------------------------------------------------------------------
(* Properties. *)

OwnBase == input.text = input.base

\* No removed line reads as a header.
NoHeaderInside == Range(input.base.lines) \cap Dashed = {}

\* No line that the diff shows has a carriage return.
NoCarriageReturn == \A l \in Range(input.diff) : l.tag \in Body => Plain[l.text] = l.text

\* Others put lines before those of the base, and no line is there twice or moved.
Drift == SubSeq(input.text.lines, 1, Len(input.text.lines) - Len(input.base.lines))
Common(ls, with) == SelectSeq(ls, LAMBDA l : l \in Range(with))
Unambiguous ==
    LET base == input.base.lines new == input.new.lines
    IN  /\ IsInjective(input.text.lines) /\ IsInjective(Drift \o new)
        /\ Common(base, new) = Common(new, base)

\* A diff of the file as it is, in which no line has a carriage return, is never refused
\* and gives exactly the file it was made for, whatever it changes and however it is cut
\* into hunks.  So it is when the file has since drifted by a few lines and no line can
\* be taken for another; the lines of others, and those not shown, are left alone.
YieldsNew ==
    /\ pc \in {"done", "failed"} /\ NoHeaderInside /\ NoCarriageReturn
    /\ OwnBase \/ (Len(Drift) <= Window /\ Unambiguous)
    => pc = "done" /\ result.lines = Drift \o input.new.lines

-----------------------------------------------------------------------------
(* What is said of the code and it does not keep: README, section Deviations. *)

\* Whether the last line of the new file is ended is what the diff says it is.
NewlineKept == pc = "done" /\ OwnBase => result.newline = input.new.newline

\* A diff of the file as it is gives the new file, whatever ends its lines.
CrlfYieldsNew ==
    pc \in {"done", "failed"} /\ NoHeaderInside /\ OwnBase
        => pc = "done" /\ result.lines = input.new.lines

=============================================================================
