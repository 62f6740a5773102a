------------------------------ MODULE EditText ------------------------------
(***************************************************************************)
(* The text side of remote_edit (tools/remote-edit.ts): the line endings   *)
(* of the file are given to both strings, then replaceContent looks for    *)
(* oldString with nine replacers, from the strictest to the loosest.  Each *)
(* yields candidates; the first that is in the file, and there once unless *)
(* replaceAll is set, is what newString takes the place of.                *)
(*                                                                         *)
(* A text is a sequence of characters.  Besides letters there are a space, *)
(* the two of a line ending, a byte order mark, and "esc", which stands    *)
(* for a backslash and an n and is unescaped to a newline.                 *)
(***************************************************************************)
EXTENDS Integers, Sequences, SequencesExt, FiniteSets, FiniteSetsExt

CONSTANTS Letters,
          Inputs,    \* [content, old, new, all], the content None where there is no file
          MaxText,   \* bound on the text a replaceAll grows
          Mark,      \* a letter that no file has
          None

White == {"sp", "nl", "cr", "bom"}
Characters == Letters \cup White \cup {"esc"}

VARIABLES
    input,
    pc,         \* preparing, searching, replacing, writing, done, or failed
    content,    \* the file's text, without its byte order mark
    oldString, newString,   \* with the file's line endings
    r,          \* the replacer that is tried
    search,     \* the candidate that was taken
    at,         \* where it is replaced next, counted from 0
    result

vars == <<input, pc, content, oldString, newString, r, search, at, result>>

TypeOK ==
    /\ input.all \in BOOLEAN
    /\ pc \in {"preparing", "searching", "replacing", "writing", "done", "failed"}
    /\ \A t \in {content, oldString, newString, search, result} : t \in Seq(Characters)
    /\ r \in 1..10 /\ at \in 0..Len(result)

Init ==
    /\ input \in Inputs
    /\ pc = "preparing" /\ r = 1 /\ at = 0
    /\ content = <<>> /\ oldString = <<>> /\ newString = <<>>
    /\ search = <<>> /\ result = <<>>

-----------------------------------------------------------------------------
(* Texts. *)

Places(s, t) == {p \in 0..(Len(t) - Len(s)) : SubSeq(t, p + 1, p + Len(s)) = s}
Occurs(s, t) == Places(s, t) # {}
Ordered(positions, n) == SelectSeq([p \in 1..n |-> p], LAMBDA p : p \in positions)
Picked(s, positions) == LET order == Ordered(positions, Len(s))
                        IN  [k \in 1..Len(order) |-> s[order[k]]]

\* trim()
Solid(t) == {p \in 1..Len(t) : t[p] \notin White}
Trim(t) == LET solid == Solid(t)
           IN  IF solid = {} THEN <<>> ELSE SubSeq(t, Min(solid), Max(solid))

\* normalizeWhitespace: one space for each run of white.
NormalizeWhitespace(t) ==
    LET u == Trim(t)
        kept == Picked(u, {p \in 1..Len(u) : ~ (u[p] \in White /\ u[p + 1] \in White)})
    IN  [k \in 1..Len(kept) |-> IF kept[k] \in White THEN "sp" ELSE kept[k]]

\* split("\n"), and the text of every n lines in a row.
Cuts(t) == <<0>> \o Ordered({p \in 1..Len(t) : t[p] = "nl"}, Len(t)) \o <<Len(t) + 1>>
Blocks(t, n) == LET cuts == Cuts(t)
                IN  [k \in 1..Max({0, Len(cuts) - n}) |-> SubSeq(t, cuts[k] + 1, cuts[k + n] - 1)]
LinesOf(t) == Blocks(t, 1)
TrimmedLines(ls) == [k \in 1..Len(ls) |-> Trim(ls[k])]
\* The "" behind a last newline is popped.
SearchLines(find) == LET ls == LinesOf(find) IN IF Last(ls) = <<>> THEN Front(ls) ELSE ls

\* normalizeLineEndings and convertToLineEnding
NormalizeLineEndings(t) ==
    Picked(t, {p \in 1..Len(t) : ~ (t[p] = "cr" /\ p < Len(t) /\ t[p + 1] = "nl")})
ConvertToLineEnding(t, crlf) ==
    IF crlf THEN FlattenSeq([p \in 1..Len(t) |-> IF t[p] = "nl" THEN <<"cr", "nl">> ELSE <<t[p]>>])
    ELSE t

SplitBom(t) == IF t # <<>> /\ t[1] = "bom" THEN Tail(t) ELSE t
HasBom(t) == t # SplitBom(t)
JoinBom(t, bom) == (IF bom THEN <<"bom">> ELSE <<>>) \o SplitBom(t)

-----------------------------------------------------------------------------
(* The handler, up to replaceContent. *)

File == IF input.content = None THEN <<>> ELSE input.content

\* The strings are the same, or there is no file to find the old one in.
Refuse ==
    /\ pc = "preparing"
    /\ input.old = input.new \/ (input.content = None /\ input.old # <<>>)
    /\ pc' = "failed"
    /\ UNCHANGED <<input, content, oldString, newString, r, search, at, result>>

\* Mutant: newString keeps the line endings it came with.
WithEndingsOld(s, crlf) == IF s = input.new THEN s
                           ELSE ConvertToLineEnding(NormalizeLineEndings(s), crlf)

WithEndings(s, crlf) == ConvertToLineEnding(NormalizeLineEndings(s), crlf)

\* An empty oldString is the whole file.
Prepare ==
    /\ pc = "preparing"
    /\ input.old # input.new /\ (input.content = None => input.old = <<>>)
    /\ LET text == SplitBom(File)
           crlf == Occurs(<<"cr", "nl">>, text)
           old == WithEndings(input.old, crlf)
           new == WithEndings(input.new, crlf)
       IN  /\ content' = text /\ oldString' = old /\ newString' = new
           /\ \/ old = new /\ pc' = "failed" /\ UNCHANGED result
              \/ old # new /\ old = <<>> /\ pc' = "writing" /\ result' = new
              \/ old # new /\ old # <<>> /\ pc' = "searching" /\ result' = text
    /\ UNCHANGED <<input, r, search, at>>

-----------------------------------------------------------------------------
(* The replacers: the candidates of each, in the order it yields them. *)

\* Mutant: only the first of the lines is compared.
LineTrimmedFirst(t, find) ==
    LET lines == TrimmedLines(SearchLines(find))
    IN  SelectSeq(Blocks(t, Len(lines)), LAMBDA b : Head(TrimmedLines(LinesOf(b))) = Head(lines))

LineTrimmed(t, find) ==
    LET lines == TrimmedLines(SearchLines(find))
    IN  SelectSeq(Blocks(t, Len(lines)), LAMBDA b : TrimmedLines(LinesOf(b)) = lines)

\* Where a line like find's first has one like its last two lines on or later.
Spans(t, find) ==
    LET lines == TrimmedLines(LinesOf(t))
        searched == TrimmedLines(SearchLines(find))
        ends(i) == {j \in (i + 2)..Len(lines) : lines[j] = Last(searched)}
        starts == {i \in 1..Len(lines) : lines[i] = Head(searched) /\ ends(i) # {}}
        order == Ordered(starts, Len(lines))
    IN  IF Len(LinesOf(find)) < 3 THEN <<>>
        ELSE [k \in 1..Len(order) |-> [from |-> order[k], to |-> Min(ends(order[k]))]]
SpanText(t, span) == Blocks(t, span.to - span.from + 1)[span.from]

Levenshtein(s, t) ==
    LET cost[i \in 0..Len(s), j \in 0..Len(t)] ==
            IF i = 0 \/ j = 0 THEN i + j
            ELSE Min({cost[i - 1, j] + 1, cost[i, j - 1] + 1,
                      cost[i - 1, j - 1] + (IF s[i] = t[j] THEN 0 ELSE 1)})
    IN  cost[Len(s), Len(t)]

\* In parts of Whole, which lines of up to six characters and as many lines divide.
Whole == 3600
LineSimilarity(s, t) == LET longer == Max({Len(s), Len(t)})
                        IN  IF longer = 0 THEN 0
                            ELSE (Whole * (longer - Levenshtein(s, t))) \div longer
Similarity(t, find, span) ==
    LET lines == TrimmedLines(LinesOf(t))
        searched == TrimmedLines(SearchLines(find))
        checked == Min({Len(searched), span.to - span.from + 1}) - 2
        like == [k \in 1..checked |-> LineSimilarity(lines[span.from + k], searched[k + 1])]
    IN  IF checked <= 0 THEN Whole ELSE FoldLeft(LAMBDA x, y : x + y, 0, like) \div checked

\* A single span is taken whatever is in it, else the first of the most similar,
\* when it is similar enough.
BlockAnchor(t, find) ==
    LET spans == Spans(t, find)
        like == {<<Similarity(t, find, spans[k]), k>> : k \in 1..Len(spans)}
        most == Max({s[1] : s \in like})
        best == Min({s[2] : s \in {x \in like : x[1] = most}})
    IN  IF spans # <<>> /\ (Len(spans) = 1 \/ 10 * most >= 3 * Whole)
        THEN <<SpanText(t, spans[best])>> ELSE <<>>

\* A line that is find but for its white, or its first part that is; then blocks
\* of as many lines.
WhitespaceNormalized(t, find) ==
    LET normalized == NormalizeWhitespace(find)
        lines == LinesOf(t)
        parts(l) == IF normalized = <<>> THEN {<<1, 0>>}
                    ELSE {<<p, q>> \in Solid(l) \X Solid(l) :
                             p <= q /\ NormalizeWhitespace(SubSeq(l, p, q)) = normalized}
        first(found) == CHOOSE m \in found : \A n \in found : m[1] <= n[1]
        part(l, found) == IF found = {} THEN <<>>
                          ELSE <<SubSeq(l, first(found)[1], first(found)[2])>>
        inLine(l) == IF NormalizeWhitespace(l) = normalized THEN <<l>> ELSE part(l, parts(l))
        height == Len(LinesOf(find))
    IN  FlattenSeq([k \in 1..Len(lines) |-> inLine(lines[k])])
        \o (IF height = 1 THEN <<>>
            ELSE SelectSeq(Blocks(t, height), LAMBDA b : NormalizeWhitespace(b) = normalized))

RemoveIndentation(t) ==
    LET lines == LinesOf(t)
        written == {k \in 1..Len(lines) : Solid(lines[k]) # {}}
        indent == Min({Min(Solid(lines[k])) - 1 : k \in written})
    IN  [k \in 1..Len(lines) |-> IF k \in written THEN SubSeq(lines[k], indent + 1, Len(lines[k]))
                                 ELSE lines[k]]
IndentationFlexible(t, find) ==
    SelectSeq(Blocks(t, Len(LinesOf(find))),
              LAMBDA b : RemoveIndentation(b) = RemoveIndentation(find))

IfThere(s, t) == IF Occurs(s, t) THEN <<s>> ELSE <<>>

Unescape(t) == [p \in 1..Len(t) |-> IF t[p] = "esc" THEN "nl" ELSE t[p]]
EscapeNormalized(t, find) ==
    LET unescaped == Unescape(find)
    IN  IfThere(unescaped, t)
        \o SelectSeq(Blocks(t, Len(LinesOf(unescaped))), LAMBDA b : Unescape(b) = unescaped)

TrimmedBoundary(t, find) ==
    IF Trim(find) = find THEN <<>>
    ELSE IfThere(Trim(find), t)
         \o SelectSeq(Blocks(t, Len(LinesOf(find))), LAMBDA b : Trim(b) = Trim(find))

\* Spans as long as find with half of the lines between alike, or all of them empty.
ContextAware(t, find) ==
    LET lines == TrimmedLines(LinesOf(t))
        searched == TrimmedLines(SearchLines(find))
        there(span, k) == lines[span.from + k - 1]
        between(span) == {k \in 2..(Len(searched) - 1) : there(span, k) # <<>> \/ searched[k] # <<>>}
        alike(span) == {k \in between(span) : there(span, k) = searched[k]}
        spans == SelectSeq(Spans(t, find),
                     LAMBDA s : /\ s.to - s.from + 1 = Len(searched)
                                /\ 2 * Cardinality(alike(s)) >= Cardinality(between(s)))
    IN  [k \in 1..Len(spans) |-> SpanText(t, spans[k])]

Candidates(t, find) ==
    CASE r = 1 -> <<find>>
      [] r = 2 -> LineTrimmed(t, find)
      [] r = 3 -> BlockAnchor(t, find)
      [] r = 4 -> WhitespaceNormalized(t, find)
      [] r = 5 -> IndentationFlexible(t, find)
      [] r = 6 -> EscapeNormalized(t, find)
      [] r = 7 -> TrimmedBoundary(t, find)
      [] r = 8 -> ContextAware(t, find)
      [] r = 9 -> IfThere(find, t)

-----------------------------------------------------------------------------
(* replaceContent *)

\* Once, unless all are to be replaced.
Usable(s) == Occurs(s, content) /\ (input.all \/ Cardinality(Places(s, content)) = 1)

Take ==
    /\ pc = "searching" /\ r <= 9
    /\ LET candidates == Candidates(content, oldString)
           usable == {k \in 1..Len(candidates) : Usable(candidates[k])}
       IN  \/ /\ usable # {}
              /\ pc' = "replacing"
              /\ search' = candidates[Min(usable)]
              /\ at' = Min(Places(search', content))
              /\ UNCHANGED r
           \/ /\ usable = {}
              /\ r' = r + 1
              /\ UNCHANGED <<pc, search, at>>
    /\ UNCHANGED <<input, content, oldString, newString, result>>

\* Not found, or found more than once.
GiveUp ==
    /\ pc = "searching" /\ r = 10
    /\ pc' = "failed"
    /\ UNCHANGED <<input, content, oldString, newString, r, search, at, result>>

\* Mutant: the next search starts where the replaced text ended before.
AfterOld == at + Len(search)

After == at + Len(newString)

Replace ==
    /\ pc = "replacing" /\ Len(result) <= MaxText
    /\ result' = SubSeq(result, 1, at) \o newString \o SubSeq(result, at + Len(search) + 1, Len(result))
    /\ LET more == {p \in Places(search, result') : input.all /\ p >= After}
       IN  \/ more = {} /\ pc' = "writing" /\ UNCHANGED at
           \/ more # {} /\ at' = Min(more) /\ UNCHANGED pc
    /\ UNCHANGED <<input, content, oldString, newString, r, search>>

\* The mirror is written, with the byte order mark the file had or newString brings.
Write ==
    /\ pc = "writing"
    /\ pc' = "done"
    /\ result' = JoinBom(result, HasBom(File) \/ HasBom(result))
    /\ UNCHANGED <<input, content, oldString, newString, r, search, at>>

\* The answer is given, or the text has grown to the bound and goes on growing.
Ended == pc \in {"done", "failed"} /\ UNCHANGED vars
GrowsOn == pc = "replacing" /\ Len(result) > MaxText /\ UNCHANGED vars

Next == Refuse \/ Prepare \/ Take \/ GiveUp \/ Replace \/ Write \/ Ended \/ GrowsOn

Spec == Init /\ [][Next]_vars

-----------------------------------------------------------------------------
(* Properties. *)

Answered == pc \in {"done", "failed"}
Exact == Occurs(oldString, content)
Once == Cardinality(Places(oldString, content)) = 1
Found == IF input.all THEN Exact ELSE Once

\* Nothing but the words of a line tells its places apart.
Plain(t) == \A p \in 1..Len(t) : t[p] \in Letters \cup {"nl"}
OneWord == oldString # <<>> /\ \A p \in 1..Len(oldString) : oldString[p] \in Letters

\* The text before, told from the one after by a mark only newString has.
Marked == newString = <<Mark>> /\ \A p \in 1..Len(content) : content[p] # Mark
Undone == FlattenSeq([p \in 1..Len(result) |-> IF result[p] = Mark THEN oldString ELSE <<result[p]>>])

\* An oldString that is in the file as it stands is replaced there and nowhere
\* else, once, or everywhere with replaceAll; a word of a file without indentation
\* that is there more than once is refused, never guessed.
ExactEdit ==
    Answered /\ oldString # <<>> /\ Exact /\ Marked =>
        CASE input.all -> /\ pc = "done" /\ SplitBom(Undone) = content
                          /\ ~ Occurs(oldString, result)
          [] ~ input.all /\ Once -> pc = "done" /\ SplitBom(Undone) = content
          [] OTHER -> Plain(content) /\ OneWord => pc = "failed"

\* However loosely the old text was found, it has the words of oldString, unescaped
\* at most; of three lines or more, the first and the last have.
SameWords ==
    pc \in {"replacing", "writing", "done"} /\ oldString # <<>> =>
        \/ NormalizeWhitespace(Unescape(search)) = NormalizeWhitespace(Unescape(oldString))
        \/ LET taken == TrimmedLines(LinesOf(search))
               lines == TrimmedLines(SearchLines(oldString))
           IN  /\ Len(LinesOf(oldString)) >= 3 /\ Len(taken) >= 3
               /\ Head(taken) = Head(lines) /\ Last(taken) = Last(lines)

\* Every newline is one of a CRLF, or none is.
Uniform(t, crlf) ==
    /\ \A p \in 1..Len(t) : t[p] = "nl" => (p > 1 /\ t[p - 1] = "cr") = crlf
    /\ \A p \in 1..Len(t) : t[p] = "cr" => p < Len(t) /\ t[p + 1] = "nl"

\* An edit leaves the line endings of a file as they were, whatever those of its
\* strings (of a CRLF file, when oldString is found as it is), and its byte order mark.
FormatKept ==
    pc = "done" /\ input.content # None =>
        /\ \A crlf \in BOOLEAN :
              /\ Uniform(content, crlf)
              /\ crlf => Found /\ Occurs(<<"nl">>, content)
              => Uniform(result, crlf)
        /\ HasBom(input.content) => HasBom(result)
        /\ ~ HasBom(SplitBom(result))

-----------------------------------------------------------------------------
(* What is said of the code and it does not keep: README, section Deviations. *)

\* An oldString that is there more than once is refused.
AmbiguousRefused == pc = "done" /\ oldString # <<>> /\ ~ input.all /\ Exact => Once

\* A CRLF file stays one.
CrlfKept == pc = "done" /\ Occurs(<<"nl">>, content) /\ Uniform(content, TRUE) => Uniform(result, TRUE)

\* Every edit ends.
Ends == Len(result) <= MaxText

=============================================================================
