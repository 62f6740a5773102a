---------------------------- MODULE UnifiedInputs ----------------------------
(***************************************************************************)
(* Unified diffs to apply: every one of a few lines, cut into hunks in every *)
(* way.                                                                    *)
(***************************************************************************)
EXTENDS PatchScripts

CONSTANTS a, ar, b, d,    \* lines of a file; ar is a with a "\r", d begins with "-- "
          None,
          Insertions     \* hunks without an old line are made too

Text(ls, ended) == [lines |-> ls, newline |-> ended /\ ls # <<>>]

\* "@@ -oldStart": the first old line, or the line before when there is none.
OldStart(s, k, e) == LET before == Len(Old(SubSeq(s, 1, k - 1)))
                     IN  IF Old(SubSeq(s, k, e)) = <<>> THEN before ELSE before + 1

\* The diff line by line, with the markers of a last line that is not ended.
Marker == [tag |-> "no newline", text |-> None]
LastOf(s, k, tags) == s[k].tag \in tags /\ \A q \in (k + 1)..Len(s) : s[q].tag \notin tags
Unended(s, k, ending) == \/ LastOf(s, k, {" ", "-"}) /\ ~ ending.base
                         \/ LastOf(s, k, {" ", "+"}) /\ ~ ending.new
DiffOf(s, m, ending) ==
    LET piece(k) ==
          (IF k \in Starts(m) THEN <<[tag |-> "@@", start |-> OldStart(s, k, EndOf(m, k))]>> ELSE <<>>)
          \o (IF k \in m THEN <<s[k]>> ELSE <<>>)
          \o (IF k \in m /\ Unended(s, k, ending) THEN <<Marker>> ELSE <<>>)
    IN  <<[tag |-> "---", text |-> None]>> \o FlattenSeq([k \in 1..Len(s) |-> piece(k)])

SameEnd(s, ending) == s # <<>> /\ s[Len(s)].tag = " " => ending.base = ending.new

\* The diffs of scripts of up to n texts, when others have put up to m before them.
DiffsOf(texts, n, m, endings) ==
    {[text |-> Text(drift \o Old(s), ending.base), base |-> Text(Old(s), ending.base),
      new |-> Text(New(s), ending.new), diff |-> DiffOf(s, mask, ending)] :
        <<s, mask, ending, drift>> \in
            UNION {{s} \X {k \in Masks(s) : Insertions \/ Anchored(s, k)}
                       \X {e \in [base : endings, new : endings] : SameEnd(s, e)}
                       \X BoundedSeq(texts, m) : s \in Scripts(texts, n)}}

\* Longer files whose lines repeat, shorter ones that have drifted, do not end in a
\* newline or have carriage returns.
DiffInputs == DiffsOf({a, b}, 4, 0, {TRUE}) \cup DiffsOf({a, b}, 3, 2, {TRUE})
                  \cup DiffsOf({a, d}, 3, 0, BOOLEAN) \cup DiffsOf({a, ar}, 3, 0, {TRUE})

=============================================================================
