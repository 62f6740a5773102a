----------------------------- MODULE EditInputs -----------------------------
(***************************************************************************)
(* Edits to make: small texts whose white, endings, blocks or escapes      *)
(* differ from those of oldString.                                         *)
(***************************************************************************)
EXTENDS Integers, Sequences, SequencesExt

CONSTANTS None, Mark

Edits(contents, olds, news, all) == [content : contents, old : olds, new : news, all : all]

\* Every short text with spaces and newlines, and every short oldString.
WhiteTexts(n) == BoundedSeq({"x", "sp", "nl"}, n)
WhiteEdits == Edits(WhiteTexts(3), WhiteTexts(3), {<<Mark>>}, {FALSE})
                  \cup Edits([1..4 -> {"x", "sp", "nl"}], WhiteTexts(2), {<<Mark>>}, {FALSE})
                  \cup Edits([1..4 -> {"x", "sp"}], WhiteTexts(2), {<<Mark>>}, {TRUE})
                  \cup Edits(WhiteTexts(3), WhiteTexts(2), {<<"x", "x">>}, {TRUE})
                  \cup Edits({None}, WhiteTexts(1), {<<Mark>>}, {FALSE})

\* Texts of whole lines, with one ending or the other.
Joined(lines, ending, last) ==
    FlattenSeq([k \in 1..Len(lines) |-> lines[k] \o (IF k < Len(lines) \/ last THEN ending ELSE <<>>)])
Endings == {<<"nl">>, <<"cr", "nl">>}
TextsOf(lines, least, most, endings, ended) ==
    {Joined(ls, e, last) : ls \in UNION {[1..n -> lines] : n \in least..most}, e \in endings, last \in ended}

EndingEdits ==
    LET texts == TextsOf({<<"x">>, <<"sp", "x">>, <<"y">>}, 1, 2, Endings, BOOLEAN)
                 \cup TextsOf({<<"sp", "x">>, <<"y">>}, 3, 3, Endings, {FALSE})
        words == {<<"x">>, <<"y">>}
        news == {<<Mark, "nl", Mark>>, <<Mark, "cr", "nl">>, <<"x", "nl">>}
    IN  Edits(texts, TextsOf(words, 1, 1, Endings, BOOLEAN) \cup TextsOf(words, 2, 2, Endings, {FALSE}),
              news, {FALSE})
        \cup Edits({<<"bom">> \o t : t \in texts}, TextsOf(words, 1, 1, Endings, {TRUE}),
                   news \cup {<<"bom", Mark>>}, {FALSE})

\* Blocks between alike lines.
BlockEdits ==
    LET texts(lines, n) == TextsOf(lines, n, n, {<<"nl">>}, {FALSE})
        words == {<<"x">>, <<"y">>}
        uneven == {<<"x">>, <<>>, <<"x", "y">>}
    IN  Edits(texts(uneven, 3), texts(uneven, 3) \cup {Append(t, "nl") : t \in texts(words, 3)},
              {<<Mark>>}, {FALSE})
        \cup Edits(texts({<<"x">>, <<"x", "y">>}, 4), texts(uneven, 3), {<<Mark>>}, {FALSE})
        \cup Edits(texts(words, 5), texts(words, 3) \cup texts(words, 4), {<<Mark>>}, {FALSE})

\* Two of them, with little but empty lines inside.
Sparse(first, last) == <<<<"x">>, first, <<>>, <<>>, <<>>, last, <<"y">>>>
SparseEdits ==
    LET words == {<<"x", "y">>, <<"y", "x">>}
        one == {Sparse(f, l) : f \in words, l \in words}
        apart == {Sparse(<<"x", "y">>, <<"y", "x">>), Sparse(<<"y", "x">>, <<"x", "y">>)}
        lf == <<"nl">>
    IN  Edits({Joined(s \o t, lf, FALSE) : s \in apart, t \in apart}, {Joined(s, lf, FALSE) : s \in one},
              {<<Mark>>}, {FALSE})

EscapeTexts(n) == BoundedSeq({"x", "nl", "esc"}, n)
EscapeEdits == Edits(EscapeTexts(3), EscapeTexts(2), {<<Mark>>}, {FALSE})

EditsToMake == WhiteEdits \cup EndingEdits \cup BlockEdits \cup SparseEdits \cup EscapeEdits

=============================================================================
