---------------------------- MODULE NativeInputs ----------------------------
(***************************************************************************)
(* Native patches to apply: the sections of small scripts.                 *)
(***************************************************************************)
EXTENDS PatchScripts, FiniteSetsExt

CONSTANTS Words, None,
          Bare   \* the first chunk may come without its "@@"

Styles == {"lead", "trail", "cr", "odd"}
Blank == [word |-> None, style |-> {}]
Word(w) == [word |-> w, style |-> {}]
Written(ls, style) == [n \in 1..Len(ls) |-> IF ls[n] = Blank THEN Blank ELSE [ls[n] EXCEPT !.style = style]]

\* The context of a hunk: none, or an old line between the last hunk and its own.
Contexts(s, m, k) ==
    LET past == {e \in m : e < k}
        from == IF past = {} THEN 1 ELSE Max(past) + 1
        first == {n \in k..EndOf(m, k) : s[n].tag # "+"}
    IN  {Blank} \cup {s[n].text : n \in from..(k - 1)}
            \cup (IF first = {} THEN {} ELSE {s[Min(first)].text})
ContextChoices(s, m) ==
    {ctx \in [Starts(m) -> {s[n].text : n \in 1..Len(s)} \cup {Blank}] :
        \A k \in Starts(m) : ctx[k] \in Contexts(s, m, k)}

SectionOf(s, m, ctx, bare, marked) ==
    LET piece(k) ==
          (IF k \in Starts(m) /\ ~ (bare /\ k = Min(m)) THEN <<[tag |-> "@@", text |-> ctx[k]]>> ELSE <<>>)
          \o (IF k \in m THEN <<s[k]>> ELSE <<>>)
          \o (IF k = Len(s) /\ k \notin m /\ marked THEN <<[tag |-> "other", text |-> Blank]>> ELSE <<>>)
          \o (IF k = Len(s) /\ k \in m /\ marked
              THEN <<[tag |-> "*** End of File", text |-> Blank]>> ELSE <<>>)
    IN  FlattenSeq([k \in 1..Len(s) |-> piece(k)]) \o <<[tag |-> "***", text |-> Blank]>>

\* A hunk without an old line is the last, at the end of the file.
AtEnd(s, m) == \A k \in Starts(m) : Old(SubSeq(s, k, EndOf(m, k))) = <<>> => EndOf(m, k) = Len(s)

\* Every line has a word of its own; the file is spaced otherwise than the patch, but
\* both have the carriage returns of the file.
Ended(s, style) == [n \in 1..Len(s) |-> [s[n] EXCEPT !.text.style = style \cap {"cr"}]]
DistinctScripts == {[n \in 1..Len(t) |-> [tag |-> t[n], text |-> Word(n)]] :
                        t \in BoundedSeq(ScriptTags, Cardinality(Words))}
DistinctInputs ==
    UNION {UNION {{[text |-> Written(Old(s), style), section |-> SectionOf(Ended(s, style), m, ctx, FALSE, FALSE),
                    new |-> New(s)] :
                       ctx \in ContextChoices(s, m),
                       style \in {{}, {"cr"}, {"lead", "trail"}, Styles}} :
                  m \in {x \in Masks(s) : AtEnd(s, x)}} :
           s \in DistinctScripts}

\* Lines repeat, some are empty, and others have put a line before or behind.  A file
\* does not end with an empty line: inserting before it is another matter (README).
Repeated == {Word(1), Blank}
Around(ls) == {ls, <<Word(1)>> \o ls, ls \o <<Word(1)>>}
RepeatedInputs ==
    {inp \in UNION {{[text |-> text, new |-> None,
                      section |-> SectionOf(s, m, [k \in Starts(m) |-> ctx], bare, TRUE)] :
                         text \in Around(Old(s)), m \in Masks(s), ctx \in {Blank, Word(1)},
                         bare \in IF Bare THEN BOOLEAN ELSE {FALSE}} :
                    s \in Scripts(Repeated, 3)} :
        inp.text = <<>> \/ Last(inp.text) # Blank}

PatchInputs == DistinctInputs \cup RepeatedInputs

=============================================================================
