----------------------------- MODULE JailInputs -----------------------------
(***************************************************************************)
(* Servers with a directory and a file in the root r and outside it, in o; *)
(* a name d in the root and a name l further down that lead to them; and   *)
(* the paths asked there.                                                  *)
(***************************************************************************)
EXTENDS Integers, Sequences, SequencesExt, TLC

CONSTANT LinkedRoot   \* the root may be a link

Dir == [kind |-> "dir"]
File == [kind |-> "file"]
Link(absolute, names) == [kind |-> "link", absolute |-> absolute, names |-> names]

\* d is missing, or leads to what is inside, outside or nowhere, or to itself.
ForD(base) ==
    {<<>>, <<"r", "d">> :> Dir, <<"r", "d">> :> File}
    \cup {<<"r", "d">> :> Link(TRUE, base \o p) : p \in {<<"r", "e">>, <<"o">>, <<"r", "e", "l">>, <<"r", "x">>}}
    \cup {<<"r", "d">> :> Link(FALSE, p) : p \in {<<"e", "f">>, <<"..", "o", "f">>, <<"x", "x">>, <<"d">>}}
ForL == {<<>>} \cup {<<"r", "e", "l">> :> Link(FALSE, p) : p \in {<<"f">>, <<"..", "d">>, <<"..", "..", "o">>}}

Fixed == (<<>> :> Dir) @@ (<<"r">> :> Dir) @@ (<<"r", "e">> :> Dir) @@ (<<"r", "e", "f">> :> File)
         @@ (<<"o">> :> Dir) @@ (<<"o", "f">> :> File)
Trees(base) ==
    {LET tree == d @@ l @@ Fixed
     IN  [p \in {base \o q : q \in DOMAIN tree} |-> tree[SubSeq(p, Len(base) + 1, Len(p))]] @@ (<<>> :> Dir)
     : d \in ForD(base), l \in ForL}

\* A server whose SFTP begins at the directory v, and one whose SFTP does not.
Servers ==
    LET at(base, root, offset) == [root : {base \o root}, offset : {offset}, fs : Trees(base)]
    IN  at(<<>>, <<"r">>, <<>>) \cup at(<<>>, <<>>, <<>>) \cup at(<<"v">>, <<"r">>, <<"v">>)
        \cup {s \in at(<<>>, <<"r", "d">>, <<>>) :
                  LinkedRoot /\ <<"r", "d">> \in DOMAIN s.fs /\ s.fs[<<"r", "d">>] = Link(TRUE, <<"r", "e">>)}

Asked(base) ==
    [absolute : {FALSE}, names : BoundedSeq({"d", "e", "f", ".."}, 2)
                                 \cup {<<"d">> \o p : p \in [1..2 -> {"d", "e", "f", ".."}]}
                                 \cup {<<"e", "l">>, <<"d", "l">>, <<"x">>, <<"x", "f">>, <<"d", "x">>}]
    \cup [absolute : {TRUE}, names : {base \o p : p \in {<<>>, <<"r">>, <<"r", "d", "f">>, <<"o", "f">>,
                                                         <<"r", "..", "o">>, <<"r", "e", "l", "f">>}}]

\* The tools that make a file take a missing one, whether they say so or not.
Asks == {[new |-> FALSE, missing |-> FALSE], [new |-> FALSE, missing |-> TRUE], [new |-> TRUE, missing |-> TRUE]}

PathsToJudge == UNION {[asked : Asked(s.offset), root : {s.root}, offset : {s.offset}, fs : {s.fs}] : s \in Servers}

=============================================================================
