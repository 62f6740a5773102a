--------------------------- MODULE PatchScripts ---------------------------
(***************************************************************************)
(* Patches to try: a script lists the lines two files share, " ", and      *)
(* those that only one of them has; a mask says which lines a patch shows, *)
(* all that changed at least, and each run of shown lines is a hunk.       *)
(***************************************************************************)
EXTENDS Integers, Sequences, SequencesExt, FiniteSets

ScriptTags == {" ", "-", "+"}
Scripts(texts, n) == BoundedSeq([tag : ScriptTags, text : texts], n)

Changed(s) == {k \in 1..Len(s) : s[k].tag # " "}
Masks(s) == {m \in SUBSET (1..Len(s)) : Changed(s) \subseteq m /\ m # {}}

Side(s, tags) == LET kept == SelectSeq(s, LAMBDA l : l.tag \in tags)
                 IN  [k \in 1..Len(kept) |-> kept[k].text]
Old(s) == Side(s, {" ", "-"})
New(s) == Side(s, {" ", "+"})

Starts(m) == {k \in m : k - 1 \notin m}
EndOf(m, k) == CHOOSE e \in m : e >= k /\ e + 1 \notin m /\ k..e \subseteq m

\* Every hunk has an old line in it.
Anchored(s, m) == \A k \in Starts(m) : Old(SubSeq(s, k, EndOf(m, k))) # <<>>

=============================================================================
