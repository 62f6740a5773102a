---------------------------- MODULE MCSyncEngine ----------------------------
(* SyncEngine with two or three calls on one or two files. *)
EXTENDS SyncEngine, TLC

CONSTANTS c1, c2, c3, f1, f2

Ask(tool, paths) == [tool |-> tool, paths |-> paths]

EveryTool == {Ask("write", {f1}), Ask("edit", {f1}), Ask("read", {f1}),
              Ask("patch", {f1, f2}), Ask("delete", {f1})}
OneFile == {r \in EveryTool : r.paths = {f1}}
Rewriting == {r \in EveryTool : r.tool \in {"write", "edit", "patch"}}
EditsOfTwoFiles == {Ask("edit", {f1}), Ask("edit", {f2})}

\* Every version has a stamp of its own.
FineStamps == [v \in Versions |-> v]

\* The calls are interchangeable: any two of them may change places.  A run
\* with a temporal property takes no symmetry, and lets c1 start first instead;
\* no fairness asks a call to start, so nothing is lost by it.
Symmetry == Permutations(Calls)
InOrder == pc[c2] # "idle" => pc[c1] # "idle"

=============================================================================
