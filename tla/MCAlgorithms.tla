---------------------------- MODULE MCAlgorithms ----------------------------
(***************************************************************************)
(* What is computed from an input, side by side: a behaviour is one input  *)
(* of a diff, of an edit or of the root jail, whose variables the others   *)
(* leave alone.                                                            *)
(***************************************************************************)
EXTENDS Naturals

CONSTANTS None,
          a, ar, b, d   \* the lines of unified diffs; ar is a with a carriage return

VARIABLES
    subject,                                            \* unified, edit or jail
    input, pc, result,                                  \* of all
    i, files, h, lines,                                 \* of UnifiedPatch
    content, oldString, newString, r, search, at,       \* of EditText
    options, matches, path, unseen                      \* of RootJail

ofUnified == <<i, files, h, lines>>
ofEdit == <<content, oldString, newString, r, search, at>>
ofJail == <<options, matches, path, unseen>>
vars == <<subject, input, pc, result, ofUnified, ofEdit, ofJail>>

UIn == INSTANCE UnifiedInputs WITH Insertions <- FALSE
EIn == INSTANCE EditInputs WITH Mark <- "z"
JIn == INSTANCE JailInputs WITH LinkedRoot <- FALSE

Unified == INSTANCE UnifiedPatch
               WITH Lines <- {a, ar, b, d}, Dashed <- {d}, Inputs <- UIn!DiffInputs, Window <- 2,
                    Plain <- [l \in {a, ar, b, d} |-> IF l = ar THEN a ELSE l]
Edit == INSTANCE EditText
            WITH Letters <- {"x", "y", "z"}, Inputs <- EIn!EditsToMake, MaxText <- 9, Mark <- "z"
Jail == INSTANCE RootJail
            WITH Inputs <- JIn!PathsToJudge, Options <- JIn!Asks, MaxLinks <- 4

Idle(subjects) ==
    /\ "unified" \in subjects => i = None /\ files = None /\ h = None /\ lines = None
    /\ "edit" \in subjects => /\ content = None /\ oldString = None /\ newString = None
                              /\ r = None /\ search = None /\ at = None
    /\ "jail" \in subjects => options = None /\ matches = None /\ path = None /\ unseen = None

Init == \/ subject = "unified" /\ Unified!Init /\ Idle({"edit", "jail"})
        \/ subject = "edit" /\ Edit!Init /\ Idle({"unified", "jail"})
        \/ subject = "jail" /\ Jail!Init /\ Idle({"unified", "edit"})

Next == /\ \/ subject = "unified" /\ Unified!Next /\ UNCHANGED <<ofEdit, ofJail>>
           \/ subject = "edit" /\ Edit!Next /\ UNCHANGED <<ofUnified, ofJail>>
           \/ subject = "jail" /\ Jail!Next /\ UNCHANGED <<ofUnified, ofEdit>>
        /\ UNCHANGED subject

Spec == Init /\ [][Next]_vars

UnifiedYieldsNew == subject = "unified" => Unified!YieldsNew
ExactEdit == subject = "edit" => Edit!ExactEdit
SameWords == subject = "edit" => Edit!SameWords
FormatKept == subject = "edit" => Edit!FormatKept
JailJudges == subject = "jail" => Jail!JailJudges

=============================================================================
