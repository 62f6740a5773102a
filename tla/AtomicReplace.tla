--------------------------- MODULE AtomicReplace ---------------------------
(***************************************************************************)
(* What an upload promises: the contents of a file go from the old ones to *)
(* the new ones in one step, at most once, and success is only reported    *)
(* after that step.  A failed upload may or may not have made it.          *)
(***************************************************************************)
EXTENDS Naturals

CONSTANT Uploads       \* how many uploads are made, one after the other

VARIABLES content,     \* whose contents the file has, 0 for the original ones
          upload,      \* the number of the last upload
          state        \* it is "active", or reported "done" or "failed"

replaceVars == <<content, upload, state>>

Init == content = 0 /\ upload = 0 /\ state = "failed"

Begin ==
    /\ state # "active" /\ upload < Uploads
    /\ upload' = upload + 1 /\ state' = "active"
    /\ UNCHANGED content

\* The replacement may be what ends the upload.
Replace ==
    /\ state = "active" /\ content # upload
    /\ content' = upload
    /\ state' \in {"active", "done"}
    /\ UNCHANGED upload

Succeed ==
    /\ state = "active" /\ content = upload
    /\ state' = "done"
    /\ UNCHANGED <<content, upload>>

GiveUp ==
    /\ state = "active"
    /\ state' = "failed"
    /\ UNCHANGED <<content, upload>>

Next == Begin \/ Replace \/ Succeed \/ GiveUp
Spec == Init /\ [][Next]_replaceVars

=============================================================================
