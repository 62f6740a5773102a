---------------------------- MODULE RemoteUpload ----------------------------
(***************************************************************************)
(* sftpFastPut (src/src/sync-engine.ts): an upload writes a temporary      *)
(* sibling, moves the target aside, moves the temporary in, and drops the  *)
(* backup; when the move in fails it puts the original back.  Each request *)
(* may be refused, the session may die with or without carrying it out,    *)
(* and the process may die between any two.  Uploads follow each other and *)
(* use temporary names of their own.  Modes are left out, and whether the  *)
(* server's rename replaces an existing file is left open.                 *)
(***************************************************************************)
EXTENDS Naturals

CONSTANTS Uploads,     \* bound on the uploads
          Absent, Partial

ASSUME UploadsAssumption ==
    /\ Uploads \in Nat
    /\ Absent # Partial /\ {Absent, Partial} \cap (0..Uploads) = {}

VARIABLES
    target,        \* the contents under the file's own name
    temp, backup,  \* and under the temporary names of each upload
    upload,        \* the number of the current upload; its contents
    pc,            \* the request it makes next
    backedUp,
    session,       \* the SFTP session still works
    current        \* history: the last contents the target had

fileVars == <<target, temp, backup>>
vars == <<fileVars, upload, pc, backedUp, session, current>>

Ids == 1..Uploads
Full == 0..Uploads
Requests == {"open", "put", "aside", "in", "restore", "clean", "drop"}
Outcomes == {"none", "done", "failed", "stranded", "crashed"}

TypeOK ==
    /\ target \in Full \cup {Absent}
    /\ temp \in [Ids -> Full \cup {Absent, Partial}]
    /\ backup \in [Ids -> Full \cup {Absent}]
    /\ upload \in Full
    /\ pc \in Requests \cup Outcomes
    /\ backedUp \in BOOLEAN /\ session \in BOOLEAN
    /\ current \in Full
    /\ pc \in Requests => upload \in Ids

Init ==
    /\ target = 0 /\ current = 0
    /\ temp = [i \in Ids |-> Absent] /\ backup = [i \in Ids |-> Absent]
    /\ upload = 0 /\ pc = "none"
    /\ backedUp = FALSE /\ session = TRUE

Begin ==
    /\ pc \in Outcomes /\ upload < Uploads
    /\ upload' = upload + 1 /\ pc' = "open"
    /\ backedUp' = FALSE /\ session' = TRUE
    /\ UNCHANGED <<fileVars, current>>

-----------------------------------------------------------------------------
(* One request: its effect, when the server can carry it out, and where the *)
(* upload goes on after an answer and after an error.                       *)

Move(to, here, there) ==
    /\ target' = to /\ temp' = [temp EXCEPT ![upload] = here]
    /\ backup' = [backup EXCEPT ![upload] = there]
    /\ current' = IF to \in Full THEN to ELSE current

Request(possible, Effect, yes, no) ==
    \/ /\ session /\ possible /\ Effect
       /\ pc' = yes /\ UNCHANGED session
    \/ /\ pc' = no /\ UNCHANGED <<fileVars, current>>
       /\ session' \in {FALSE, session}
    \/ /\ session /\ possible /\ Effect
       /\ pc' = no /\ session' = FALSE

\* Mutant: the upload is written in place.
OpenInPlace ==
    /\ pc = "open"
    /\ Request(TRUE, Move(Partial, Absent, backup[upload]), "put", "failed")
    /\ UNCHANGED <<upload, backedUp>>

\* fastPut opens the temporary file, fills it and closes it.
Open ==
    /\ pc = "open"
    /\ Request(TRUE, Move(target, Partial, backup[upload]), "put", "failed")
    /\ UNCHANGED <<upload, backedUp>>

Put ==
    /\ pc = "put"
    /\ Request(TRUE, Move(target, upload, backup[upload]), "aside", "failed")
    /\ UNCHANGED <<upload, backedUp>>

\* Mutant: the target is deleted instead of moved aside.
AsideUnlinks ==
    /\ pc = "aside"
    /\ Request(target # Absent, Move(Absent, temp[upload], Absent), "in", "in")
    /\ backedUp' = FALSE
    /\ UNCHANGED upload

\* An absent target has nothing to preserve; that is not an error.
Aside ==
    /\ pc = "aside"
    /\ Request(target # Absent, Move(Absent, temp[upload], target), "in", "in")
    /\ backedUp' = (session' /\ target' = Absent /\ target # Absent)
    /\ UNCHANGED upload

\* Mutant: the error of the move is taken for an answer.
InUnchecked ==
    /\ pc = "in"
    /\ Request(TRUE, Move(upload, Absent, backup[upload]), "drop", "drop")
    /\ UNCHANGED <<upload, backedUp>>

In ==
    /\ pc = "in"
    /\ Request(TRUE, Move(upload, Absent, backup[upload]),
               IF backedUp THEN "drop" ELSE "done",
               IF backedUp THEN "restore" ELSE "clean")
    /\ UNCHANGED <<upload, backedUp>>

Restore ==
    /\ pc = "restore"
    /\ Request(TRUE, Move(backup[upload], temp[upload], Absent), "clean", "stranded")
    /\ UNCHANGED <<upload, backedUp>>

Clean ==
    /\ pc = "clean"
    /\ Request(TRUE, Move(target, Absent, backup[upload]), "failed", "failed")
    /\ UNCHANGED <<upload, backedUp>>

Drop ==
    /\ pc = "drop"
    /\ Request(TRUE, Move(target, temp[upload], Absent), "done", "done")
    /\ UNCHANGED <<upload, backedUp>>

\* The process dies; the next upload is made by its successor.
Crash ==
    /\ pc \in Requests
    /\ pc' = "crashed"
    /\ UNCHANGED <<fileVars, upload, backedUp, session, current>>

Terminating == pc \in Outcomes /\ upload = Uploads /\ UNCHANGED vars

Next == \/ Begin \/ Open \/ Put \/ Aside \/ In \/ Restore \/ Clean \/ Drop
        \/ Crash \/ Terminating
Spec == Init /\ [][Next]_vars

-----------------------------------------------------------------------------
(* Properties. *)

\* At every instant the last full contents of the file exist under some name:
\* the old ones are only discarded once the new ones hold the real name.
CurrentSurvives ==
    \/ target = current
    \/ \E i \in Ids : temp[i] = current \/ backup[i] = current

\* An upload is an atomic replacement, whatever the session and the process do.
Replacement == INSTANCE AtomicReplace
    WITH content <- current,
         state <- CASE pc \in Requests -> "active" [] pc = "done" -> "done"
                    [] OTHER -> "failed"
ReplacesAtomically == Replacement!Spec

\* A reported success means the new contents are in place, and whole.
SuccessMeansReplaced == pc = "done" => target = upload

-----------------------------------------------------------------------------
(* What is said of the code and it does not keep: README, section Deviations. *)

\* A failure that is reported as such leaves the last contents under the file's
\* name: the original is put back first.
FailureRestores == pc = "failed" => target = current

=============================================================================
