----------------------------- MODULE PatchFiles -----------------------------
(***************************************************************************)
(* The files of a remote_patch call (tools/remote-patch.ts): the sections  *)
(* of a patch add, update, delete and move files.  All files are pulled    *)
(* into the mirror, the sections are applied there in order, what they     *)
(* wrote is pushed, and only then are the deleted files and the sources of *)
(* moves removed, by rm -f.  Any request may fail, before or after it took *)
(* effect, and ends the call there, except for the stats: a stat that      *)
(* fails reads as one of a missing file.  Others edit the files meanwhile. *)
(*                                                                         *)
(* The contents of a file are its history: the path it was first at, then  *)
(* a mark for each section that changed it and for each edit of others, no *)
(* two the same.  They are also its stamp.  An upload is one step (see     *)
(* RemoteUpload), and what others do inside a pull or a push is in         *)
(* SyncEngine.                                                             *)
(***************************************************************************)
EXTENDS Integers, Sequences, SequencesExt, FiniteSetsExt

CONSTANTS Paths, None,
          Kinds,         \* of the sections: add, update, empty, delete, move
          MaxSections,   \* bound on the sections of all calls
          MaxEdits,      \* bound on the edits of others
          RmFails        \* rm -f may fail and say so by its exit code

\* The marks of sections are positive, those of the edits of others negative.
OthersMarks == -MaxEdits..-1
Texts == Seq(Paths \cup -MaxEdits..MaxSections)

PatchConstants ==
    /\ Kinds \subseteq {"add", "update", "empty", "delete", "move"}
    /\ MaxSections \in Nat /\ MaxEdits \in Nat /\ RmFails \in BOOLEAN
    /\ Paths \cap Int = {} /\ None \notin Texts
ASSUME PatchAssumption == PatchConstants

Sections == [kind : Kinds \ {"move"}, path : Paths, from : {None}]
            \cup [kind : Kinds \cap {"move"}, path : Paths, from : Paths]

VARIABLES
    remote, mirror,   \* the contents of each file, or None
    pulled, tracked,  \* the manifest: stamps, and the files it knows
    sections, made,   \* those of the last call, and how many the earlier ones had
    pc, todo,         \* the stage of the call, and the paths or sections it still has to handle
    edits,            \* how many edits others made
    saw, touched      \* history: what the call found, and the files with edits of others
                      \* since, but for those a push wrote over without a stamp

fileVars == <<remote, mirror, pulled, tracked>>
callVars == <<sections, made, pc, todo>>
historyVars == <<saw, touched>>
vars == <<fileVars, callVars, edits, historyVars>>

Stages == {"idle", "pulling", "applying", "pushing", "removing", "moving", "done", "failed"}

TypeOK ==
    /\ {remote, mirror, pulled, saw} \subseteq [Paths -> Texts \cup {None}]
    /\ tracked \subseteq Paths /\ touched \subseteq Paths
    /\ sections \in Seq(Sections) /\ pc \in Stages
    /\ todo \subseteq IF pc = "pulling" THEN Paths ELSE 1..Len(sections)
    /\ made \in Nat /\ made + Len(sections) <= MaxSections /\ edits \in 0..MaxEdits

Init ==
    /\ remote \in {r \in [Paths -> {<<f>> : f \in Paths} \cup {None}] :
                     \A f \in Paths : r[f] \in {<<f>>, None}}
    /\ mirror = [f \in Paths |-> None] /\ pulled = [f \in Paths |-> None]
    /\ tracked = {} /\ sections = <<>> /\ made = 0
    /\ pc = "idle" /\ todo = {} /\ edits = 0
    /\ saw = remote /\ touched = {}

-----------------------------------------------------------------------------
(* Sections. *)

Reads(s) == IF s.kind = "move" THEN s.from ELSE s.path
Removes(s) == CASE s.kind = "delete" -> {s.path}
                [] s.kind = "move" -> {s.from}
                [] OTHER -> {}

\* Mutant: a section takes the text of the file it writes.
TextOfPath(s, files) == files[s.path]

TextFor(s, files) == files[Reads(s)]

\* What the section makes of a text; a unified diff that deletes a file leaves it empty.
NewText(s, mark, text) ==
    CASE s.kind = "add" -> <<mark>>
      [] s.kind = "empty" -> <<>>
      [] OTHER -> Append(text, mark)

Concerned(stage) ==
    {k \in 1..Len(sections) :
        CASE stage \in {"applying", "pushing"} -> sections[k].kind # "delete"
          [] stage = "removing" -> sections[k].kind = "delete"
          [] stage = "moving" -> sections[k].kind = "move"
          [] OTHER -> FALSE}

\* Mutant: the sources of moves are removed before the push.
OrderMovesFirst == <<"pulling", "applying", "moving", "pushing", "removing", "done">>

Order == <<"pulling", "applying", "pushing", "removing", "moving", "done">>
Following(stage) == Order[1 + CHOOSE n \in 1..Len(Order) : Order[n] = stage]

-----------------------------------------------------------------------------
(* The handler. *)

\* The paths are registered, then pullAll: those of earlier calls as well.
Call(patch) ==
    /\ pc \in {"idle", "done", "failed"}
    /\ made + Len(sections) + Len(patch) <= MaxSections
    /\ sections' = patch /\ made' = made + Len(sections)
    /\ tracked' = tracked \cup UNION {{s.path, Reads(s)} : s \in ToSet(patch)}
    /\ pc' = "pulling" /\ todo' = tracked'
    /\ saw' = remote /\ touched' = {}
    /\ UNCHANGED <<remote, mirror, pulled, edits>>

\* What is read of a file that is missing.
Text(content) == IF content = None THEN <<>> ELSE content

\* remoteStamp: undefined where the file is missing or the stat fails.
RemoteStamp(f) == {remote[f], None}

\* setPulled after a transfer: without a stamp, the old one stays.
Record(f, stamp) == pulled' = IF stamp = None THEN pulled ELSE [pulled EXCEPT ![f] = stamp]

\* A missing file leaves an empty mirror.
Pull(f) ==
    /\ pc = "pulling" /\ f \in todo
    /\ mirror' = [mirror EXCEPT ![f] = Text(remote[f])]
    /\ \E stamp \in RemoteStamp(f) : Record(f, stamp)
    /\ saw' = [saw EXCEPT ![f] = remote[f]] /\ touched' = touched \ {f}
    /\ todo' = todo \ {f}
    /\ UNCHANGED <<remote, tracked, sections, made, pc, edits>>

Proceed ==
    /\ pc \in {"pulling", "applying", "pushing", "removing", "moving"} /\ todo = {}
    /\ pc' = Following(pc) /\ todo' = Concerned(pc')
    /\ UNCHANGED <<fileVars, sections, made, edits, historyVars>>

\* The sections of a stage come in the order of the patch.
Turn(stage, k) == pc = stage /\ todo # {} /\ k = Min(todo)

Apply(k) ==
    /\ Turn("applying", k)
    /\ LET s == sections[k]
       IN  mirror' = [mirror EXCEPT ![s.path] = NewText(s, made + k, TextFor(s, mirror))]
    /\ todo' = todo \ {k}
    /\ UNCHANGED <<remote, pulled, tracked, sections, made, pc, edits, historyVars>>

\* A file without a stamp passes the guard as a new one.
Refused(f, stamp) == stamp # None /\ stamp # pulled[f]
Upload(k) ==
    LET f == sections[k].path
    IN  /\ Turn("pushing", k)
        /\ \E stamp \in RemoteStamp(f) :
             /\ ~ Refused(f, stamp)
             /\ touched' = IF stamp = None THEN touched \ {f} ELSE touched
        /\ remote' = [remote EXCEPT ![f] = mirror[f]]

Push(k) ==
    /\ Upload(k)
    /\ \E stamp \in {mirror[sections[k].path], None} : Record(sections[k].path, stamp)
    /\ todo' = todo \ {k}
    /\ UNCHANGED <<mirror, tracked, sections, made, pc, edits, saw>>

\* rm -f; its exit code is not looked at.
Rm(stage, k) ==
    /\ Turn(stage, k)
    /\ \/ remote' = [f \in Paths |-> IF f \in Removes(sections[k]) THEN None ELSE remote[f]]
       \/ RmFails /\ UNCHANGED remote

Forget(k) ==
    /\ tracked' = tracked \ Removes(sections[k])
    /\ pulled' = [f \in Paths |-> IF f \in Removes(sections[k]) THEN None ELSE pulled[f]]

Delete(k) ==
    /\ Rm("removing", k)
    /\ Forget(k)
    /\ mirror' = [mirror EXCEPT ![sections[k].path] = None]
    /\ todo' = todo \ {k}
    /\ UNCHANGED <<sections, made, pc, edits, historyVars>>

\* The mirror's copy of the source is renamed over that of the destination.
Move(k) ==
    LET s == sections[k]
    IN  /\ Rm("moving", k)
        /\ Forget(k)
        /\ mirror' = IF mirror[s.from] = None \/ s.from = s.path THEN mirror
                     ELSE [mirror EXCEPT ![s.path] = mirror[s.from], ![s.from] = None]
        /\ todo' = todo \ {k}
        /\ UNCHANGED <<sections, made, pc, edits, historyVars>>

\* A request fails, before or after it took effect; a section does not apply; the
\* push of a file is refused.
Fail ==
    /\ pc \in {"pulling", "applying", "pushing", "removing", "moving"} /\ todo # {}
    /\ \/ \E k \in todo : Upload(k)
       \/ (\E k \in todo : Rm("removing", k) \/ Rm("moving", k)) /\ UNCHANGED touched
       \/ UNCHANGED <<remote, touched>>
    /\ pc' = "failed" /\ todo' = {}
    /\ UNCHANGED <<mirror, pulled, tracked, sections, made, edits, saw>>

\* Others edit a file, or make it (external).
OthersEdit(f) ==
    /\ edits < MaxEdits
    /\ remote' = [remote EXCEPT ![f] = Append(Text(@), -(edits + 1))]
    /\ touched' = touched \cup {f} /\ edits' = edits + 1
    /\ UNCHANGED <<mirror, pulled, tracked, callVars, saw>>

Next ==
    \/ \E patch \in BoundedSeq(Sections, MaxSections) \ {<<>>} : Call(patch)
    \/ \E f \in Paths : Pull(f) \/ OthersEdit(f)
    \/ \E k \in todo : Apply(k) \/ Push(k) \/ Delete(k) \/ Move(k)
    \/ Proceed \/ Fail

Spec == Init /\ [][Next]_vars

-----------------------------------------------------------------------------
(* Properties. *)

\* What section k means for files: a missing file is read as an empty one.
Carried(files, k) ==
    LET s == sections[k]
        mark == made + k
    IN  CASE s.kind = "add" -> [files EXCEPT ![s.path] = <<mark>>]
          [] s.kind = "update" -> [files EXCEPT ![s.path] = Append(Text(@), mark)]
          [] s.kind = "empty" -> [files EXCEPT ![s.path] = <<>>]
          [] s.kind = "delete" -> [files EXCEPT ![s.path] = None]
          [] s.kind = "move" -> [files EXCEPT ![s.from] = None,
                                              ![s.path] = Append(Text(files[s.from]), mark)]

\* What the first k sections mean, one after the other, for the files the call found.
After[k \in 0..Len(sections)] == IF k = 0 THEN saw ELSE Carried(After[k - 1], k)
Meant == After[Len(sections)]

\* No section uses a path that an earlier one removes, or moves a file to itself.
Straight ==
    /\ \A k \in 1..Len(sections), j \in 1..Len(sections) :
          j < k => Removes(sections[j]) \cap {sections[k].path, Reads(sections[k])} = {}
    /\ \A k \in 1..Len(sections) : sections[k].kind = "move" => sections[k].from # sections[k].path

\* The later text is the earlier one with edits of others after it.
Edited(earlier, later) ==
    /\ Len(later) > Len(earlier) /\ SubSeq(later, 1, Len(earlier)) = earlier
    /\ \A n \in Len(earlier) + 1..Len(later) : later[n] \in OthersMarks

\* A patch that reports success left every file as its sections mean, one after the
\* other, and on top of that what others did since: their edits before the pull are
\* taken up, those between pull and push refuse the patch where the push has the
\* file's stamp (where it has not, they are written over: EditsNotOverwritten),
\* later ones stay.
PatchApplied ==
    pc = "done" /\ Straight =>
        \A f \in Paths :
            \/ f \notin touched /\ remote[f] = Meant[f]
            \/ f \in touched /\ (Meant[f] # None => Edited(Meant[f], remote[f]))

\* Wherever a patch fails, each file that stays is as it was or as it should be; and
\* what the patch removes is there until all it writes is written: no contents are lost.
RemovesLast ==
    pc \notin {"idle", "pulling"} /\ Straight =>
        LET staying == {f \in Paths \ touched : Meant[f] # None}
        IN  /\ \A f \in staying : remote[f] \in {saw[f], Meant[f]}
            /\ (\E f \in Paths : saw[f] # None /\ remote[f] = None)
                  => \A f \in staying : remote[f] = Meant[f]

-----------------------------------------------------------------------------
(* What is said of the code and it does not keep: README, section Deviations. *)

\* Success means the sections' result also where a path is used twice.
AppliedInOrder == pc = "done" => \A f \in Paths \ touched : remote[f] = Meant[f]

\* Nothing that others wrote since the pull is deleted.
EditsKept == \A f \in touched : remote[f] # None

\* The push is refused rather than overwriting a file that changed since its pull,
\* whatever its stat answers.
EditsNotOverwritten == [][pc = "pushing" => touched \subseteq touched']_vars

\* A file deleted by a unified diff is gone.
DeletedIsGone ==
    pc = "done" => \A s \in ToSet(sections) : s.kind = "empty" => remote[s.path] = None

=============================================================================
