----------------------------- MODULE RemotePush -----------------------------
(***************************************************************************)
(* remote_push (tools/remote-push.ts): count the local files, ask for      *)
(* confirmation, scan the directory again, make its directories on the     *)
(* remote and upload its files one by one in one SFTP session.             *)
(*                                                                         *)
(* The remote side is a tree of places, each with a directory, with the    *)
(* contents of a file, or with nothing.  The user goes on editing the      *)
(* local files and others use the remote meanwhile; any command may fail.  *)
(* Contents are numbers, those of the local files from 1 on and growing.   *)
(* An upload is one step (see RemoteUpload).                               *)
(***************************************************************************)
EXTENDS Integers, Sequences, SequencesExt, FiniteSets

CONSTANTS Dirs,        \* the local directories, in the order of the walk
          Files,
          Parent,      \* the directory each of them is in, or Above
          Above,       \* where the destination is
          WarnFiles,   \* REMOTE_PUSH_WARN_FILES
          MaxCalls,    \* bound on the calls
          MaxEdits,    \* bound on the edits of the user and of others
          AddsMeanwhile, \* the user adds files during a call, not only between calls
          None

VARIABLES
    remote,     \* what is at each place
    local,      \* the contents of each local file, or None
    pc, answer, calls, force,
    pending,    \* pendingConfirmations, by the number of files in the key
    shown,      \* history: the numbers of files a warning has named
    listed,     \* the files the scan found, with what they had
    left,       \* those still to upload
    making,     \* the directories still to make
    put,        \* history: what each upload had
    edits, theirs \* history: the edits, and the places others have changed since the call

transferVars == <<answer, calls, force, pending, shown>>
vars == <<remote, local, pc, transferVars, listed, left, making, put, edits, theirs>>

Places == ToSet(Dirs) \cup Files
Theirs == 0
Directory == -1
Versions == 1..(MaxEdits + 1)
Nothing == [f \in Files |-> None]
Found == {f \in Files : local[f] # None}

PushConstants ==
    /\ IsFiniteSet(Files) /\ WarnFiles \in Nat /\ MaxCalls \in Nat /\ MaxEdits \in Nat
    /\ Dirs \in Seq(ToSet(Dirs)) /\ Files \cap ToSet(Dirs) = {}
    /\ Above \notin Places /\ Parent \in [Places -> ToSet(Dirs) \cup {Above}]
    /\ None \notin Int /\ AddsMeanwhile \in BOOLEAN

\* Directories are nested two deep; there is something only in a directory.
Below(p, q) == Parent[q] = p \/ (Parent[q] # Above /\ Parent[Parent[q]] = p)
IsDir(r, p) == p = Above \/ r[p] = Directory
Trees == {r \in [Places -> {None, Directory, Theirs} \cup Versions] :
            \A p \in Places : r[p] = None \/ IsDir(r, Parent[p])}

TypeOK ==
    /\ remote \in Trees
    /\ {local, listed, put} \subseteq [Files -> Versions \cup {None}]
    /\ pc \in {"idle", "stat", "scanning", "making", "putting"}
    /\ answer \in {"none", "done", "failed", "asked"}
    /\ calls \in 0..MaxCalls /\ force \in BOOLEAN /\ edits \in 0..MaxEdits
    /\ pending \subseteq shown /\ shown \subseteq 0..Cardinality(Files)
    /\ left \subseteq Files /\ theirs \subseteq Places /\ making \in Seq(ToSet(Dirs))

Init ==
    /\ remote \in Trees /\ (\A p \in Places : remote[p] \notin Versions) /\ local \in [Files -> {1, None}]
    /\ pc = "idle" /\ answer = "none" /\ calls = 0 /\ force = FALSE
    /\ pending = {} /\ shown = {} /\ listed = Nothing /\ left = {} /\ making = <<>>
    /\ put = Nothing /\ edits = 0 /\ theirs = {}

-----------------------------------------------------------------------------
(* The handler, up to the transfer. *)

Answer(how) == pc' = "idle" /\ answer' = how

Call(f) ==
    /\ pc = "idle" /\ calls < MaxCalls
    /\ pc' = "stat" /\ answer' = "none" /\ calls' = calls + 1 /\ force' = f
    /\ listed' = Nothing /\ left' = {} /\ making' = <<>> /\ put' = Nothing /\ theirs' = {}
    /\ UNCHANGED <<remote, local, pending, shown, edits>>

\* statLocalPath and checkConfirmation.
Stat ==
    /\ pc = "stat"
    /\ LET files == Cardinality(Found)
           isLarge == files > WarnFiles
       IN  \/ /\ isLarge => files \in pending /\ force
              /\ pc' = "scanning"
              /\ pending' = IF isLarge THEN pending \ {files} ELSE pending
              /\ UNCHANGED <<answer, shown>>
           \/ /\ isLarge /\ ~ (files \in pending /\ force)
              /\ Answer("asked")
              /\ pending' = pending \cup {files} /\ shown' = shown \cup {files}
    /\ UNCHANGED <<remote, local, calls, force, listed, left, making, put, edits, theirs>>

\* The confirmation's ten minutes pass.
Expire(files) ==
    /\ files \in pending
    /\ pending' = pending \ {files}
    /\ UNCHANGED <<remote, local, pc, answer, calls, force, shown, listed, left, making, put,
                   edits, theirs>>

-----------------------------------------------------------------------------
(* pushDirectory and pushFile. *)

\* What is not an error is still there afterwards; what was uploaded stays.
Throw ==
    /\ pc # "idle"
    /\ Answer("failed")
    /\ UNCHANGED <<remote, local, calls, force, pending, shown, listed, left, making, put, edits,
                   theirs>>

List(found, dirs) ==
    /\ pc = "scanning"
    /\ pc' = "making" /\ making' = dirs
    /\ listed' = [f \in Files |-> IF f \in found THEN local[f] ELSE None]
    /\ left' = found
    /\ UNCHANGED <<remote, local, transferVars, put, edits, theirs>>
Scan == List(Found, Dirs)
\* A single file: only the directory it goes to is made.
ScanFile(f) == local[f] # None /\ List({f}, IF Parent[f] = Above THEN <<>> ELSE <<Parent[f]>>)

\* mkdir -p, unless a file is in its way.
Mkdir(d) == [p \in Places |-> IF (p = d \/ Below(p, d)) /\ remote[p] = None THEN Directory ELSE remote[p]]

\* Its exit code is not looked at.
MakeDir ==
    /\ pc = "making" /\ making # <<>>
    /\ making' = Tail(making)
    /\ \/ Mkdir(Head(making)) \in Trees /\ remote' = Mkdir(Head(making))
       \/ UNCHANGED remote
    /\ UNCHANGED <<local, pc, transferVars, listed, left, put, edits, theirs>>

DirsMade ==
    /\ pc = "making" /\ making = <<>>
    /\ pc' = "putting"
    /\ UNCHANGED <<remote, local, transferVars, listed, left, making, put, edits, theirs>>

\* Mutant: an upload that fails is passed over.
PutOrSkip(f) ==
    /\ pc = "putting" /\ f \in left /\ left' = left \ {f}
    /\ IF local[f] # None /\ IsDir(remote, Parent[f])
       THEN remote' = [remote EXCEPT ![f] = local[f]] /\ put' = [put EXCEPT ![f] = local[f]]
       ELSE UNCHANGED <<remote, put>>
    /\ UNCHANGED <<local, pc, transferVars, listed, making, edits, theirs>>

\* Where the file is gone, or its directory is not there, the upload throws.  A
\* directory in the file's place is moved aside, and stays there.
Put(f) ==
    /\ pc = "putting" /\ f \in left
    /\ local[f] # None /\ IsDir(remote, Parent[f])
    /\ remote' = [remote EXCEPT ![f] = local[f]]
    /\ put' = [put EXCEPT ![f] = local[f]]
    /\ left' = left \ {f}
    /\ UNCHANGED <<local, pc, transferVars, listed, making, edits, theirs>>

Pushed ==
    /\ pc = "putting" /\ left = {}
    /\ Answer("done")
    /\ UNCHANGED <<remote, local, calls, force, pending, shown, listed, left, making, put, edits,
                   theirs>>

-----------------------------------------------------------------------------
(* The user, and others who use the remote (external). *)

UserEdits(f) ==
    /\ edits < MaxEdits
    /\ local[f] # None \/ pc = "idle" \/ AddsMeanwhile
    /\ \E contents \in {edits + 2, None} : local' = [local EXCEPT ![f] = contents]
    /\ edits' = edits + 1
    /\ UNCHANGED <<remote, pc, transferVars, listed, left, making, put, theirs>>

\* Others make or change a file, or remove one or a directory with all it has.
OthersChange(p) ==
    /\ edits < MaxEdits
    /\ \E what \in {None, Theirs} :
          remote' = [q \in Places |-> IF q = p THEN what ELSE IF Below(p, q) THEN None ELSE remote[q]]
    /\ remote' \in Trees
    /\ theirs' = theirs \cup {q \in Places : q = p \/ Below(p, q)}
    /\ edits' = edits + 1
    /\ UNCHANGED <<local, pc, transferVars, listed, left, making, put>>

-----------------------------------------------------------------------------
Transfer == \/ Stat \/ Scan \/ MakeDir \/ DirsMade \/ Pushed \/ Throw
            \/ \E f \in Files : ScanFile(f) \/ Put(f)
Others == \/ \E f \in Files : UserEdits(f)
          \/ \E p \in Places : OthersChange(p)
          \/ \E files \in pending : Expire(files)

Next == Transfer \/ Others \/ \E f \in BOOLEAN : Call(f)
Spec == Init /\ [][Next]_vars

-----------------------------------------------------------------------------
(* Properties. *)

\* A push that reports success has put every file of the scan in its place, with
\* what it had then or has been given since, whatever became of the directories it
\* made: it is there, unless others have changed it.
SuccessMeansPushed ==
    answer = "done" =>
        \A f \in Files : listed[f] # None =>
            /\ put[f] # None /\ listed[f] <= put[f]
            /\ f \notin theirs => remote[f] = put[f]

\* More files than the warning threshold are pushed only after a warning that named
\* at least as many.
ShownBeforeLarge ==
    LET files == Cardinality({f \in Files : listed[f] # None})
    IN  pc \in {"making", "putting"} /\ files > WarnFiles => \E n \in shown : files <= n

-----------------------------------------------------------------------------
(* What is said of the code and it does not keep: README, section Deviations. *)

\* A push leaves what others have where it does not put a file over a file.
DirsStay == [][\A f \in Files : remote[f] = Directory /\ put'[f] # put[f] => remote'[f] = Directory]_vars

=============================================================================
