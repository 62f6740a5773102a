------------------------------ MODULE RootJail ------------------------------
(***************************************************************************)
(* Which remote paths a tool may use (root-jail.ts, jailRemotePath in      *)
(* tool-utils.ts): a path is normalised, then the server is asked where it *)
(* really leads, over SFTP or by the shell, and the answer has to be under *)
(* the root.  SFTP is not asked where it sees other paths than the shell;  *)
(* where it gives no session, the shell is asked instead.  A request that  *)
(* fails is read as a path that is not there.  For a file to be made its   *)
(* parent is resolved, and the file too if it is there.                    *)
(*                                                                         *)
(* A path is the sequence of its names.  fs has the entries of the server  *)
(* by where they really are; a link has the path it was made with.         *)
(***************************************************************************)
EXTENDS Integers, Sequences, SequencesExt

CONSTANTS Inputs,    \* [asked, root, offset, fs]: what is asked of which server
          Options,   \* what the tools ask: [new, missing], forNewFile and allowMissing
          MaxLinks,  \* the server gives up after so many links
          None

VARIABLES
    input, options,
    pc,         \* checking, probing, path, parent, final or done
    matches,    \* sftpNamespaceOk: SFTP sees the paths of the shell
    path,       \* the path being resolved
    result,     \* None, accepted at a path, refused, or an error of the connection
    unseen      \* history: a request failed on what is there

vars == <<input, options, pc, matches, path, result, unseen>>

Outcome(verdict, at) == [verdict |-> verdict, at |-> at]

TypeOK ==
    /\ input \in Inputs /\ options \in Options
    /\ pc \in {"checking", "probing", "path", "parent", "final", "done"}
    /\ matches \in BOOLEAN /\ unseen \in BOOLEAN /\ path \in Seq(STRING)
    /\ result = None \/ result.verdict \in {"accepted", "refused", "error"}

Init ==
    /\ input \in Inputs /\ options \in Options
    /\ pc = "checking" /\ matches = FALSE /\ path = <<>> /\ result = None /\ unseen = FALSE

-----------------------------------------------------------------------------
(* The server (external). *)

Fs == input.fs

\* Where the names lead from a directory, link by link; the last may be missing.
RECURSIVE Walk(_, _, _)
Walk(dir, names, links) ==
    IF names = <<>> THEN dir
    ELSE LET there == Append(dir, Head(names))
             rest == Tail(names)
             kind == IF there \in DOMAIN Fs THEN Fs[there].kind ELSE "missing"
         IN  CASE Head(names) = ".." -> Walk(IF dir = <<>> THEN dir ELSE Front(dir), rest, links)
               [] kind = "link" /\ links > 0 ->
                      Walk(IF Fs[there].absolute THEN <<>> ELSE dir, Fs[there].names \o rest, links - 1)
               [] kind = "dir" -> Walk(there, rest, links)
               [] kind \in {"file", "missing"} /\ rest = <<>> -> there
               [] OTHER -> None
Real(p) == Walk(<<>>, p, MaxLinks)

\* lstat: the entry itself is there, wherever it leads.
Entry(p) == \/ p = <<>>
            \/ Real(Front(p)) # None /\ Append(Real(Front(p)), Last(p)) \in DOMAIN Fs

-----------------------------------------------------------------------------
(* Paths. *)

Normalize(names) ==
    FoldLeft(LAMBDA p, name : IF name # ".." THEN Append(p, name)
                              ELSE IF p = <<>> THEN p ELSE Front(p), <<>>, names)
IsUnderRoot(p) == IsPrefix(input.root, p)
Parent(p) == IF p = <<>> THEN p ELSE Front(p)
Basename(p) == IF p = <<>> THEN p ELSE <<Last(p)>>

\* resolveUnderRootSync
RemotePath == Normalize((IF input.asked.absolute THEN <<>> ELSE input.root) \o input.asked.names)

-----------------------------------------------------------------------------
(* remoteRealpath: where a path leads, or None when it is not there. *)

\* SFTP sees the tree from input.offset on.
ViaSftp(p) ==
    LET real == Real(input.offset \o p)
    IN  IF ~ Entry(input.offset \o p) \/ real = None THEN None
        ELSE SubSeq(real, Len(input.offset) + 1, Len(real))

\* readlink -f, or realpath, or else the path itself.
ViaShell(p) == IF ~ Entry(p) THEN None ELSE IF Real(p) = None THEN p ELSE Real(p)

\* What the server has to say: without an SFTP session the shell is asked.
Told(p) == {ViaShell(p)} \cup (IF matches THEN {ViaSftp(p)} ELSE {})

\* An lstat or a realpath that fails, and a command whose output is lost with the
\* transport, read as a path that is not there.
Answers(p) == Told(p) \cup {None}
Note(p, real) == unseen' = (unseen \/ real \notin Told(p))

-----------------------------------------------------------------------------
(* resolveUnderRoot *)

Accept(p) == pc' = "done" /\ result' = Outcome("accepted", p) /\ UNCHANGED path
Refuse == pc' = "done" /\ result' = Outcome("refused", None) /\ UNCHANGED path

CheckSync ==
    /\ pc = "checking"
    /\ \/ /\ IsUnderRoot(RemotePath)
          /\ pc' = "probing" /\ path' = RemotePath
          /\ UNCHANGED result
       \/ ~ IsUnderRoot(RemotePath) /\ Refuse
    /\ UNCHANGED <<input, options, matches, unseen>>

Ask == pc' = IF options.new THEN "parent" ELSE "path"

\* Mutant: whatever SFTP says of its own directory is taken for a match.
ProbeAnswered(answered) ==
    /\ pc = "probing"
    /\ matches' = answered
    /\ Ask
    /\ UNCHANGED <<input, options, path, result, unseen>>

\* sftpMatchesShell: both tell their directory, and it is the same.
Probe(answered) ==
    /\ pc = "probing"
    /\ matches' = (answered /\ input.offset = <<>>)
    /\ Ask
    /\ UNCHANGED <<input, options, path, result, unseen>>

ResolvePath ==
    /\ pc = "path"
    /\ \E real \in Answers(path) :
         /\ \/ real # None /\ IsUnderRoot(real) /\ Accept(real)
            \/ real # None /\ ~ IsUnderRoot(real) /\ Refuse
            \/ real = None /\ options.missing /\ Accept(path)
            \/ real = None /\ ~ options.missing /\ Refuse
         /\ Note(path, real)
    /\ UNCHANGED <<input, options, matches>>

ResolveParent ==
    /\ pc = "parent"
    /\ \E real \in Answers(Parent(path)) :
         /\ \/ /\ real # None /\ IsUnderRoot(real)
               /\ pc' = "final" /\ path' = real \o Basename(path)
               /\ UNCHANGED result
            \/ ~ (real # None /\ IsUnderRoot(real)) /\ Refuse
         /\ Note(Parent(path), real)
    /\ UNCHANGED <<input, options, matches>>

\* A file that is there may be a link.
ResolveFinal ==
    /\ pc = "final"
    /\ \E real \in Answers(path) :
         /\ \/ (real # None => IsUnderRoot(real)) /\ Accept(path)
            \/ real # None /\ ~ IsUnderRoot(real) /\ Refuse
         /\ Note(path, real)
    /\ UNCHANGED <<input, options, matches>>

\* The command throws.
Throw ==
    /\ pc \in {"path", "parent", "final"}
    /\ pc' = "done" /\ result' = Outcome("error", None)
    /\ UNCHANGED <<input, options, matches, path, unseen>>

Ended == pc = "done" /\ UNCHANGED vars

Next == \/ CheckSync \/ ResolvePath \/ ResolveParent \/ ResolveFinal \/ Throw \/ Ended
        \/ \E answered \in BOOLEAN : Probe(answered)

Spec == Init /\ [][Next]_vars

-----------------------------------------------------------------------------
(* Properties. *)

\* The path, and its directory, are no links to what is in no directory.
Leads == \A p \in {RemotePath, Parent(RemotePath)} : Entry(p) => Real(p) # None

\* In the directory that the root is.
Within(p) == IsPrefix(Real(input.root), p)

\* What may be used: a path inside the root that leads to something inside it, or,
\* for a file to be made, to a place there; a missing one only where that is asked.
Allowed ==
    /\ IsUnderRoot(RemotePath)
    /\ options.new => Entry(Parent(RemotePath)) /\ Within(Real(Parent(RemotePath)))
    /\ Entry(RemotePath) => Within(Real(RemotePath))
    /\ Entry(RemotePath) \/ options.new \/ options.missing

\* The verdict is that on what is there; and what a tool gets leads where the path it
\* asked for does: it is the real path of what is there, and of the directory of what
\* is to be made.
JudgedRight ==
    /\ (result.verdict = "accepted") = Allowed
    /\ result.verdict = "accepted" =>
          IF options.new
          THEN result.at = Real(Parent(RemotePath)) \o Basename(RemotePath)
          ELSE result.at = IF Entry(RemotePath) THEN Real(RemotePath) ELSE RemotePath

Judged == pc = "done" /\ result.verdict # "error" /\ Leads

\* A tool gets exactly the paths it may use, whether SFTP or the shell told where
\* they lead, or one of them at one step and the other at the next.  When a request
\* failed on what is there, only a tool that takes a missing path gets one, by a name
\* in the root.
JailJudges ==
    Judged =>
        IF unseen
        THEN result.verdict = "accepted" => IsUnderRoot(result.at) /\ (options.new \/ options.missing)
        ELSE JudgedRight

-----------------------------------------------------------------------------
(* What is said of the code and it does not keep: README, section Deviations. *)

\* SFTP and the shell give the same answer.
AnswersAgree == pc \in {"path", "parent", "final"} /\ matches => ViaSftp(path) = ViaShell(path)

\* A path is never judged as one that is not there when it is.
JudgesWhatIsThere == Judged => JudgedRight

=============================================================================
