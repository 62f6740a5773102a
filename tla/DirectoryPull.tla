--------------------------- MODULE DirectoryPull ---------------------------
(***************************************************************************)
(* remote_pull of a directory (tools/remote-pull.ts, bulk-transfer.ts):    *)
(* count, ask for confirmation, list, then fetch as one tar stream and, if *)
(* that fails or is not worth it, file by file over SFTP.                  *)
(*                                                                         *)
(* The remote tar, the channel, the local tar and others who add and       *)
(* remove files act on their own.  The archive passes through a pipe: the  *)
(* stream may have ended with the local tar still at work.  A file is as   *)
(* it was before the call, in part or whole at its local path.             *)
(***************************************************************************)
EXTENDS Naturals, FiniteSets

CONSTANTS Files,
          Threshold,   \* BULK_FILE_THRESHOLD
          WarnFiles,   \* REMOTE_PULL_WARN_FILES
          MaxCalls,    \* bound on the calls
          Faults,      \* what may go wrong, besides commands that fail
          AddsMeanwhile \* others add files during a call, not only between calls

PullConstants ==
    /\ IsFiniteSet(Files) /\ Threshold \in Nat /\ WarnFiles \in Nat /\ MaxCalls \in Nat
    /\ Faults \subseteq {"tar killed", "transport lost", "list cut"} /\ AddsMeanwhile \in BOOLEAN

VARIABLES
    remote,     \* the files of the remote directory
    steady,     \* history: those that have been there since they were listed
    local,      \* what this call has made of each local file
    pc, answer, calls,
    force,      \* the call has force=true
    pending,    \* pendingConfirmations, by the number of files in the key
    shown,      \* history: the numbers of files a warning has named
    listed,     \* the paths find printed
    left,       \* those still to copy
    channel,    \* the channel of the tar stream
    sent,       \* the files of the archive so far
    cut,        \* the archive has lost its end
    remoteExit, \* the exit code that done reports
    localTar    \* the local tar, or the exit code it ended with

streamVars == <<channel, sent, cut, remoteExit, localTar>>
vars == <<remote, steady, local, pc, answer, calls, force, pending, shown, listed, left,
          streamVars>>

Codes == {"zero", "other"}
Pcs == {"idle", "stat", "listing", "probing", "opening", "piping", "waiting", "abandoned",
        "copying"}

TypeOK ==
    /\ remote \subseteq Files /\ steady \subseteq remote
    /\ local \in [Files -> {"old", "part", "whole"}]
    /\ pc \in Pcs /\ answer \in {"none", "done", "failed", "asked"}
    /\ calls \in 0..MaxCalls /\ force \in BOOLEAN
    /\ pending \subseteq shown /\ shown \subseteq 0..Cardinality(Files)
    /\ listed \subseteq Files /\ left \subseteq listed
    /\ channel \in {"none", "open", "closing", "closed"}
    /\ sent \subseteq Files /\ cut \in BOOLEAN
    /\ remoteExit \in Codes \cup {"none"}
    /\ localTar \in Codes \cup {"none", "running", "killed", "stopped"}

Init ==
    /\ remote \in SUBSET Files /\ steady = {}
    /\ local = [f \in Files |-> "old"]
    /\ pc = "idle" /\ answer = "none" /\ calls = 0 /\ force = FALSE
    /\ pending = {} /\ shown = {} /\ listed = {} /\ left = {}
    /\ channel = "none" /\ sent = {} /\ cut = FALSE
    /\ remoteExit = "none" /\ localTar = "none"

-----------------------------------------------------------------------------
(* The handler, up to the transfer. *)

Answer(how) == pc' = "idle" /\ answer' = how

Call(f) ==
    /\ pc = "idle" /\ calls < MaxCalls
    /\ pc' = "stat" /\ answer' = "none" /\ calls' = calls + 1 /\ force' = f
    /\ local' = [g \in Files |-> "old"]
    /\ steady' = {} /\ listed' = {} /\ left' = {}
    /\ channel' = "none" /\ sent' = {} /\ cut' = FALSE
    /\ remoteExit' = "none" /\ localTar' = "none"
    /\ UNCHANGED <<remote, pending, shown>>

\* The path is missing, find failed, or the local path is refused.
Refused ==
    /\ pc = "stat"
    /\ Answer("failed")
    /\ UNCHANGED <<remote, steady, local, calls, force, pending, shown, listed, left, streamVars>>

\* Mutant: the key leaves the number of files out.
KnownOfAny(files) == pending # {}

\* The key has the number of files: a tree that has grown is asked about again.
Known(files) == files \in pending

\* statRemotePath and checkConfirmation.
Stat ==
    /\ pc = "stat"
    /\ LET files == Cardinality(remote)
           isLarge == files > WarnFiles
       IN  \/ /\ isLarge => Known(files) /\ force
              /\ pc' = "listing"
              /\ pending' = IF isLarge THEN pending \ {files} ELSE pending
              /\ UNCHANGED <<answer, shown>>
           \/ /\ isLarge /\ ~ (Known(files) /\ force)
              /\ Answer("asked")
              /\ pending' = pending \cup {files}
              /\ shown' = shown \cup {files}
    /\ UNCHANGED <<remote, steady, local, calls, force, listed, left, streamVars>>

\* The confirmation's ten minutes pass.
Expire(files) ==
    /\ files \in pending
    /\ pending' = pending \ {files}
    /\ UNCHANGED <<remote, steady, local, pc, answer, calls, force, shown, listed, left, streamVars>>

\* find may have seen a part of the tree only: its exit code is not looked at.
Listings == IF "list cut" \in Faults THEN SUBSET remote ELSE {remote}

\* pullDirectory lists the files; from Threshold of them on it tries tar.
List ==
    /\ pc = "listing"
    /\ \E found \in Listings :
         /\ listed' = found /\ left' = found
         /\ pc' = IF Cardinality(found) >= Threshold THEN "probing" ELSE "copying"
    /\ steady' = remote
    /\ UNCHANGED <<remote, local, answer, calls, force, pending, shown, streamVars>>

\* A single file is fetched as it is.
ListFile(f) ==
    /\ pc = "listing" /\ f \in remote
    /\ listed' = {f} /\ left' = {f} /\ steady' = {f}
    /\ pc' = "copying"
    /\ UNCHANGED <<remote, local, answer, calls, force, pending, shown, streamVars>>

\* remoteHasTar
HasTar(yes) ==
    /\ pc = "probing"
    /\ pc' = IF yes THEN "opening" ELSE "copying"
    /\ UNCHANGED <<remote, steady, local, answer, calls, force, pending, shown, listed, left,
                   streamVars>>

-----------------------------------------------------------------------------
(* pullDirectoryViaTar *)

\* A call that throws; a stream it has is left to close by itself.
Throw ==
    /\ pc \in {"listing", "opening", "copying"}
    /\ Answer("failed")
    /\ UNCHANGED <<remote, steady, local, calls, force, pending, shown, listed, left, streamVars>>

\* execStream, and the local tar spawned on its end of the pipe.
OpenStream ==
    /\ pc = "opening"
    /\ pc' = "piping"
    /\ channel' = "open" /\ localTar' = "running"
    /\ UNCHANGED <<remote, steady, local, answer, calls, force, pending, shown, listed, left, sent,
                   cut, remoteExit>>

\* The remote tar adds a file to the archive (external).
Send(f) ==
    /\ pc = "piping" /\ channel = "open" /\ remoteExit = "none"
    /\ f \in remote \ sent
    /\ sent' = sent \cup {f}
    /\ UNCHANGED <<remote, steady, local, pc, answer, calls, force, pending, shown, listed, left,
                   channel, cut, remoteExit, localTar>>

\* The local tar starts and ends a file (external).
ExtractStart(f) ==
    /\ localTar = "running" /\ f \in sent /\ local[f] = "old"
    /\ \A g \in Files : local[g] # "part"
    /\ local' = [local EXCEPT ![f] = "part"]
    /\ UNCHANGED <<remote, steady, pc, answer, calls, force, pending, shown, listed, left, streamVars>>
ExtractEnd(f) ==
    /\ localTar = "running" /\ f \in sent /\ local[f] = "part"
    /\ local' = [local EXCEPT ![f] = "whole"]
    /\ UNCHANGED <<remote, steady, pc, answer, calls, force, pending, shown, listed, left, streamVars>>

\* The remote tar ends, its output with it, and pipeline() returns.
StreamEnds(code) ==
    /\ pc = "piping" /\ channel = "open"
    /\ code = "zero" => remote \subseteq sent
    /\ pc' = "waiting" /\ channel' = "closed" /\ remoteExit' = code
    /\ UNCHANGED <<remote, steady, local, answer, calls, force, pending, shown, listed, left, sent, cut,
                   localTar>>

\* So does it when the transport is lost: the channel closes without a code,
\* which reads as 0.
TransportLost ==
    /\ "transport lost" \in Faults /\ pc = "piping" /\ channel = "open"
    /\ pc' = "waiting" /\ channel' = "closed" /\ remoteExit' = "zero" /\ cut' = TRUE
    /\ UNCHANGED <<remote, steady, local, answer, calls, force, pending, shown, listed, left, sent,
                   localTar>>

\* The local tar ends (external), with 0 when it has extracted what there is: an
\* archive cut between two files is a shorter archive.
LocalTarEnds(code) ==
    /\ pc \in {"piping", "waiting"} /\ localTar = "running"
    /\ code = "zero" => pc = "waiting" /\ \A f \in sent : local[f] = "whole"
    /\ localTar' = code
    /\ UNCHANGED <<remote, steady, local, pc, answer, calls, force, pending, shown, listed, left,
                   channel, sent, cut, remoteExit>>
LocalTarKilled ==
    /\ "tar killed" \in Faults /\ pc \in {"piping", "waiting"} /\ localTar = "running"
    /\ localTar' = "killed"
    /\ UNCHANGED <<remote, steady, local, pc, answer, calls, force, pending, shown, listed, left,
                   channel, sent, cut, remoteExit>>

\* Mutant: the stream is left open when the local side has failed.
AbandonLocal ==
    /\ pc = "piping"
    /\ localTar # "running"
    /\ pc' = "abandoned" /\ localTar' = "stopped"
    /\ UNCHANGED <<remote, steady, local, answer, calls, force, pending, shown, listed, left, channel,
                   sent, cut, remoteExit>>

\* pipeline() throws: the local tar has closed the pipe, or the stream's timer has
\* destroyed the stream.  abandonTransfer closes both.
Abandon ==
    /\ pc = "piping"
    /\ pc' = "abandoned"
    /\ channel' = "closing" /\ localTar' = "stopped"
    /\ UNCHANGED <<remote, steady, local, answer, calls, force, pending, shown, listed, left, sent, cut,
                   remoteExit>>

\* The server answers the close (external).
ServerCloses ==
    /\ channel = "closing"
    /\ channel' = "closed" /\ remoteExit' = "other"
    /\ UNCHANGED <<remote, steady, local, pc, answer, calls, force, pending, shown, listed, left, sent,
                   cut, localTar>>

\* Mutant: the teardown waits for the server, however long that takes.
TornDownByServer ==
    /\ pc = "abandoned" /\ channel = "closed"
    /\ pc' = "copying"
    /\ UNCHANGED <<remote, steady, local, answer, calls, force, pending, shown, listed, left, streamVars>>

\* The server has closed the channel, or TEARDOWN_TIMEOUT_MS have passed.
TornDown ==
    /\ pc = "abandoned"
    /\ pc' = "copying"
    /\ UNCHANGED <<remote, steady, local, answer, calls, force, pending, shown, listed, left, streamVars>>

\* Mutant: the exit code of the local tar is not looked at.
SucceededRemote == remoteExit = "zero"

\* A local tar that was killed has no exit code, which reads as 0.
Succeeded == remoteExit = "zero" /\ localTar \in {"zero", "killed"}

\* Both ends have ended.  Anything but two zeros falls back to copying.
Judge ==
    /\ pc = "waiting" /\ remoteExit # "none" /\ localTar # "running"
    /\ \/ Succeeded /\ Answer("done")
       \/ ~ Succeeded /\ pc' = "copying" /\ UNCHANGED answer
    /\ UNCHANGED <<remote, steady, local, calls, force, pending, shown, listed, left, streamVars>>

-----------------------------------------------------------------------------
(* File by file: fastGet of each file listed. *)

CopyStart(f) ==
    /\ pc = "copying" /\ f \in left /\ f \in remote
    /\ \A g \in listed \ left : local[g] # "part"
    /\ local' = [local EXCEPT ![f] = "part"]
    /\ left' = left \ {f}
    /\ UNCHANGED <<remote, steady, pc, answer, calls, force, pending, shown, listed, streamVars>>
CopyEnd(f) ==
    /\ pc = "copying" /\ f \in listed \ left /\ local[f] = "part"
    /\ local' = [local EXCEPT ![f] = "whole"]
    /\ UNCHANGED <<remote, steady, pc, answer, calls, force, pending, shown, listed, left, streamVars>>

Copied ==
    /\ pc = "copying" /\ left = {}
    /\ \A f \in listed : local[f] # "part"
    /\ Answer("done")
    /\ UNCHANGED <<remote, steady, local, calls, force, pending, shown, listed, left, streamVars>>

-----------------------------------------------------------------------------
(* Others who use the remote directory (external). *)

OthersAdd(f) ==
    /\ f \notin remote
    /\ pc = "idle" \/ AddsMeanwhile
    /\ remote' = remote \cup {f}
    /\ UNCHANGED <<steady, local, pc, answer, calls, force, pending, shown, listed, left, streamVars>>
OthersRemove(f) ==
    /\ f \in remote
    /\ remote' = remote \ {f} /\ steady' = steady \ {f}
    /\ UNCHANGED <<local, pc, answer, calls, force, pending, shown, listed, left, streamVars>>

-----------------------------------------------------------------------------
Transfer ==
    \/ \E f \in Files : \/ ListFile(f) \/ CopyStart(f) \/ CopyEnd(f)
                        \/ ExtractStart(f) \/ ExtractEnd(f) \/ Send(f)
    \/ \E code \in Codes : StreamEnds(code) \/ LocalTarEnds(code)
    \/ \E yes \in BOOLEAN : HasTar(yes)
    \/ Refused \/ Stat \/ List \/ Throw \/ OpenStream \/ TransportLost \/ LocalTarKilled
    \/ Abandon \/ TornDown \/ Judge \/ Copied
Others == \/ \E f \in Files : OthersAdd(f) \/ OthersRemove(f)
          \/ \E files \in pending : Expire(files)
          \/ ServerCloses

Next == Transfer \/ Others \/ \E f \in BOOLEAN : Call(f)
Spec == Init /\ [][Next]_vars

-----------------------------------------------------------------------------
(* Properties. *)

\* The stream was taken for a whole one although it was cut or its tar killed: the
\* exit codes cannot tell, and nothing was copied.
Misread == left # {} /\ (cut \/ localTar = "killed")

\* A pull that reports success has fetched every file that was there all along,
\* by whichever way and after whatever has failed, and left no part of any other.
SuccessMeansWhole ==
    answer = "done" /\ ~ Misread =>
        \A f \in Files : /\ local[f] # "part"
                         /\ f \in steady => local[f] = "whole"

\* More files than the warning threshold are transferred only after a warning
\* that named at least as many.
ShownBeforeLarge ==
    pc \in {"probing", "opening", "piping", "waiting", "abandoned", "copying"}
        /\ Cardinality(listed) > WarnFiles => \E n \in shown : Cardinality(listed) <= n

\* When the pull goes on after a failed stream, nothing holds the stream open: its
\* channel goes as soon as the server answers.
NoHeldChannel == pc \in {"copying", "idle"} => channel # "open"

-----------------------------------------------------------------------------
(* What is said of the code and it does not keep: README, section Deviations. *)

\* No pull reports success for a stream it has misread.
NeverMisread == answer = "done" => ~ Misread

=============================================================================
