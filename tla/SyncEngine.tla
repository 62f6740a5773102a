----------------------------- MODULE SyncEngine -----------------------------
(***************************************************************************)
(* The file tools of one target (src/src/sync-engine.ts, manifest.ts and   *)
(* tools/remote-write, -edit, -read and -patch): each call pulls files     *)
(* into the local mirror, rewrites its copy and pushes it back, refusing a *)
(* push when the remote's stamp is not the one the manifest recorded.      *)
(*                                                                         *)
(* Others edit the remote meanwhile.  A content is a version number, made  *)
(* by one write; base tells which content a tool saw when it wrote one.    *)
(* Jobs of the SyncEngine run one at a time; the tools' own reads and      *)
(* writes of the mirror are outside its lock.                              *)
(***************************************************************************)
EXTENDS Naturals, Sequences, FiniteSets

CONSTANTS Calls, Files,
          Requests,      \* what a call may ask: [tool, paths]
          MaxVersion,    \* bound on the contents ever made
          MaxEdits,      \* bound on the edits of others
          StampOf,       \* mtime:size of a version
          StatFails,     \* the files whose stat may be refused
          Windows,       \* the phases of a job in which others may touch its file
          Overlapping,   \* the tools whose calls the client does not send one by one
          MovesBack,     \* others may move a file away and back
          Empty, Partial, \* the mirror of a missing file, or during a fastGet
          None

Versions == 1..MaxVersion
Tools == {"write", "edit", "read", "patch", "delete"}
Rewrites(r) == IF r.tool \in {"write", "edit", "patch"} THEN r.paths ELSE {}
NoRequest == [tool |-> "none", paths |-> {}]

ASSUME BoundsAssumption == MaxVersion \in Nat \ {0} /\ MaxEdits \in Nat
ASSUME RequestsAssumption ==
    /\ \A r \in Requests : /\ r.tool \in Tools
                           /\ r.paths \subseteq Files /\ r.paths # {}
                           /\ r.tool # "patch" => Cardinality(r.paths) = 1
    /\ Overlapping \subseteq Tools /\ MovesBack \in BOOLEAN
    /\ {None, Empty, Partial} \cap (Files \cup Calls \cup Versions) = {}
    /\ {None, Empty, Partial} \cap {StampOf[v] : v \in Versions} = {}
    /\ None # Empty /\ None # Partial /\ Empty # Partial

VARIABLES
    remote,     \* the content of each remote file, or None
    away,       \* the content others moved away, or None
    next,       \* the next version
    base,       \* what was seen when each version was made
    mirror,     \* the local copy of each file
    tracked,    \* manifest.files
    pulled,     \* manifest.pulled
    request,    \* what each call asks
    pc,         \* where each call stands
    locks,      \* fileLocks of remote_edit: who runs and who waits, per file
    mutex,      \* the SyncEngine jobs, in order
    job,        \* the phase of the running job and its file; blind: its push took a
                \* file that is there for a missing one
    todo,       \* the files a job, and then the rewriting, still has to handle
    existed,    \* the pulled files that existed, for a write
    got,        \* what a call has read of the file it rewrites
    wrote,      \* the versions each call made
    held,       \* history: the contents of each file the mirror took or put
    landed,     \* history: the versions that reached the remote
    slipped     \* history: what others put in a file's place while a job had it in hand,
                \* and no pull has taken since

dataVars == <<remote, away, next, base, mirror, tracked, pulled>>
callVars == <<request, pc, locks, mutex, job, todo, existed, got, wrote>>
historyVars == <<held, landed, slipped>>
vars == <<dataVars, callVars, historyVars>>

Contents == Versions \cup {Empty, Partial}
Stamp(v) == IF v \in Versions THEN StampOf[v] ELSE v
Stamps == {Stamp(v) : v \in Contents}
Phases == {"none", "copying", "copied", "guarded", "put", "swapped"}
NoJob == [phase |-> "none", file |-> None, snap |-> None, blind |-> FALSE]

Pcs == {"idle", "checking", "locking", "pulling", "rewriting", "pushing", "removing", "removed",
        "reading", "done", "failed"}
Ended(c) == pc[c] \in {"done", "failed"}

TypeOK ==
    /\ remote \in [Files -> Contents \cup {None}]
    /\ away \in [Files -> Contents \cup {None}]
    /\ next \in 1..(MaxVersion + 1)
    /\ base \in [Versions -> Contents \cup {None}]
    /\ mirror \in [Files -> Contents \cup {None}]
    /\ tracked \subseteq Files
    /\ pulled \in [Files -> Stamps \cup {None}]
    /\ request \in [Calls -> Requests \cup {NoRequest}]
    /\ pc \in [Calls -> Pcs]
    /\ locks \in [Files -> Seq(Calls)] /\ mutex \in Seq(Calls)
    /\ job \in [phase : Phases, file : Files \cup {None}, snap : Contents \cup {None},
               blind : BOOLEAN]
    /\ job.phase # "none" => mutex # <<>> /\ job.file # None
    /\ todo \in [Calls -> SUBSET Files] /\ existed \in [Calls -> SUBSET Files]
    /\ got \in [Calls -> [file : Files \cup {None}, text : Contents \cup {None}]]
    /\ wrote \in [Calls -> SUBSET Versions]
    /\ held \in [Files -> SUBSET Contents]
    /\ landed \subseteq Contents /\ slipped \in [Files -> SUBSET Contents]

\* A fresh connection: an empty mirror and manifest, whatever the remote holds.
Init ==
    /\ remote \in [Files -> {1, None}]
    /\ next = 2
    /\ away = [f \in Files |-> None]
    /\ base = [v \in Versions |-> None]
    /\ mirror = [f \in Files |-> None]
    /\ tracked = {}
    /\ pulled = [f \in Files |-> None]
    /\ request = [c \in Calls |-> NoRequest]
    /\ pc = [c \in Calls |-> "idle"]
    /\ locks = [f \in Files |-> <<>>] /\ mutex = <<>> /\ job = NoJob
    /\ todo = [c \in Calls |-> {}] /\ existed = [c \in Calls |-> {}]
    /\ got = [c \in Calls |-> [file |-> None, text |-> None]]
    /\ wrote = [c \in Calls |-> {}]
    /\ held = [f \in Files |-> {}]
    /\ landed = {} /\ slipped = [f \in Files |-> {}]

-----------------------------------------------------------------------------
(* The mutex of SyncEngine and the file locks of remote_edit. *)

\* withLock queues the job; pull and push take their list of files before it.
Submit(c, stage, files) ==
    /\ pc' = [pc EXCEPT ![c] = stage]
    /\ mutex' = Append(mutex, c)
    /\ todo' = [todo EXCEPT ![c] = files]

Running(c) == mutex # <<>> /\ Head(mutex) = c
At(c, phase) == Running(c) /\ job.phase = phase
EndJob == /\ mutex' = Tail(mutex) /\ job' = NoJob

\* withFileLock releases its file whichever way the call ends.
Unlock(c) ==
    locks' = [f \in Files |-> IF locks[f] # <<>> /\ Head(locks[f]) = c
                              THEN Tail(locks[f]) ELSE locks[f]]
End(c, how) ==
    /\ pc' = [pc EXCEPT ![c] = how]
    /\ Unlock(c)
    /\ todo' = [todo EXCEPT ![c] = {}]
    /\ existed' = [existed EXCEPT ![c] = {}]

-----------------------------------------------------------------------------
(* A call, up to its pull. *)

\* register, then pull([path]) for a write and pullAll() for the other tools.
Register(c, r) ==
    /\ tracked' = tracked \cup r.paths
    /\ Submit(c, "pulling", IF r.tool = "write" THEN r.paths ELSE tracked')

\* An edit or a read first asks whether its file exists.
Start(c, r) ==
    /\ pc[c] = "idle"
    /\ \A d \in Calls : \/ pc[d] = "idle" \/ Ended(d)
                       \/ {r.tool, request[d].tool} \subseteq Overlapping
    /\ request' = [request EXCEPT ![c] = r]
    /\ \/ /\ r.tool \in {"edit", "read"}
          /\ pc' = [pc EXCEPT ![c] = "checking"]
          /\ UNCHANGED <<tracked, mutex, todo>>
       \/ /\ r.tool \notin {"edit", "read"}
          /\ Register(c, r)
    /\ UNCHANGED <<remote, away, next, base, mirror, pulled, locks, job, existed, got, wrote,
                   historyVars>>

\* withFileLock: the edit waits for the earlier edits of its file.
Check(c) ==
    /\ pc[c] = "checking"
    /\ LET r == request[c]
       IN  \/ /\ \E f \in r.paths : remote[f] = None
              /\ pc' = [pc EXCEPT ![c] = "failed"]
              /\ UNCHANGED <<tracked, locks, mutex, todo>>
           \/ /\ \A f \in r.paths : remote[f] # None
              /\ r.tool = "edit"
              /\ pc' = [pc EXCEPT ![c] = "locking"]
              /\ locks' = [f \in Files |-> IF f \in r.paths THEN Append(locks[f], c)
                                           ELSE locks[f]]
              /\ UNCHANGED <<tracked, mutex, todo>>
           \/ /\ \A f \in r.paths : remote[f] # None
              /\ r.tool = "read"
              /\ Register(c, r)
              /\ UNCHANGED locks
    /\ UNCHANGED <<remote, away, next, base, mirror, pulled, request, job, existed, got, wrote,
                   historyVars>>

\* Mutant: an edit does not wait for the earlier ones.
LockedAtOnce(c) ==
    /\ pc[c] = "locking"
    /\ Register(c, request[c])
    /\ UNCHANGED <<remote, away, next, base, mirror, pulled, request, locks, job, existed,
                   got, wrote, historyVars>>

Locked(c) ==
    /\ pc[c] = "locking"
    /\ \A f \in request[c].paths : Head(locks[f]) = c
    /\ Register(c, request[c])
    /\ UNCHANGED <<remote, away, next, base, mirror, pulled, request, locks, job, existed,
                   got, wrote, historyVars>>

-----------------------------------------------------------------------------
(* runSftp("pull"), file by file. *)

\* fastGet opens the remote file and truncates the local one.
GetStart(c, f) ==
    /\ pc[c] = "pulling" /\ At(c, "none") /\ f \in todo[c]
    /\ remote[f] # None
    /\ job' = [phase |-> "copying", file |-> f, snap |-> remote[f], blind |-> FALSE]
    /\ mirror' = [mirror EXCEPT ![f] = Partial]
    /\ UNCHANGED <<remote, away, next, base, tracked, pulled, request, pc, locks, mutex,
                   todo, existed, got, wrote, historyVars>>

\* A missing remote file leaves an empty local one; its old stamp stays.
GetMissing(c, f) ==
    /\ pc[c] = "pulling" /\ At(c, "none") /\ f \in todo[c]
    /\ remote[f] = None
    /\ mirror' = [mirror EXCEPT ![f] = Empty]
    /\ todo' = [todo EXCEPT ![c] = @ \ {f}]
    /\ UNCHANGED <<remote, away, next, base, tracked, pulled, request, pc, locks, mutex,
                   job, existed, got, wrote, historyVars>>

GetDone(c) ==
    /\ pc[c] = "pulling" /\ At(c, "copying")
    /\ mirror' = [mirror EXCEPT ![job.file] = job.snap]
    /\ held' = [held EXCEPT ![job.file] = @ \cup {job.snap}]
    /\ slipped' = [slipped EXCEPT ![job.file] = @ \ {job.snap}]
    /\ job' = [job EXCEPT !.phase = "copied"]
    /\ UNCHANGED <<remote, away, next, base, tracked, pulled, request, pc, locks, mutex,
                   todo, existed, got, wrote, landed>>

\* What remoteStamp makes of a file: its stamp by now, or undefined, because
\* there is no file or because the stat is refused, for whatever reason.
RemoteStamp(f) == {IF remote[f] = None THEN None ELSE Stamp(remote[f])}
                  \cup (IF f \in StatFails THEN {None} ELSE {})

\* setPulled after a fastGet or an upload: without a stamp, the old one stays.
Record(c) ==
    /\ \E stamp \in RemoteStamp(job.file) :
         pulled' = IF stamp # None THEN [pulled EXCEPT ![job.file] = stamp] ELSE pulled
    /\ todo' = [todo EXCEPT ![c] = @ \ {job.file}]
    /\ job' = NoJob

GetStamp(c) ==
    /\ pc[c] = "pulling" /\ At(c, "copied")
    /\ Record(c)
    /\ existed' = [existed EXCEPT ![c] = IF request[c].tool = "write" THEN @ \cup {job.file} ELSE @]
    /\ UNCHANGED <<remote, away, next, base, mirror, tracked, request, pc, locks, mutex,
                   got, wrote, historyVars>>

\* A patch that deletes its file has nothing to rewrite.
PullDone(c) ==
    /\ pc[c] = "pulling" /\ At(c, "none") /\ todo[c] = {}
    /\ EndJob
    /\ pc' = [pc EXCEPT ![c] = IF request[c].tool = "read" THEN "reading" ELSE "rewriting"]
    /\ todo' = [todo EXCEPT ![c] = Rewrites(request[c])]
    /\ UNCHANGED <<dataVars, request, locks, existed, got, wrote, historyVars>>

-----------------------------------------------------------------------------
(* The tool's own work on the mirror, outside the SyncEngine's lock. *)

\* remote_write looks at the mirror only when the remote file existed.
Read(c, f) ==
    /\ pc[c] = "rewriting" /\ f \in todo[c] /\ got[c].file = None
    /\ got' = [got EXCEPT ![c] = [file |-> f, text |->
                 IF request[c].tool = "write" /\ f \notin existed[c] THEN Empty
                 ELSE mirror[f]]]
    /\ UNCHANGED <<dataVars, request, pc, locks, mutex, job, todo, existed, wrote, historyVars>>

Rewrite(c) ==
    /\ pc[c] = "rewriting" /\ got[c].file # None
    /\ request[c].tool = "patch" => got[c].text # None
    /\ next <= MaxVersion
    /\ next' = next + 1
    /\ base' = [base EXCEPT ![next] = got[c].text]
    /\ mirror' = [mirror EXCEPT ![got[c].file] = next]
    /\ wrote' = [wrote EXCEPT ![c] = @ \cup {next}]
    /\ todo' = [todo EXCEPT ![c] = @ \ {got[c].file}]
    /\ got' = [got EXCEPT ![c] = [file |-> None, text |-> None]]
    /\ UNCHANGED <<remote, away, tracked, pulled, request, pc, locks, mutex, job, existed,
                   historyVars>>

\* The file is not there, oldString is not found, the patch does not apply.
Reject(c) ==
    /\ pc[c] = "rewriting" /\ got[c].file # None /\ request[c].tool \in {"edit", "patch"}
    /\ End(c, "failed")
    /\ UNCHANGED <<dataVars, request, mutex, job, got, wrote, historyVars>>

\* A write registers its file once more: a delete may have forgotten it.
Push(c) ==
    /\ pc[c] = "rewriting" /\ todo[c] = {}
    /\ tracked' = IF request[c].tool = "write" THEN tracked \cup request[c].paths ELSE tracked
    /\ Submit(c, "pushing", Rewrites(request[c]))
    /\ UNCHANGED <<remote, away, next, base, mirror, pulled, request, locks, job, existed, got,
                   wrote, historyVars>>

\* remote_read answers with the mirror's copy, if it is still there.
Answer(c) ==
    /\ pc[c] = "reading"
    /\ \E f \in request[c].paths :
         /\ got' = [got EXCEPT ![c] = [file |-> f, text |-> mirror[f]]]
         /\ End(c, IF mirror[f] = None THEN "failed" ELSE "done")
    /\ UNCHANGED <<dataVars, request, mutex, job, wrote, historyVars>>

-----------------------------------------------------------------------------
(* runSftp("push"), file by file. *)

\* Mutant: only a file that was never pulled is refused.
UnseenOnly(f, stamp) == stamp # None /\ pulled[f] = None

\* Refuse a remote file that was never pulled, or whose stamp has changed.  A
\* file without a stamp passes as a new one.
Refused(f, stamp) == stamp # None /\ stamp # pulled[f]

Guard(c, f) ==
    /\ pc[c] = "pushing" /\ At(c, "none") /\ f \in todo[c]
    /\ \E stamp \in RemoteStamp(f) :
         /\ ~ Refused(f, stamp)
         /\ job' = [phase |-> "guarded", file |-> f, snap |-> None,
                    blind |-> stamp = None /\ remote[f] # None]
    /\ UNCHANGED <<dataVars, request, pc, locks, mutex, todo, existed, got, wrote, historyVars>>

\* Mutant: the refusal records the stamp it refused.
RefuseOnce(c, f) ==
    /\ pc[c] = "pushing" /\ At(c, "none") /\ f \in todo[c]
    /\ \E stamp \in RemoteStamp(f) : /\ Refused(f, stamp)
                                    /\ pulled' = [pulled EXCEPT ![f] = stamp]
    /\ EndJob /\ End(c, "failed")
    /\ UNCHANGED <<remote, away, next, base, mirror, tracked, request, got,
                   wrote, historyVars>>

\* Mutant: the refusal does not reach the caller.
RefuseQuietly(c, f) ==
    /\ pc[c] = "pushing" /\ At(c, "none") /\ f \in todo[c]
    /\ \E stamp \in RemoteStamp(f) : Refused(f, stamp)
    /\ EndJob /\ End(c, "done")
    /\ UNCHANGED <<dataVars, request, got, wrote, historyVars>>

Refuse(c, f) ==
    /\ pc[c] = "pushing" /\ At(c, "none") /\ f \in todo[c]
    /\ \E stamp \in RemoteStamp(f) : Refused(f, stamp)
    /\ EndJob /\ End(c, "failed")
    /\ UNCHANGED <<dataVars, request, got, wrote, historyVars>>

\* fastPut of the mirror's copy, as it is now, to the temporary name.
Put(c) ==
    /\ pc[c] = "pushing" /\ At(c, "guarded") /\ mirror[job.file] # None
    /\ job' = [job EXCEPT !.phase = "put", !.snap = mirror[job.file]]
    /\ UNCHANGED <<dataVars, request, pc, locks, mutex, todo, existed, got, wrote, historyVars>>

\* The upload takes the file's name (see RemoteUpload for how it does).
Swap(c) ==
    /\ pc[c] = "pushing" /\ At(c, "put")
    /\ remote' = [remote EXCEPT ![job.file] = job.snap]
    /\ held' = [held EXCEPT ![job.file] = @ \cup {job.snap}]
    /\ landed' = landed \cup {job.snap}
    /\ job' = [job EXCEPT !.phase = "swapped"]
    /\ UNCHANGED <<away, next, base, mirror, tracked, pulled, request, pc, locks, mutex,
                   todo, existed, got, wrote, slipped>>

PutStamp(c) ==
    /\ pc[c] = "pushing" /\ At(c, "swapped")
    /\ Record(c)
    /\ UNCHANGED <<remote, away, next, base, mirror, tracked, request, pc, locks, mutex,
                   existed, got, wrote, historyVars>>

PushDone(c) ==
    /\ pc[c] = "pushing" /\ At(c, "none") /\ todo[c] = {}
    /\ EndJob
    /\ IF request[c].tool = "delete"
       THEN pc' = [pc EXCEPT ![c] = "removing"] /\ UNCHANGED <<locks, todo, existed>>
       ELSE End(c, "done")
    /\ UNCHANGED <<dataVars, request, got, wrote, historyVars>>

\* Mutant: a job that fails keeps the lock of the engine.
JobFailsHolding(c) ==
    /\ pc[c] \in {"pulling", "pushing"} /\ Running(c)
    /\ job' = NoJob /\ UNCHANGED mutex
    /\ End(c, "failed")
    /\ UNCHANGED <<dataVars, request, got, wrote, historyVars>>

\* The session fails, or a local file does: the job and its call throw.
JobFails(c) ==
    /\ pc[c] \in {"pulling", "pushing"} /\ Running(c)
    /\ EndJob /\ End(c, "failed")
    /\ UNCHANGED <<dataVars, request, got, wrote, historyVars>>

-----------------------------------------------------------------------------
(* "*** Delete File:" of a patch: rm -f, then the mirror and the manifest. *)

Remove(c) ==
    /\ pc[c] = "removing"
    /\ remote' = [f \in Files |-> IF f \in request[c].paths THEN None ELSE remote[f]]
    /\ pc' = [pc EXCEPT ![c] = "removed"]
    /\ UNCHANGED <<away, next, base, mirror, tracked, pulled, request, locks, mutex, job,
                   todo, existed, got, wrote, historyVars>>

Forget(c) ==
    /\ pc[c] = "removed"
    /\ mirror' = [f \in Files |-> IF f \in request[c].paths THEN None ELSE mirror[f]]
    /\ pulled' = [f \in Files |-> IF f \in request[c].paths THEN None ELSE pulled[f]]
    /\ tracked' = tracked \ request[c].paths
    /\ End(c, "done")
    /\ UNCHANGED <<remote, away, next, base, request, mutex, job, got, wrote,
                   historyVars>>

-----------------------------------------------------------------------------
(* Others who use the remote's files (external). *)

Edits == (next - 2) - Cardinality(UNION {wrote[c] : c \in Calls})

\* The content goes in place, whether or not a job has the file in hand.
Place(f, v) ==
    /\ remote' = [remote EXCEPT ![f] = v]
    /\ slipped' = [slipped EXCEPT ![f] = IF job.file = f THEN @ \cup {v} ELSE @]

Untouched(f) == job.file = f => job.phase \in Windows

OthersWrite(f) ==
    /\ Untouched(f) /\ next <= MaxVersion /\ Edits < MaxEdits
    /\ Place(f, next)
    /\ next' = next + 1
    /\ UNCHANGED <<away, base, mirror, tracked, pulled, callVars, held, landed>>

OthersMoveAway(f) ==
    /\ Untouched(f) /\ remote[f] # None
    /\ remote' = [remote EXCEPT ![f] = None]
    /\ away' = [away EXCEPT ![f] = IF MovesBack THEN remote[f] ELSE None]
    /\ UNCHANGED <<next, base, mirror, tracked, pulled, callVars, historyVars>>

\* Moved back, a file has the stamp it had.
OthersMoveBack(f) ==
    /\ MovesBack /\ Untouched(f) /\ away[f] # None
    /\ Place(f, away[f])
    /\ away' = [away EXCEPT ![f] = None]
    /\ UNCHANGED <<next, base, mirror, tracked, pulled, callVars, held, landed>>

-----------------------------------------------------------------------------
Step(c) ==
    \/ Check(c) \/ Locked(c) \/ GetDone(c) \/ GetStamp(c) \/ PullDone(c)
    \/ Rewrite(c) \/ Reject(c) \/ Push(c) \/ Answer(c)
    \/ Put(c) \/ Swap(c) \/ PutStamp(c) \/ PushDone(c) \/ JobFails(c)
    \/ Remove(c) \/ Forget(c)
    \/ \E f \in Files : GetStart(c, f) \/ GetMissing(c, f) \/ Read(c, f)
                        \/ Guard(c, f) \/ Refuse(c, f)
OthersStep(f) == OthersWrite(f) \/ OthersMoveAway(f) \/ OthersMoveBack(f)

\* Every call has ended and nothing more need happen.
Terminating == (\A c \in Calls : Ended(c)) /\ UNCHANGED vars

Next ==
    \/ \E c \in Calls : Step(c) \/ \E r \in Requests : Start(c, r)
    \/ \E f \in Files : OthersStep(f)
    \/ Terminating

Spec == Init /\ [][Next]_vars
FairSpec == Spec /\ \A c \in Calls : WF_vars(Step(c))

-----------------------------------------------------------------------------
(* Properties. *)

Swapping(f) == job.file = f /\ job.phase = "put" /\ job'.phase = "swapped"

\* A remote file with the stamp the manifest recorded is one the mirror took or
\* put: the stamp vouches for the contents.
StampMeansSeen ==
    \A f \in Files : remote[f] \notin slipped[f] \cup {None} /\ pulled[f] = Stamp(remote[f])
                       => remote[f] \in held[f]

\* An upload whose guard had the file's stamp never replaces contents the
\* mirror has not held: what others wrote since it last took the file stops the
\* push, whatever they move away and back, and however often a stamp could not
\* be had when the manifest would have recorded it.
NoBlindOverwrite ==
    [][\A f \in Files : Swapping(f) /\ ~ job.blind /\ remote[f] \notin slipped[f] \cup {None}
          => remote[f] \in held[f]]_vars

\* What a tool uploads, its guard having had the file's stamp, was made from the
\* content it replaces: no edit, another tool's or anyone's, is undone by one
\* that had not seen it.
NoLostUpdate ==
    [][\A f \in Files :
          Swapping(f) /\ ~ job.blind /\ remote[f] \notin slipped[f] \cup {None, job.snap}
            => job.snap \in Versions /\ base[job.snap] = remote[f]]_vars

\* A call that reports success had its own content on the remote.
SuccessMeansWritten == \A c \in Calls : pc[c] = "done" => wrote[c] \subseteq landed

\* Every call ends, whatever the session, the file locks and the queue do.
EveryCallEnds == \A c \in Calls : pc[c] # "idle" ~> Ended(c)

-----------------------------------------------------------------------------
(* What is said of the code and it does not keep: README, section Deviations. *)

\* remote_read never answers with a part of the file.
ReadsWholeFiles ==
    \A c \in Calls : request[c].tool = "read" /\ pc[c] = "done" => got[c].text # Partial

\* The push is refused with an error rather than overwriting a remote file that
\* changed, or that was never pulled: here, whatever its stat answers.
RefusesUnseen ==
    [][\A f \in Files : Swapping(f) /\ remote[f] \notin slipped[f] \cup {None}
          => remote[f] \in held[f]]_vars

=============================================================================
