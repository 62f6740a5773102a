-------------------------- MODULE SyncEngineProofs --------------------------
(***************************************************************************)
(* Proofs about SyncEngine, for any calls, files, requests and bounds: what *)
(* a stamp vouches for, and, where calls overlap only under the file locks *)
(* of remote_edit, that no update is lost and success means written.       *)
(***************************************************************************)
EXTENDS SyncEngine, TLAPS

\* mtime:size tells the contents apart; README, Deviations, has the rest.
DistinctStamps == \A v, w \in Versions : StampOf[v] = StampOf[w] => v = w

\* The client sends calls one by one, but for edits of one and the same file.
LockedApart ==
    /\ ~ MovesBack
    /\ \A r, s \in Requests : {r.tool, s.tool} \subseteq Overlapping
                                 => r.tool = "edit" /\ s.tool = "edit" /\ r.paths = s.paths

-----------------------------------------------------------------------------
(* The invariants. *)

\* What a job has read or is about to put is there.
NoText == [file |-> None, text |-> None]
TypeInv == TypeOK /\ (job.phase \in {"copying", "put"} => job.snap \in Contents)

\* A stamp that is recorded is that of contents the mirror has held, or that slipped in.
Vouched == \A f \in Files, u \in Contents : pulled[f] = Stamp(u) => u \in held[f] \cup slipped[f]

\* So are the contents of the file a job has in hand, if its guard saw them.
InHand ==
    /\ job.phase = "copying" => remote[job.file] \in {None, job.snap} \cup slipped[job.file]
    /\ job.phase \in {"copied", "swapped"} \/ (job.phase \in {"guarded", "put"} /\ ~ job.blind)
          => remote[job.file] \in {None} \cup held[job.file] \cup slipped[job.file]

StampInv == Vouched /\ InHand

Working == {"pulling", "rewriting", "pushing", "removing", "removed", "reading"}
Live(c) == pc[c] \notin {"idle", "done", "failed"}

\* Calls that overlap are edits of one file.
OnlyEdits ==
    /\ \A c \in Calls : Live(c) => request[c] \in Requests
    /\ \A c, d \in Calls : c # d /\ Live(c) /\ Live(d)
          => request[c].tool = "edit" /\ request[d].tool = "edit" /\ request[c].paths = request[d].paths

\* An edit at work heads the queue of its file, one that waits is in it.
InQueue(f, c) == \E i \in 1..Len(locks[f]) : locks[f][i] = c
Queued ==
    \A c \in Calls :
      /\ pc[c] = "locking" => /\ request[c].tool = "edit"
                             /\ \A f \in request[c].paths : InQueue(f, c)
      /\ pc[c] \in Working /\ request[c].tool = "edit" =>
            \A f \in request[c].paths : locks[f] # <<>> /\ Head(locks[f]) = c

\* So only one call works at a time.
Alone == \A c, d \in Calls : pc[c] \in Working /\ pc[d] \in Working => c = d

\* The running job is that of a call that pulls or pushes, and is not done with its file.
JobInv ==
    job.phase # "none" =>
      LET c == Head(mutex)
      IN  /\ pc[c] = IF job.phase \in {"copying", "copied"} THEN "pulling" ELSE "pushing"
          /\ job.file \in todo[c]

\* A version is younger than next, whoever has it; the remote is never half a file.
Young(v) == v \in Versions => v < next
Dated ==
    /\ \A f \in Files : /\ Young(remote[f]) /\ Young(mirror[f]) /\ remote[f] \in Versions \cup {None}
                        /\ \A v \in Versions : pulled[f] = Stamp(v) => Young(v)
    /\ Young(job.snap)

\* The text is what the remote has, if the guard would let a push pass.
Seen(f, text) ==
    remote[f] \notin {None} \cup slipped[f] /\ pulled[f] = Stamp(remote[f]) => text = remote[f]

\* The mirror has a version the tool made from such a text.
Made(f) == mirror[f] \in Versions /\ Seen(f, base[mirror[f]])

\* What the tool has or will read of its pulled files.
Readable(c, f) ==
    /\ Seen(f, mirror[f])
    /\ request[c].tool = "write" /\ f \notin existed[c] => Seen(f, Empty)

Data(c) ==
    /\ pc[c] \in {"idle", "checking", "locking", "pulling"} => got[c].file = None
    /\ pc[c] = "pulling" => \A f \in Rewrites(request[c]) \ todo[c] : Readable(c, f)
    /\ pc[c] = "rewriting" =>
          /\ got[c].file # None => got[c].file \in todo[c] /\ Seen(got[c].file, got[c].text)
          /\ \A f \in todo[c] \ {got[c].file} : Readable(c, f)
          /\ todo[c] \subseteq Rewrites(request[c])
          /\ \A f \in Rewrites(request[c]) \ todo[c] : Made(f)
    /\ pc[c] = "pushing" =>
          \A f \in todo[c] : Made(f) \/ (job.phase = "swapped" /\ job.file = f)

\* Between a guard that saw the file and the rename it stays as the tool has seen it.
InJob ==
    LET f == job.file
        safe == {None} \cup slipped[f]
    IN  /\ job.phase = "copying" => job.snap \in Versions
        /\ job.phase = "copied" => remote[f] \in safe \cup {mirror[f]}
        /\ job.phase \in {"guarded", "put"} /\ ~ job.blind => remote[f] \in safe \cup {base[mirror[f]]}
        /\ job.phase = "put" => job.snap = mirror[f]
        /\ job.phase \in {"put", "swapped"} => mirror[f] \in Versions
        /\ job.phase = "swapped" => mirror[f] \in landed

\* Where the versions are that a call made.
Whereabouts(c) ==
    /\ pc[c] \in {"idle", "checking", "locking", "pulling"} => wrote[c] = {}
    /\ pc[c] = "rewriting" =>
          \A w \in wrote[c] : \E f \in Rewrites(request[c]) \ todo[c] : mirror[f] = w
    /\ pc[c] = "pushing" => \A w \in wrote[c] : w \in landed \/ \E f \in todo[c] : mirror[f] = w
    /\ pc[c] \in {"reading", "removing", "removed", "done"} => wrote[c] \subseteq landed

QueueInv == OnlyEdits /\ Queued /\ JobInv
DataInv == Dated /\ InJob /\ \A c \in Calls : Data(c) /\ Whereabouts(c)

-----------------------------------------------------------------------------
(* Contents, stamps and requests. *)

LEMMA ContentFacts ==
    /\ Empty \in Contents /\ Partial \in Contents /\ None \notin Contents
    /\ Versions \subseteq Contents /\ Empty \notin Versions /\ Partial \notin Versions
    /\ None \notin Files /\ None \notin Stamps
    /\ \A v \in Contents : Stamp(v) \in Stamps
  BY RequestsAssumption DEF Contents, Stamps, Stamp

LEMMA StampsApart ==
    ASSUME DistinctStamps, NEW u \in Contents, NEW v \in Contents, Stamp(u) = Stamp(v)
    PROVE  u = v
  BY RequestsAssumption DEF DistinctStamps, Stamp, Contents

LEMMA RequestFacts ==
    /\ \A r \in Requests : r.tool \in Tools /\ r.paths # {}
    /\ \A r \in Requests \cup {NoRequest} : r.paths \subseteq Files /\ Rewrites(r) \subseteq r.paths
  BY RequestsAssumption DEF Rewrites, NoRequest

LEMMA VersionFacts ==
    /\ 1 \in Versions /\ \A n \in Versions : n \in Nat
    /\ \A n \in 1..(MaxVersion + 1) : n <= MaxVersion => n \in Versions /\ n + 1 \in 1..(MaxVersion + 1)
  BY BoundsAssumption DEF Versions

-----------------------------------------------------------------------------
(* Types. *)

LEMMA InitTypes == Init => TypeInv
  BY VersionFacts, ContentFacts, BoundsAssumption
     DEF Init, TypeInv, TypeOK, NoJob, Phases, Pcs

\* The parts of the type invariant that steps change together.
DataTypes ==
    /\ remote \in [Files -> Contents \cup {None}] /\ away \in [Files -> Contents \cup {None}]
    /\ next \in 1..(MaxVersion + 1) /\ base \in [Versions -> Contents \cup {None}]
    /\ mirror \in [Files -> Contents \cup {None}]
    /\ tracked \subseteq Files /\ pulled \in [Files -> Stamps \cup {None}]
CallTypes ==
    /\ request \in [Calls -> Requests \cup {NoRequest}] /\ pc \in [Calls -> Pcs]
    /\ todo \in [Calls -> SUBSET Files] /\ existed \in [Calls -> SUBSET Files]
    /\ got \in [Calls -> [file : Files \cup {None}, text : Contents \cup {None}]]
    /\ wrote \in [Calls -> SUBSET Versions]
QueueTypes == locks \in [Files -> Seq(Calls)] /\ mutex \in Seq(Calls)
JobTypes ==
    /\ job \in [phase : Phases, file : Files \cup {None}, snap : Contents \cup {None}, blind : BOOLEAN]
    /\ job.phase # "none" => mutex # <<>> /\ job.file # None
    /\ job.phase \in {"copying", "put"} => job.snap \in Contents
HistoryTypes ==
    /\ held \in [Files -> SUBSET Contents] /\ landed \subseteq Contents
    /\ slipped \in [Files -> SUBSET Contents]

LEMMA TypeParts ==
    /\ TypeInv <=> DataTypes /\ CallTypes /\ QueueTypes /\ JobTypes /\ HistoryTypes
    /\ TypeInv' <=> DataTypes' /\ CallTypes' /\ QueueTypes' /\ JobTypes' /\ HistoryTypes'
  BY DEF TypeInv, TypeOK, DataTypes, CallTypes, QueueTypes, JobTypes, HistoryTypes

\* What the parts of an action do to the queues.
LEMMA UnlockTypes ==
    ASSUME QueueTypes, NEW c \in Calls, Unlock(c)
    PROVE  locks' \in [Files -> Seq(Calls)]
  BY DEF QueueTypes, Unlock

LEMMA EndTypes ==
    ASSUME CallTypes, QueueTypes, NEW c \in Calls, NEW how \in {"done", "failed"}, End(c, how),
           UNCHANGED <<request, wrote>>,
           got' \in [Calls -> [file : Files \cup {None}, text : Contents \cup {None}]]
    PROVE  CallTypes' /\ locks' \in [Files -> Seq(Calls)]
  BY UnlockTypes DEF CallTypes, End, Pcs

LEMMA EndJobTypes ==
    ASSUME QueueTypes, EndJob, mutex # <<>>
    PROVE  mutex' \in Seq(Calls) /\ JobTypes'
  BY DEF QueueTypes, EndJob, JobTypes, NoJob, Phases

LEMMA SubmitTypes ==
    ASSUME CallTypes, QueueTypes, JobTypes, NEW c \in Calls, NEW stage \in Pcs, NEW files \in SUBSET Files,
           Submit(c, stage, files), UNCHANGED <<job, existed, got, wrote>>,
           request' \in [Calls -> Requests \cup {NoRequest}]
    PROVE  CallTypes' /\ mutex' \in Seq(Calls) /\ JobTypes'
  <1>1. CallTypes'
    BY DEF CallTypes, Submit
  <1>2. mutex' \in Seq(Calls) /\ mutex' # <<>>
    BY DEF QueueTypes, Submit
  <1> QED BY <1>1, <1>2 DEF JobTypes

LEMMA RegisterTypes ==
    ASSUME DataTypes, CallTypes, QueueTypes, JobTypes, NEW c \in Calls, NEW r \in Requests \cup {NoRequest},
           Register(c, r), UNCHANGED <<remote, away, next, base, mirror, pulled>>,
           UNCHANGED <<job, existed, got, wrote>>,
           request' \in [Calls -> Requests \cup {NoRequest}]
    PROVE  DataTypes' /\ CallTypes' /\ mutex' \in Seq(Calls) /\ JobTypes'
  <1>1. tracked' \subseteq Files /\ r.paths \subseteq Files
    BY RequestFacts DEF DataTypes, Register
  <1>2. PICK files \in SUBSET Files : Submit(c, "pulling", files)
    BY <1>1 DEF Register
  <1> QED BY <1>1, <1>2, SubmitTypes DEF DataTypes, Pcs

\* A call, up to its pull, and its answers.
LEMMA CallerTypes ==
    ASSUME TypeInv, NEW c \in Calls,
           (\E r \in Requests : Start(c, r)) \/ Check(c) \/ Locked(c)
    PROVE  TypeInv'
  <1> USE TypeParts
  <1>1. request[c] \in Requests \/ request[c] = NoRequest
    BY DEF CallTypes
  <1>2. CASE \E r \in Requests : Start(c, r)
    <2>1. PICK r \in Requests : Start(c, r)
      BY <1>2
    <2>2. request' \in [Calls -> Requests \cup {NoRequest}] /\ QueueTypes /\ HistoryTypes'
          /\ locks' \in [Files -> Seq(Calls)] /\ UNCHANGED <<job, existed, got, wrote>>
      BY <2>1 DEF CallTypes, QueueTypes, HistoryTypes, Start, historyVars
    <2>3. CASE Register(c, r)
      BY <2>1, <2>2, <2>3, RegisterTypes DEF Start, QueueTypes
    <2>4. CASE pc' = [pc EXCEPT ![c] = "checking"] /\ UNCHANGED <<tracked, mutex, todo>>
      BY <2>1, <2>2, <2>4 DEF Start, DataTypes, CallTypes, QueueTypes, JobTypes, Pcs
    <2> QED BY <2>1, <2>3, <2>4 DEF Start
  <1>3. CASE Check(c)
    <2>1. HistoryTypes' /\ UNCHANGED <<job, existed, got, wrote, request>>
      BY <1>3 DEF HistoryTypes, Check, historyVars
    <2>2. CASE UNCHANGED locks /\ Register(c, request[c])
      BY <1>1, <1>3, <2>1, <2>2, RegisterTypes DEF Check, QueueTypes, CallTypes
    <2>3. CASE /\ \E v \in {"failed", "locking"} : pc' = [pc EXCEPT ![c] = v]
               /\ UNCHANGED <<tracked, mutex, todo>>
               /\ locks' = locks \/ \E fs \in SUBSET Files :
                     locks' = [f \in Files |-> IF f \in fs THEN Append(locks[f], c) ELSE locks[f]]
      <3>1. \A f \in Files : locks[f] \in Seq(Calls) /\ Append(locks[f], c) \in Seq(Calls)
        BY DEF QueueTypes
      <3>2. locks' = locks => locks' \in [Files -> Seq(Calls)]
        BY DEF QueueTypes
      <3>3. locks' \in [Files -> Seq(Calls)]
        BY <2>3, <3>1, <3>2
      <3> QED BY <1>3, <2>1, <2>3, <3>3 DEF Check, DataTypes, CallTypes, QueueTypes, JobTypes, Pcs
    <2>4. request[c].paths \in SUBSET Files
      BY <1>1, RequestFacts
    <2> QED BY <1>3, <2>2, <2>3, <2>4 DEF Check
  <1>4. CASE Locked(c)
    BY <1>1, <1>4, RegisterTypes DEF Locked, QueueTypes, CallTypes, HistoryTypes, historyVars
  <1> QED BY <1>2, <1>3, <1>4

\* The tool's own work.
LEMMA ToolTypes ==
    ASSUME TypeInv, NEW c \in Calls,
           (\E f \in Files : Read(c, f)) \/ Rewrite(c) \/ Reject(c) \/ Push(c) \/ Answer(c)
               \/ Remove(c) \/ Forget(c)
    PROVE  TypeInv'
  <1> USE TypeParts
  <1>1. /\ request[c].paths \subseteq Files /\ Rewrites(request[c]) \subseteq Files
        /\ NoText \in [file : Files \cup {None}, text : Contents \cup {None}]
        /\ \A f \in Files : [file |-> f, text |-> mirror[f]] \in [file : Files \cup {None}, text : Contents \cup {None}]
    BY RequestFacts DEF CallTypes, DataTypes, NoText
  <1>2. ASSUME NEW f \in Files, Read(c, f) PROVE TypeInv'
    <2>1. got' \in [Calls -> [file : Files \cup {None}, text : Contents \cup {None}]]
      BY <1>2, ContentFacts DEF CallTypes, DataTypes, Read
    <2> QED BY <1>2, <2>1 DEF Read, dataVars, historyVars, DataTypes, CallTypes, QueueTypes, JobTypes, HistoryTypes
  <1>3. CASE Rewrite(c)
    <2>1. next \in Versions /\ next \in Contents /\ next' \in 1..(MaxVersion + 1)
      BY <1>3, VersionFacts, ContentFacts DEF Rewrite, DataTypes
    <2>2. got[c].file \in Files /\ got[c].text \in Contents \cup {None}
      BY <1>3 DEF CallTypes, Rewrite
    <2>3. DataTypes'
      BY <1>3, <2>1, <2>2 DEF Rewrite, DataTypes
    <2>4. CallTypes'
      BY <1>1, <1>3, <2>1, <2>2 DEF Rewrite, CallTypes, NoText
    <2> QED BY <1>3, <2>3, <2>4 DEF Rewrite, QueueTypes, JobTypes, HistoryTypes, historyVars
  <1>4. CASE Reject(c)
    BY <1>4, EndTypes DEF Reject, dataVars, historyVars, DataTypes, QueueTypes, JobTypes, HistoryTypes, CallTypes
  <1>5. CASE Push(c)
    <2>1. request' \in [Calls -> Requests \cup {NoRequest}]
      BY <1>5 DEF Push, CallTypes
    <2>2. CallTypes' /\ mutex' \in Seq(Calls) /\ JobTypes'
      BY <1>1, <1>5, <2>1, SubmitTypes DEF Push, Pcs
    <2>3. DataTypes'
      BY <1>1, <1>5 DEF Push, DataTypes
    <2> QED BY <1>5, <2>2, <2>3 DEF Push, historyVars, QueueTypes, HistoryTypes
  <1>6. CASE Answer(c)
    <2>1. PICK f \in Files : /\ got' = [got EXCEPT ![c] = [file |-> f, text |-> mirror[f]]]
                             /\ End(c, IF mirror[f] = None THEN "failed" ELSE "done")
      BY <1>1, <1>6 DEF Answer
    <2>2. got' \in [Calls -> [file : Files \cup {None}, text : Contents \cup {None}]]
      BY <1>1, <2>1 DEF CallTypes
    <2>3. CallTypes' /\ locks' \in [Files -> Seq(Calls)]
      BY <1>6, <2>1, <2>2, EndTypes DEF Answer
    <2> QED BY <1>6, <2>3 DEF Answer, dataVars, historyVars, DataTypes, QueueTypes, JobTypes, HistoryTypes
  <1>7. CASE Remove(c)
    BY <1>7 DEF Remove, historyVars, DataTypes, CallTypes, QueueTypes, JobTypes, HistoryTypes, Pcs
  <1>8. CASE Forget(c)
    <2>1. DataTypes'
      BY <1>8 DEF Forget, DataTypes
    <2>2. CallTypes' /\ locks' \in [Files -> Seq(Calls)]
      BY <1>8, EndTypes DEF Forget, CallTypes
    <2> QED BY <1>8, <2>1, <2>2 DEF Forget, historyVars, QueueTypes, JobTypes, HistoryTypes
  <1> QED BY <1>2, <1>3, <1>4, <1>5, <1>6, <1>7, <1>8

\* The jobs.
LEMMA JobStepTypes ==
    ASSUME TypeInv, NEW c \in Calls,
           \/ GetDone(c) \/ GetStamp(c) \/ PullDone(c)
           \/ Put(c) \/ Swap(c) \/ PutStamp(c) \/ PushDone(c) \/ JobFails(c)
           \/ \E f \in Files : GetStart(c, f) \/ GetMissing(c, f) \/ Guard(c, f) \/ Refuse(c, f)
    PROVE  TypeInv'
  <1> USE TypeParts
  <1>1. ASSUME NEW f \in Files, GetStart(c, f) PROVE TypeInv'
    BY <1>1, ContentFacts DEF GetStart, At, Running, DataTypes, CallTypes, QueueTypes, JobTypes, HistoryTypes, historyVars, Phases
  <1>2. ASSUME NEW f \in Files, GetMissing(c, f) PROVE TypeInv'
    BY <1>2, ContentFacts DEF GetMissing, DataTypes, CallTypes, QueueTypes, JobTypes, HistoryTypes, historyVars
  <1>3. CASE GetDone(c)
    <2>1. job.file \in Files /\ job.snap \in Contents
      BY <1>3 DEF GetDone, At, JobTypes
    <2>2. DataTypes' /\ HistoryTypes'
      BY <1>3, <2>1 DEF GetDone, DataTypes, HistoryTypes
    <2>3. JobTypes'
      BY <1>3, <2>1 DEF GetDone, At, Running, JobTypes, Phases
    <2> QED BY <1>3, <2>2, <2>3 DEF GetDone, CallTypes, QueueTypes
  <1>4. ASSUME Record(c), job.phase # "none", UNCHANGED <<remote, away, next, base, mirror, tracked>>
        PROVE  DataTypes' /\ JobTypes' /\ todo' \in [Calls -> SUBSET Files]
    <2>1. job.file \in Files
      BY <1>4 DEF JobTypes
    <2>2. RemoteStamp(job.file) \subseteq Stamps \cup {None}
      BY <2>1, ContentFacts DEF DataTypes, RemoteStamp
    <2>3. DataTypes'
      BY <1>4, <2>1, <2>2 DEF Record, DataTypes
    <2> QED BY <1>4, <2>3 DEF Record, JobTypes, NoJob, Phases, CallTypes
  <1>5. CASE GetStamp(c)
    <2>1. job.file \in Files
      BY <1>5 DEF GetStamp, At, JobTypes
    <2>2. existed' \in [Calls -> SUBSET Files]
      BY <1>5, <2>1 DEF GetStamp, CallTypes
    <2> QED BY <1>4, <1>5, <2>2 DEF GetStamp, At, historyVars, CallTypes, QueueTypes, HistoryTypes
  <1>6. CASE PullDone(c)
    <2>1. JobTypes' /\ mutex' \in Seq(Calls)
      BY <1>6, EndJobTypes DEF PullDone, At, Running
    <2>2. Rewrites(request[c]) \subseteq Files
      BY RequestFacts DEF CallTypes
    <2> QED BY <1>6, <2>1, <2>2 DEF PullDone, dataVars, historyVars, DataTypes, CallTypes, QueueTypes, HistoryTypes, Pcs
  <1>7. ASSUME NEW f \in Files, Guard(c, f) PROVE TypeInv'
    BY <1>7, ContentFacts DEF Guard, At, Running, dataVars, DataTypes, CallTypes, QueueTypes, JobTypes, HistoryTypes, historyVars, Phases
  <1>8. CASE Put(c)
    <2>1. mirror[job.file] \in Contents
      BY <1>8 DEF Put, At, JobTypes, DataTypes
    <2> QED BY <1>8, <2>1 DEF Put, At, Running, dataVars, historyVars, DataTypes, CallTypes, QueueTypes, JobTypes, HistoryTypes, Phases
  <1>9. CASE Swap(c)
    <2>1. job.file \in Files /\ job.snap \in Contents
      BY <1>9 DEF Swap, At, JobTypes
    <2>2. DataTypes' /\ HistoryTypes'
      BY <1>9, <2>1 DEF Swap, DataTypes, HistoryTypes
    <2>3. JobTypes'
      BY <1>9, <2>1 DEF Swap, At, Running, JobTypes, Phases
    <2> QED BY <1>9, <2>2, <2>3 DEF Swap, CallTypes, QueueTypes
  <1>10. CASE PutStamp(c)
    BY <1>4, <1>10 DEF PutStamp, At, historyVars, CallTypes, QueueTypes, HistoryTypes
  <1>11. ASSUME EndJob, mutex # <<>>, UNCHANGED <<request, got, wrote, dataVars, historyVars>>,
                \/ End(c, "done") \/ End(c, "failed")
                \/ /\ pc' = [pc EXCEPT ![c] = "removing"]
                   /\ UNCHANGED <<locks, todo, existed>>
         PROVE  TypeInv'
    <2>1. JobTypes' /\ mutex' \in Seq(Calls)
      BY <1>11, EndJobTypes
    <2>2. CallTypes' /\ locks' \in [Files -> Seq(Calls)]
      BY <1>11, EndTypes DEF CallTypes, QueueTypes, Pcs
    <2> QED BY <1>11, <2>1, <2>2 DEF dataVars, historyVars, DataTypes, QueueTypes, HistoryTypes
  <1>12. CASE PushDone(c) \/ JobFails(c) \/ \E f \in Files : Refuse(c, f)
    <2>1. UNCHANGED <<request, got, wrote, dataVars, historyVars>> /\ EndJob /\ mutex # <<>>
      BY <1>12 DEF PushDone, JobFails, Refuse, At, Running
    <2>2. \/ End(c, "done") \/ End(c, "failed")
          \/ /\ pc' = [pc EXCEPT ![c] = "removing"]
             /\ UNCHANGED <<locks, todo, existed>>
      BY <1>12 DEF PushDone, JobFails, Refuse
    <2> QED BY <1>11, <2>1, <2>2
  <1> QED BY <1>1, <1>2, <1>3, <1>5, <1>6, <1>7, <1>8, <1>9, <1>10, <1>12

\* Others.
LEMMA OthersTypes ==
    ASSUME TypeInv, NEW f \in Files, OthersStep(f)
    PROVE  TypeInv'
  <1> USE TypeParts
  <1>1. next <= MaxVersion => next \in Contents /\ next + 1 \in 1..(MaxVersion + 1)
    BY VersionFacts, ContentFacts DEF DataTypes
  <1>2. CallTypes' /\ QueueTypes' /\ JobTypes'
    BY DEF OthersStep, OthersWrite, OthersMoveAway, OthersMoveBack, callVars, CallTypes, QueueTypes, JobTypes
  <1>3. CASE OthersWrite(f)
    BY <1>1, <1>2, <1>3 DEF OthersWrite, Place, DataTypes, HistoryTypes
  <1>4. CASE OthersMoveAway(f)
    BY <1>2, <1>4 DEF OthersMoveAway, DataTypes, HistoryTypes, historyVars
  <1>5. CASE OthersMoveBack(f)
    <2>1. away[f] \in Contents
      BY <1>5 DEF OthersMoveBack, DataTypes
    <2> QED BY <1>2, <1>5, <2>1 DEF OthersMoveBack, Place, DataTypes, HistoryTypes
  <1> QED BY <1>3, <1>4, <1>5 DEF OthersStep

LEMMA TypeStep == TypeInv /\ [Next]_vars => TypeInv'
  <1> SUFFICES ASSUME TypeInv, [Next]_vars PROVE TypeInv'
    OBVIOUS
  <1>1. CASE UNCHANGED vars
    BY <1>1 DEF vars, dataVars, callVars, historyVars, TypeInv, TypeOK
  <1>2. CASE Next
    BY <1>1, <1>2, CallerTypes, ToolTypes, JobStepTypes, OthersTypes DEF Next, Step, Terminating
  <1> QED BY <1>1, <1>2

-----------------------------------------------------------------------------
(* What a stamp vouches for. *)

\* The stamp that a job records is that of the file it has in hand.
LEMMA RecordVouches ==
    ASSUME TypeInv, DistinctStamps, StampInv, NEW c \in Calls, Record(c),
           job.phase \in {"copied", "swapped"}, UNCHANGED <<remote, held, slipped>>
    PROVE  StampInv'
  <1>1. job.file \in Files /\ remote[job.file] \in Contents \cup {None}
        /\ pulled \in [Files -> Stamps \cup {None}]
    BY DEF TypeInv, TypeOK
  <1>2. InHand'
    BY DEF Record, NoJob, InHand
  <1>3. ASSUME NEW f \in Files, NEW u \in Contents, pulled'[f] = Stamp(u)
        PROVE  u \in held[f] \cup slipped[f]
    <2>1. CASE pulled'[f] = pulled[f]
      BY <1>3, <2>1 DEF StampInv, Vouched
    <2>2. CASE pulled'[f] # pulled[f]
      <3>1. f = job.file /\ remote[f] # None /\ pulled'[f] = Stamp(remote[f])
        <4>1. PICK stamp \in RemoteStamp(job.file) :
                 pulled' = IF stamp # None THEN [pulled EXCEPT ![job.file] = stamp] ELSE pulled
          BY DEF Record
        <4>2. f = job.file /\ stamp # None /\ pulled'[f] = stamp
          BY <1>1, <2>2, <4>1
        <4> QED BY <4>1, <4>2 DEF RemoteStamp
      <3>2. u = remote[f]
        BY <1>1, <1>3, <3>1, StampsApart
      <3> QED BY <3>1, <3>2 DEF StampInv, InHand
    <2> QED BY <2>1, <2>2
  <1> QED BY <1>2, <1>3 DEF StampInv, Vouched

\* What others place is known to have slipped in, where a job has the file in hand.
LEMMA PlaceKeepsStamps ==
    ASSUME TypeInv, StampInv, NEW f \in Files, NEW v \in Contents \cup {None},
           remote' = [remote EXCEPT ![f] = v], UNCHANGED <<pulled, held, job>>,
           \/ v = None /\ UNCHANGED slipped
           \/ slipped' = [slipped EXCEPT ![f] = IF job.file = f THEN @ \cup {v} ELSE @]
    PROVE  StampInv'
  <1>1. \A g \in Files : slipped[g] \subseteq slipped'[g]
    <2>1. slipped \in [Files -> SUBSET Contents]
      BY DEF TypeInv, TypeOK
    <2>2. CASE slipped' = [slipped EXCEPT ![f] = IF job.file = f THEN @ \cup {v} ELSE @]
      BY <2>1, <2>2
    <2> QED BY <2>2
  <1>2. Vouched'
    BY <1>1 DEF StampInv, Vouched
  <1>3. job.phase # "none" => \/ remote'[job.file] = remote[job.file]
                              \/ remote'[job.file] \in {None} \cup slipped'[job.file]
    BY DEF TypeInv, TypeOK
  <1>4. job.phase # "none" => job.file \in Files
    BY DEF TypeInv, TypeOK
  <1>5. InHand'
    BY <1>1, <1>3, <1>4 DEF StampInv, InHand
  <1> QED BY <1>2, <1>5 DEF StampInv

LEMMA StampStep ==
    ASSUME TypeInv, DistinctStamps, StampInv, [Next]_vars
    PROVE  StampInv'
  <1>1. CASE UNCHANGED <<remote, pulled, held, slipped>> /\ job' \in {job, NoJob}
    BY <1>1 DEF StampInv, Vouched, InHand, NoJob
  <1>2. ASSUME NEW c \in Calls,
               \/ \E r \in Requests : Start(c, r)
               \/ Check(c) \/ Locked(c) \/ Rewrite(c) \/ Reject(c) \/ Push(c) \/ Answer(c)
               \/ PullDone(c) \/ PushDone(c) \/ JobFails(c)
               \/ \E f \in Files : GetMissing(c, f) \/ Read(c, f) \/ Refuse(c, f)
        PROVE  StampInv'
    <2>1. UNCHANGED <<remote, pulled, held, slipped>> /\ job' \in {job, NoJob}
      BY <1>2 DEF Start, Check, Locked, Rewrite, Reject, Push, Answer, PullDone, PushDone, JobFails,
                  GetMissing, Read, Refuse, EndJob, dataVars, historyVars
    <2> QED BY <1>1, <2>1
  <1>3. ASSUME NEW c \in Calls, NEW f \in Files, GetStart(c, f)
        PROVE  StampInv'
    BY <1>3 DEF GetStart, historyVars, StampInv, Vouched, InHand
  <1>4. ASSUME NEW c \in Calls, GetDone(c)
        PROVE  StampInv'
    <2>1. job.file \in Files /\ job.phase = "copying"
      BY <1>4 DEF GetDone, At, TypeInv, TypeOK
    <2>2. \A f \in Files : held[f] \cup slipped[f] \subseteq held'[f] \cup slipped'[f]
      BY <1>4, <2>1 DEF GetDone, TypeInv, TypeOK
    <2>3. job.snap \in held'[job.file] /\ job'.file = job.file /\ job'.phase = "copied"
      BY <1>4, <2>1 DEF GetDone, TypeInv, TypeOK
    <2> QED BY <1>4, <2>1, <2>2, <2>3 DEF GetDone, StampInv, Vouched, InHand
  <1>5. ASSUME NEW c \in Calls, GetStamp(c) \/ PutStamp(c)
        PROVE  StampInv'
    BY <1>5, RecordVouches DEF GetStamp, PutStamp, At, historyVars
  <1>6. ASSUME NEW c \in Calls, NEW f \in Files, Guard(c, f)
        PROVE  StampInv'
    <2>1. PICK stamp \in RemoteStamp(f) :
             ~ Refused(f, stamp) /\ job' = [phase |-> "guarded", file |-> f, snap |-> None,
                                           blind |-> stamp = None /\ remote[f] # None]
      BY <1>6 DEF Guard
    <2>2. ~ job'.blind => remote[f] \in {None} \cup held[f] \cup slipped[f]
      BY <2>1 DEF Refused, RemoteStamp, StampInv, Vouched, TypeInv, TypeOK
    <2> QED BY <1>6, <2>1, <2>2 DEF Guard, dataVars, historyVars, StampInv, Vouched, InHand
  <1>7. ASSUME NEW c \in Calls, Put(c)
        PROVE  StampInv'
    <2>1. job.phase = "guarded" /\ job'.phase = "put" /\ job'.file = job.file /\ job'.blind = job.blind
      BY <1>7 DEF Put, At, TypeInv, TypeOK
    <2> QED BY <1>7, <2>1 DEF Put, dataVars, historyVars, StampInv, Vouched, InHand
  <1>8. ASSUME NEW c \in Calls, Swap(c)
        PROVE  StampInv'
    <2>1. job.file \in Files /\ job'.phase = "swapped" /\ job'.file = job.file
      BY <1>8 DEF Swap, At, TypeInv, TypeOK
    <2>2. \A f \in Files : held[f] \subseteq held'[f]
      BY <1>8, <2>1 DEF Swap, TypeInv, TypeOK
    <2>3. remote'[job.file] = job.snap /\ job.snap \in held'[job.file]
      BY <1>8, <2>1 DEF Swap, TypeInv, TypeOK
    <2> QED BY <1>8, <2>1, <2>2, <2>3 DEF Swap, StampInv, Vouched, InHand
  <1>9. ASSUME NEW c \in Calls, Remove(c)
        PROVE  StampInv'
    <2>1. \A f \in Files : remote'[f] \in {remote[f], None}
      BY <1>9 DEF Remove
    <2>2. job.phase # "none" => job.file \in Files
      BY DEF TypeInv, TypeOK
    <2> QED BY <1>9, <2>1, <2>2 DEF Remove, historyVars, StampInv, Vouched, InHand
  <1>10. ASSUME NEW c \in Calls, Forget(c)
        PROVE  StampInv'
    <2>1. \A f \in Files : pulled'[f] \in {pulled[f], None}
      BY <1>10 DEF Forget
    <2> QED BY <1>10, <2>1, ContentFacts DEF Forget, historyVars, StampInv, Vouched, InHand
  <1>11. ASSUME NEW f \in Files, OthersStep(f)
         PROVE  StampInv'
    <2>1. next <= MaxVersion => next \in Contents
      BY VersionFacts, ContentFacts DEF TypeInv, TypeOK
    <2>2. away[f] \in Contents \cup {None}
      BY DEF TypeInv, TypeOK
    <2> QED BY <1>11, <2>1, <2>2, PlaceKeepsStamps
            DEF OthersStep, OthersWrite, OthersMoveAway, OthersMoveBack, Place, callVars, historyVars
  <1>12. CASE Terminating \/ UNCHANGED vars
    BY <1>1, <1>12 DEF Terminating, vars, dataVars, callVars, historyVars
  <1> QED BY <1>2, <1>3, <1>4, <1>5, <1>6, <1>7, <1>8, <1>9, <1>10, <1>11, <1>12 DEF Next, Step

-----------------------------------------------------------------------------
(* The theorems about every interleaving. *)

\* The state of the engine and of its calls keeps its type.
THEOREM EngineTypeCorrect == Spec => []TypeOK
  <1>1. Spec => []TypeInv
    BY InitTypes, TypeStep, PTL DEF Spec
  <1>2. TypeInv => TypeOK
    BY DEF TypeInv
  <1> QED BY <1>1, <1>2, PTL

LEMMA StampInductive ==
    ASSUME DistinctStamps
    PROVE  Spec => [](TypeInv /\ StampInv)
  <1>1. Init => StampInv
    BY ContentFacts DEF Init, StampInv, Vouched, InHand, NoJob
  <1>2. TypeInv /\ StampInv /\ [Next]_vars => (TypeInv /\ StampInv)'
    BY TypeStep, StampStep
  <1> QED BY <1>1, <1>2, InitTypes, PTL DEF Spec

\* setPulled: a stamp in the manifest vouches for contents that the mirror has held, however
\* jobs, tools and others interleave, but for what slips in while a job has the file in hand.
THEOREM StampsVouch ==
    ASSUME DistinctStamps
    PROVE  Spec => []StampMeansSeen
  <1>1. TypeInv /\ StampInv => StampMeansSeen
    BY DEF TypeInv, TypeOK, StampInv, Vouched, StampMeansSeen
  <1> QED BY <1>1, StampInductive, PTL

\* The guard of push: where it has the file's stamp, what the upload replaces the mirror
\* has held, or it was put there while the job had the file in hand.
THEOREM GuardHolds ==
    ASSUME DistinctStamps
    PROVE  Spec => NoBlindOverwrite
  <1>1. TypeInv /\ StampInv /\ [Next]_vars =>
          [\A f \in Files : Swapping(f) /\ ~ job.blind /\ remote[f] \notin slipped[f] \cup {None}
              => remote[f] \in held[f]]_vars
    BY DEF StampInv, InHand, Swapping
  <1> QED BY <1>1, StampInductive, PTL DEF Spec, NoBlindOverwrite

-----------------------------------------------------------------------------
(* Who works, where calls overlap under the file locks only. *)

LEMMA WorkAlone ==
    ASSUME OnlyEdits, Queued
    PROVE  Alone
  <1> SUFFICES ASSUME NEW c \in Calls, NEW d \in Calls, pc[c] \in Working, pc[d] \in Working, c # d
               PROVE  FALSE
    BY DEF Alone
  <1>1. Live(c) /\ Live(d)
    BY DEF Live, Working
  <1>2. /\ request[c].tool = "edit" /\ request[d].tool = "edit" /\ request[c].paths = request[d].paths
        /\ request[c] \in Requests
    BY <1>1 DEF OnlyEdits
  <1>3. PICK f : f \in request[c].paths
    BY <1>2, RequestFacts
  <1> QED BY <1>2, <1>3 DEF Queued

\* Only Start brings in a call.
LEMMA OnlyEditsStart ==
    ASSUME TypeInv, LockedApart, OnlyEdits, NEW c \in Calls, NEW r \in Requests, Start(c, r)
    PROVE  OnlyEdits'
  <1>1. request' = [request EXCEPT ![c] = r] /\ \A d \in Calls : d # c => pc'[d] = pc[d]
    BY DEF Start, Register, Submit, TypeInv, TypeOK
  <1>2. /\ \A d \in Calls \ {c} : request'[d] = request[d] /\ (Live(d)' <=> Live(d))
        /\ request'[c] = r
    BY <1>1 DEF Live, TypeInv, TypeOK
  <1>3. \A d \in Calls \ {c} : Live(d) =>
          request[d] \in Requests /\ r.tool = "edit" /\ request[d].tool = "edit" /\ request[d].paths = r.paths
    BY DEF Start, Live, Ended, OnlyEdits, LockedApart
  <1> QED BY <1>2, <1>3 DEF OnlyEdits

LEMMA OnlyEditsKept ==
    ASSUME OnlyEdits, UNCHANGED request, \A d \in Calls : Live(d)' => Live(d)
    PROVE  OnlyEdits'
  BY DEF OnlyEdits

\* What leaves the queues, and the others, as they are.
LEMMA QueuedKept ==
    ASSUME TypeInv, Queued, NEW c \in Calls, UNCHANGED locks,
           \A d \in Calls \ {c} : pc'[d] = pc[d] /\ request'[d] = request[d],
           pc'[c] # "locking",
           pc'[c] \in Working /\ request'[c].tool = "edit" =>
               \A f \in request'[c].paths : locks[f] # <<>> /\ Head(locks[f]) = c
    PROVE  Queued'
  BY DEF Queued, InQueue

\* A call that ends leaves the queue it heads.
LEMMA QueuedEnd ==
    ASSUME TypeInv, Queued, NEW c \in Calls, NEW how \in {"done", "failed"}, End(c, how), UNCHANGED request
    PROVE  Queued'
  <1>1. /\ \A d \in Calls \ {c} : pc'[d] = pc[d]
        /\ pc'[c] = how
    BY DEF End, TypeInv, TypeOK
  <1>2. ASSUME NEW f \in Files, locks[f] # <<>>, Head(locks[f]) # c
        PROVE  locks'[f] = locks[f]
    BY <1>2 DEF End, Unlock
  <1>3. ASSUME NEW f \in Files, NEW d \in Calls \ {c}, InQueue(f, d)
        PROVE  InQueue(f, d)'
    <2>1. locks[f] \in Seq(Calls) /\ locks'[f] = IF locks[f] # <<>> /\ Head(locks[f]) = c THEN Tail(locks[f]) ELSE locks[f]
      BY DEF End, Unlock, TypeInv, TypeOK
    <2>2. PICK i \in 1..Len(locks[f]) : locks[f][i] = d
      BY <1>3 DEF InQueue
    <2>3. CASE locks'[f] = locks[f]
      BY <1>3, <2>3 DEF InQueue
    <2>4. CASE locks'[f] = Tail(locks[f]) /\ Head(locks[f]) = c
      <3>1. i # 1 /\ i - 1 \in 1..Len(Tail(locks[f])) /\ Tail(locks[f])[i - 1] = d
        BY <2>1, <2>2, <2>4
      <3> QED BY <2>4, <3>1 DEF InQueue
    <2> QED BY <2>1, <2>3, <2>4
  <1>4. \A d \in Calls : request[d].paths \subseteq Files
    BY RequestFacts DEF TypeInv, TypeOK
  <1> QED BY <1>1, <1>2, <1>3, <1>4 DEF Queued, Working

LEMMA QueuedAppend ==
    ASSUME TypeInv, Queued, NEW c \in Calls, UNCHANGED request, request[c].tool = "edit",
           pc' = [pc EXCEPT ![c] = "locking"],
           locks' = [f \in Files |-> IF f \in request[c].paths THEN Append(locks[f], c) ELSE locks[f]]
    PROVE  Queued'
  <1>1. \A d \in Calls : request[d].paths \subseteq Files
    BY RequestFacts DEF TypeInv, TypeOK
  <1>2. ASSUME NEW f \in Files
        PROVE  /\ locks[f] # <<>> => locks'[f] # <<>> /\ Head(locks'[f]) = Head(locks[f])
               /\ \A d \in Calls : InQueue(f, d) => InQueue(f, d)'
               /\ f \in request[c].paths => InQueue(f, c)'
    <2>1. locks[f] \in Seq(Calls) /\ locks'[f] \in {locks[f], Append(locks[f], c)}
      BY DEF TypeInv, TypeOK
    <2>2. CASE locks'[f] = Append(locks[f], c)
      <3>1. Len(Append(locks[f], c)) = Len(locks[f]) + 1 /\ Append(locks[f], c)[Len(locks[f]) + 1] = c
            /\ \A i \in 1..Len(locks[f]) : Append(locks[f], c)[i] = locks[f][i]
        BY <2>1
      <3>2. Len(locks[f]) \in Nat
        BY <2>1
      <3> QED BY <2>1, <2>2, <3>1, <3>2 DEF InQueue
    <2>3. CASE locks'[f] = locks[f] /\ f \notin request[c].paths
      BY <2>3 DEF InQueue
    <2> QED BY <2>2, <2>3
  <1>3. pc'[c] = "locking" /\ \A d \in Calls \ {c} : pc'[d] = pc[d]
    BY DEF TypeInv, TypeOK
  <1> QED BY <1>1, <1>2, <1>3 DEF Queued, Working

LEMMA QueuedStep ==
    ASSUME TypeInv, LockedApart, OnlyEdits, Queued, [Next]_vars
    PROVE  OnlyEdits' /\ Queued'
  <1> USE DEF Working
  <1>1. ASSUME NEW c \in Calls, NEW r \in Requests, Start(c, r)
        PROVE  OnlyEdits' /\ Queued'
    <2>1. /\ request' = [request EXCEPT ![c] = r] /\ UNCHANGED locks
          /\ r.tool = "edit" => pc' = [pc EXCEPT ![c] = "checking"]
          /\ \E v \in {"checking", "pulling"} : pc' = [pc EXCEPT ![c] = v]
      BY <1>1 DEF Start, Register, Submit
    <2>2. /\ \A d \in Calls \ {c} : pc'[d] = pc[d] /\ request'[d] = request[d]
          /\ request'[c] = r /\ pc'[c] \in {"checking", "pulling"}
          /\ r.tool = "edit" => pc'[c] = "checking"
      BY <2>1 DEF TypeInv, TypeOK
    <2> QED BY <1>1, <2>1, <2>2, OnlyEditsStart, QueuedKept
  <1>2. ASSUME NEW c \in Calls, NEW u, u # "locking", Live(c), pc' = [pc EXCEPT ![c] = u],
               UNCHANGED <<request, locks>>,
               u \in Working /\ request[c].tool = "edit" =>
                   \A f \in request[c].paths : locks[f] # <<>> /\ Head(locks[f]) = c
        PROVE  OnlyEdits' /\ Queued'
    <2>1. pc'[c] = u /\ \A d \in Calls \ {c} : pc'[d] = pc[d]
      BY <1>2 DEF TypeInv, TypeOK
    <2>2. \A d \in Calls : Live(d)' => Live(d)
      BY <1>2, <2>1 DEF Live
    <2> QED BY <1>2, <2>1, <2>2, OnlyEditsKept, QueuedKept
  <1>3. ASSUME NEW c \in Calls, NEW how \in {"done", "failed"}, End(c, how), UNCHANGED request
        PROVE  OnlyEdits' /\ Queued'
    <2>1. \A d \in Calls : Live(d)' => Live(d)
      BY <1>3 DEF End, Live, TypeInv, TypeOK
    <2> QED BY <1>3, <2>1, OnlyEditsKept, QueuedEnd
  <1>4. ASSUME NEW c \in Calls, Check(c)
        PROVE  OnlyEdits' /\ Queued'
    <2>1. CASE request[c].tool = "edit" /\ pc' = [pc EXCEPT ![c] = "locking"]
      <3>1. \A d \in Calls : Live(d)' => Live(d)
        BY <1>4, <2>1 DEF Check, Live, TypeInv, TypeOK
      <3>2. locks' = [f \in Files |-> IF f \in request[c].paths THEN Append(locks[f], c) ELSE locks[f]]
            /\ UNCHANGED request
        BY <1>4, <2>1 DEF Check, Register, Submit, TypeInv, TypeOK
      <3> QED BY <2>1, <3>1, <3>2, OnlyEditsKept, QueuedAppend
    <2>2. CASE \/ pc' = [pc EXCEPT ![c] = "failed"] /\ UNCHANGED locks
               \/ /\ request[c].tool = "read" /\ UNCHANGED locks
                  /\ pc' = [pc EXCEPT ![c] = "pulling"]
      BY <1>2, <1>4, <2>2 DEF Check, Live
    <2> QED BY <1>4, <2>1, <2>2 DEF Check, Register, Submit
  <1>5. ASSUME NEW c \in Calls, Locked(c)
        PROVE  OnlyEdits' /\ Queued'
    <2>1. Live(c) /\ pc' = [pc EXCEPT ![c] = "pulling"] /\ UNCHANGED <<request, locks>>
      BY <1>5 DEF Locked, Register, Submit, Live
    <2>2. \A f \in request[c].paths : InQueue(f, c) /\ f \in Files /\ Head(locks[f]) = c
      BY <1>5, RequestFacts DEF Queued, Locked, TypeInv, TypeOK
    <2>3. \A f \in request[c].paths : locks[f] # <<>>
      BY <2>2 DEF InQueue
    <2> QED BY <1>2, <2>1, <2>2, <2>3
  <1>6. ASSUME NEW c \in Calls, PullDone(c) \/ Push(c) \/ Remove(c) \/ PushDone(c)
        PROVE  OnlyEdits' /\ Queued'
    <2>1. CASE End(c, "done") /\ UNCHANGED request
      BY <1>3, <2>1
    <2>2. CASE /\ \E u \in Working : pc' = [pc EXCEPT ![c] = u]
               /\ UNCHANGED <<request, locks>> /\ pc[c] \in Working
      BY <1>2, <2>2 DEF Live, Queued
    <2> QED BY <1>6, <2>1, <2>2 DEF PullDone, Push, Submit, Remove, PushDone
  <1>7. ASSUME NEW c \in Calls, \/ Reject(c) \/ Answer(c) \/ JobFails(c) \/ Forget(c)
                               \/ \E f \in Files : Refuse(c, f)
        PROVE  OnlyEdits' /\ Queued'
    <2>1. \E how \in {"done", "failed"} : End(c, how) /\ UNCHANGED request
      BY <1>7 DEF Reject, Answer, JobFails, Forget, Refuse
    <2> QED BY <1>3, <2>1
  <1>8. ASSUME UNCHANGED <<pc, request, locks>>
        PROVE  OnlyEdits' /\ Queued'
    BY <1>8 DEF OnlyEdits, Live, Queued, InQueue
  <1>9. ASSUME NEW c \in Calls,
               \/ GetDone(c) \/ GetStamp(c) \/ Rewrite(c) \/ Put(c) \/ Swap(c) \/ PutStamp(c)
               \/ \E f \in Files : GetStart(c, f) \/ GetMissing(c, f) \/ Read(c, f) \/ Guard(c, f)
        PROVE  UNCHANGED <<pc, request, locks>>
    BY <1>9 DEF GetDone, GetStamp, Rewrite, Put, Swap, PutStamp, GetStart, GetMissing, Read, Guard
  <1>10. CASE Terminating \/ UNCHANGED vars \/ \E f \in Files : OthersStep(f)
    BY <1>8, <1>10 DEF Terminating, vars, callVars, OthersStep, OthersWrite, OthersMoveAway, OthersMoveBack
  <1> QED BY <1>1, <1>4, <1>5, <1>6, <1>7, <1>8, <1>9, <1>10 DEF Next, Step

-----------------------------------------------------------------------------
(* The job that runs. *)

\* Steps of calls that are not at a job.
LEMMA JobKept ==
    ASSUME TypeInv, JobInv, NEW c \in Calls, pc[c] \notin {"pulling", "pushing"}, UNCHANGED job,
           \A d \in Calls \ {c} : pc'[d] = pc[d] /\ todo'[d] = todo[d],
           mutex' = mutex \/ mutex' = Append(mutex, c)
    PROVE  JobInv'
  <1> SUFFICES ASSUME job.phase # "none"
               PROVE  JobInv'
    BY DEF JobInv
  <1>1. mutex \in Seq(Calls) /\ mutex # <<>> /\ Head(mutex) \in Calls
    BY DEF TypeInv, TypeOK
  <1>2. Head(mutex') = Head(mutex)
    BY <1>1
  <1> QED BY <1>1, <1>2 DEF JobInv

LEMMA JobStep ==
    ASSUME TypeInv, JobInv, [Next]_vars
    PROVE  JobInv'
  <1>1. CASE job' = NoJob
    BY <1>1 DEF JobInv, NoJob
  <1>2. ASSUME NEW c \in Calls,
               \/ GetStamp(c) \/ PullDone(c) \/ PutStamp(c) \/ PushDone(c) \/ JobFails(c)
               \/ \E f \in Files : Refuse(c, f)
        PROVE  job' = NoJob
    BY <1>2 DEF GetStamp, PullDone, PutStamp, PushDone, JobFails, Refuse, EndJob, Record
  <1>3. ASSUME NEW c \in Calls,
               \/ \E r \in Requests : Start(c, r)
               \/ Check(c) \/ Locked(c) \/ Rewrite(c) \/ Reject(c) \/ Push(c) \/ Answer(c)
               \/ Remove(c) \/ Forget(c) \/ \E f \in Files : Read(c, f)
        PROVE  JobInv'
    <2>1. /\ pc[c] \notin {"pulling", "pushing"} /\ UNCHANGED job
          /\ mutex' = mutex \/ mutex' = Append(mutex, c)
          /\ pc' = pc \/ \E u : pc' = [pc EXCEPT ![c] = u]
          /\ todo' = todo \/ \E fs : todo' = [todo EXCEPT ![c] = fs]
      BY <1>3 DEF Start, Check, Locked, Rewrite, Reject, Push, Answer, Remove, Forget, Read, Register,
                  Submit, End
    <2>2. \A d \in Calls \ {c} : pc'[d] = pc[d] /\ todo'[d] = todo[d]
      BY <2>1 DEF TypeInv, TypeOK
    <2> QED BY <2>1, <2>2, JobKept
  <1>4. ASSUME NEW c \in Calls, NEW f \in Files, GetStart(c, f) \/ Guard(c, f)
        PROVE  JobInv'
    BY <1>4 DEF GetStart, Guard, At, Running, JobInv
  <1>5. ASSUME NEW c \in Calls, NEW f \in Files, GetMissing(c, f)
        PROVE  JobInv'
    BY <1>5 DEF GetMissing, At, JobInv
  <1>6. ASSUME NEW c \in Calls, GetDone(c) \/ Put(c) \/ Swap(c)
        PROVE  JobInv'
    <2>1. /\ job.phase # "none" /\ job'.file = job.file /\ UNCHANGED <<pc, todo, mutex>>
          /\ job.phase \in {"copying", "copied"} <=> job'.phase \in {"copying", "copied"}
      BY <1>6 DEF GetDone, Put, Swap, At, TypeInv, TypeOK
    <2> QED BY <2>1 DEF JobInv
  <1>7. CASE UNCHANGED <<pc, todo, mutex, job>>
    BY <1>7 DEF JobInv
  <1>8. CASE Terminating \/ UNCHANGED vars \/ \E f \in Files : OthersStep(f)
    BY <1>7, <1>8 DEF Terminating, vars, callVars, OthersStep, OthersWrite, OthersMoveAway, OthersMoveBack
  <1> QED BY <1>1, <1>2, <1>3, <1>4, <1>5, <1>6, <1>8 DEF Next, Step

\* A call that works and is at no job leaves nothing in hand.
LEMMA NothingInHand ==
    ASSUME TypeInv, QueueInv, NEW c \in Calls, pc[c] \in Working, pc[c] \notin {"pulling", "pushing"}
    PROVE  job.phase = "none"
  <1> SUFFICES ASSUME job.phase # "none" PROVE FALSE
    OBVIOUS
  <1>1. Head(mutex) \in Calls /\ pc[Head(mutex)] \in {"pulling", "pushing"}
    BY DEF TypeInv, TypeOK, QueueInv, JobInv
  <1> QED BY <1>1, WorkAlone DEF QueueInv, Alone, Working

-----------------------------------------------------------------------------
(* What the mirror has, and what the calls made of it. *)

\* A call that is not at work has no stake in the data.
LEMMA BystanderKeeps ==
    ASSUME NEW d \in Calls, Data(d), Whereabouts(d), pc[d] \notin Working,
           pc'[d] = pc[d], got'[d] = got[d], wrote'[d] = wrote[d], landed \subseteq landed'
    PROVE  Data(d)' /\ Whereabouts(d)'
  BY DEF Data, Whereabouts, Working

\* So a step of the call that works is judged by that call and its job.
LEMMA WorkerStep ==
    ASSUME QueueInv, DataInv, NEW c \in Calls, pc[c] \in Working,
           \A d \in Calls \ {c} : pc'[d] = pc[d] /\ got'[d] = got[d] /\ wrote'[d] = wrote[d],
           landed \subseteq landed', Dated', InJob', Data(c)', Whereabouts(c)'
    PROVE  DataInv'
  <1>1. \A d \in Calls \ {c} : pc[d] \notin Working
    BY WorkAlone DEF QueueInv, Alone
  <1>2. \A d \in Calls \ {c} : Data(d)' /\ Whereabouts(d)'
    BY <1>1, BystanderKeeps DEF DataInv
  <1> QED BY <1>2 DEF DataInv

\* The types the steps rely on.
LEMMA DataTypeFacts ==
    ASSUME TypeInv
    PROVE  /\ \A f \in Files : /\ remote[f] \in Contents \cup {None} /\ mirror[f] \in Contents \cup {None}
                               /\ pulled[f] \in Stamps \cup {None} /\ slipped[f] \subseteq Contents
           /\ next \in Nat /\ (next <= MaxVersion => next \in Versions)
           /\ \A c \in Calls : todo[c] \subseteq Files /\ Rewrites(request[c]) \subseteq Files
                               /\ request[c].paths \subseteq Files
           /\ \A v \in Versions : v \in Nat
  <1>1. next \in Nat /\ (next <= MaxVersion => next \in Versions)
    BY BoundsAssumption DEF TypeInv, TypeOK, Versions
  <1>2. \A c \in Calls : request[c] \in Requests \cup {NoRequest}
    BY DEF TypeInv, TypeOK
  <1> QED BY <1>1, <1>2, RequestFacts, VersionFacts DEF TypeInv, TypeOK

\* A pull.
LEMMA PullData ==
    ASSUME TypeInv, DistinctStamps, StampInv, QueueInv, DataInv, NEW c \in Calls,
           \/ GetDone(c) \/ GetStamp(c) \/ PullDone(c)
           \/ \E f \in Files : GetStart(c, f) \/ GetMissing(c, f)
    PROVE  DataInv'
  <1> USE DataTypeFacts, ContentFacts
  <1>1. pc[c] = "pulling" /\ pc[c] \in Working /\ UNCHANGED <<landed, wrote, got, base, request, next>>
    BY DEF GetDone, GetStamp, PullDone, GetStart, GetMissing, Working, dataVars, historyVars
  <1>2. \A d \in Calls \ {c} : pc'[d] = pc[d]
    BY DEF GetDone, GetStamp, PullDone, GetStart, GetMissing, TypeInv, TypeOK
  <1>3. Dated /\ InJob /\ Data(c) /\ Whereabouts(c)
    BY DEF DataInv
  <1>4. job.phase # "none" /\ Head(mutex) = c => job.file \in todo[c] /\ job.file \in Files
    BY DEF QueueInv, JobInv
  <1>5. SUFFICES Dated' /\ InJob' /\ Data(c)' /\ Whereabouts(c)'
    BY <1>1, <1>2, WorkerStep
  <1>6. CASE pc' = pc
    <2>1. Whereabouts(c)' /\ got'[c].file = None
      BY <1>1, <1>3, <1>6 DEF Whereabouts, Data
    <2>2. SUFFICES Dated' /\ InJob' /\ \A f \in Rewrites(request[c]) \ todo'[c] : Readable(c, f)'
      BY <1>1, <1>6, <2>1 DEF Data
    <2>3. \A f \in Rewrites(request[c]) \ todo[c] : Readable(c, f)
      BY <1>1, <1>3 DEF Data
    <2>4. ASSUME NEW f \in Files, GetStart(c, f)
          PROVE  Dated' /\ InJob' /\ \A g \in Rewrites(request[c]) \ todo'[c] : Readable(c, g)'
      <3>1. UNCHANGED <<remote, pulled, slipped, request, existed, todo>> /\ f \in todo[c]
            /\ \A g \in Files \ {f} : mirror'[g] = mirror[g]
        BY <2>4 DEF GetStart, historyVars, TypeInv, TypeOK
      <3>2. \A g \in Rewrites(request[c]) \ todo'[c] : Readable(c, g)'
        BY <2>3, <3>1 DEF Readable, Seen
      <3>3. remote[f] \in Versions /\ job'.phase = "copying" /\ job'.snap = remote[f]
        BY <1>3, <2>4 DEF Dated, GetStart
      <3>4. mirror'[f] = Partial
        BY <2>4 DEF GetStart, TypeInv, TypeOK
      <3>5. Dated'
        BY <1>1, <1>3, <3>1, <3>3, <3>4 DEF Dated, Young
      <3>6. InJob'
        BY <3>3 DEF InJob
      <3> QED BY <3>2, <3>5, <3>6
    <2>5. ASSUME NEW f \in Files, GetMissing(c, f)
          PROVE  Dated' /\ InJob' /\ \A g \in Rewrites(request[c]) \ todo'[c] : Readable(c, g)'
      <3>1. /\ UNCHANGED <<remote, pulled, slipped, request, existed, job>> /\ remote[f] = None
            /\ \A g \in Files \ {f} : mirror'[g] = mirror[g]
            /\ mirror'[f] = Empty /\ todo'[c] = todo[c] \ {f} /\ job.phase = "none"
        BY <2>5 DEF GetMissing, At, historyVars, TypeInv, TypeOK
      <3>2. \A g \in Rewrites(request[c]) \ todo'[c] : Readable(c, g)'
        BY <2>3, <3>1 DEF Readable, Seen
      <3>3. Dated'
        BY <1>1, <1>3, <3>1 DEF Dated, Young
      <3>4. InJob'
        BY <3>1 DEF InJob
      <3> QED BY <3>2, <3>3, <3>4
    <2>6. CASE GetDone(c)
      <3>0. PICK f \in Files : f = job.file /\ f \in todo[c]
        BY <1>4, <2>6 DEF GetDone, At, Running
      <3>1. /\ UNCHANGED <<remote, pulled, request, existed, todo>>
            /\ job.phase = "copying" /\ f \in todo[c] /\ f \in Files
            /\ job'.phase = "copied" /\ job'.file = f /\ job'.snap = job.snap
        BY <2>6, <3>0 DEF GetDone, At, Running, TypeInv, TypeOK
      <3>2. /\ \A g \in Files \ {f} : mirror'[g] = mirror[g] /\ slipped'[g] = slipped[g]
            /\ mirror'[f] = job.snap /\ slipped'[f] = slipped[f] \ {job.snap}
        BY <2>6, <3>0, <3>1 DEF GetDone, TypeInv, TypeOK
      <3>3. \A g \in Rewrites(request[c]) \ todo'[c] : Readable(c, g)'
        BY <2>3, <3>1, <3>2 DEF Readable, Seen
      <3>4. Dated'
        BY <1>1, <1>3, <3>1, <3>2 DEF Dated, Young
      <3>5. remote[f] \in {None, job.snap} \cup slipped[f]
        BY <3>0, <3>1 DEF StampInv, InHand
      <3>6. InJob'
        BY <3>0, <3>1, <3>2, <3>5 DEF InJob
      <3> QED BY <3>3, <3>4, <3>6
    <2>7. CASE GetStamp(c)
      <3>0. PICK f \in Files : f = job.file /\ f \in todo[c]
        BY <1>4, <2>7 DEF GetStamp, At, Running
      <3>1. /\ UNCHANGED <<remote, mirror, slipped, request>>
            /\ job.phase = "copied" /\ f \in todo[c] /\ f \in Files
            /\ job' = NoJob /\ todo'[c] = todo[c] \ {f}
        BY <2>7, <3>0 DEF GetStamp, Record, At, Running, historyVars, TypeInv, TypeOK
      <3>2. /\ \A g \in Files \ {f} : pulled'[g] = pulled[g]
            /\ pulled'[f] = pulled[f] \/ (remote[f] # None /\ pulled'[f] = Stamp(remote[f]))
        BY <2>7, <3>0, <3>1 DEF GetStamp, Record, RemoteStamp, TypeInv, TypeOK
      <3>3. /\ request[c].tool = "write" => existed'[c] = existed[c] \cup {f}
            /\ request[c].tool # "write" => existed'[c] = existed[c]
        BY <2>7, <3>0 DEF GetStamp, TypeInv, TypeOK
      <3>4. remote[f] \in {None} \cup slipped[f] \cup {mirror[f]}
        BY <1>3, <3>0, <3>1 DEF InJob
      <3>5. Readable(c, f)'
        BY <3>1, <3>3, <3>4 DEF Readable, Seen
      <3>6. \A g \in Rewrites(request[c]) \ todo'[c] : Readable(c, g)'
        BY <2>3, <3>1, <3>2, <3>3, <3>5 DEF Readable, Seen
      <3>7. \A v \in Versions : pulled'[f] = Stamp(v) => Young(v)
        BY <1>3, <3>1, <3>2, StampsApart DEF Dated
      <3>8. Dated'
        BY <1>1, <1>3, <3>1, <3>2, <3>7, RequestsAssumption DEF Dated, Young, NoJob
      <3>9. InJob'
        BY <3>1 DEF InJob, NoJob
      <3> QED BY <3>6, <3>8, <3>9
    <2> QED BY <1>6, <2>4, <2>5, <2>6, <2>7, <1>1 DEF PullDone, TypeInv, TypeOK
  <1>7. CASE PullDone(c)
    <2>1. /\ UNCHANGED <<remote, mirror, pulled, slipped, request, existed>> /\ job' = NoJob
          /\ pc'[c] = IF request[c].tool = "read" THEN "reading" ELSE "rewriting"
          /\ todo[c] = {} /\ todo'[c] = Rewrites(request[c])
      BY <1>7 DEF PullDone, EndJob, dataVars, historyVars, TypeInv, TypeOK
    <2>2. Dated' /\ InJob'
      BY <1>1, <1>3, <2>1, RequestsAssumption DEF Dated, Young, InJob, NoJob
    <2>3. got[c].file = None /\ wrote[c] = {} /\ \A f \in Rewrites(request[c]) : Readable(c, f)
      BY <1>1, <1>3, <2>1 DEF Data, Whereabouts
    <2>4. Data(c)'
      BY <1>1, <2>1, <2>3 DEF Data, Readable, Seen
    <2>5. Whereabouts(c)'
      BY <1>1, <2>1, <2>3 DEF Whereabouts
    <2> QED BY <2>2, <2>4, <2>5
  <1> QED BY <1>6, <1>7 DEF GetDone, GetStamp, GetStart, GetMissing

\* The tool's own work on the mirror.
LEMMA ToolData ==
    ASSUME TypeInv, QueueInv, DataInv, NEW c \in Calls,
           \/ Rewrite(c) \/ Reject(c) \/ Push(c) \/ Answer(c) \/ Remove(c) \/ Forget(c)
           \/ \E f \in Files : Read(c, f)
    PROVE  DataInv'
  <1> USE DataTypeFacts, ContentFacts
  <1>1. pc[c] \in Working \ {"pulling", "pushing"} /\ UNCHANGED <<landed, slipped, request, job>>
    BY DEF Read, Rewrite, Reject, Push, Answer, Remove, Forget, Working, dataVars, historyVars
  <1>2. \A d \in Calls \ {c} : pc'[d] = pc[d] /\ got'[d] = got[d] /\ wrote'[d] = wrote[d]
    BY DEF Read, Rewrite, Reject, Push, Submit, Answer, Remove, Forget, End, TypeInv, TypeOK
  <1>3. Dated /\ InJob /\ Data(c) /\ Whereabouts(c)
    BY DEF DataInv
  <1>4. job.phase = "none" /\ InJob'
    BY <1>1, NothingInHand DEF InJob
  <1>5. SUFFICES Dated' /\ Data(c)' /\ Whereabouts(c)'
    BY <1>1, <1>2, <1>4, WorkerStep
  <1>6. ASSUME UNCHANGED <<remote, mirror, pulled, next>>
        PROVE  Dated'
    BY <1>1, <1>3, <1>6 DEF Dated, Young
  <1>7. ASSUME NEW f \in Files, Read(c, f)
        PROVE  Dated' /\ Data(c)' /\ Whereabouts(c)'
    <2>1. /\ UNCHANGED <<remote, mirror, pulled, next, base, existed, todo, wrote, pc>>
          /\ pc[c] = "rewriting" /\ f \in todo[c] /\ got[c].file = None
          /\ got'[c].file = f
          /\ got'[c].text = IF request[c].tool = "write" /\ f \notin existed[c] THEN Empty ELSE mirror[f]
      BY <1>7 DEF Read, dataVars, historyVars, TypeInv, TypeOK
    <2>2. \A g \in todo[c] : Readable(c, g)
      BY <1>3, <2>1 DEF Data
    <2>3. Data(c)'
      BY <1>1, <1>3, <2>1, <2>2 DEF Data, Readable, Seen, Made
    <2>4. Whereabouts(c)'
      BY <1>1, <1>3, <2>1 DEF Whereabouts
    <2> QED BY <1>6, <2>1, <2>3, <2>4
  <1>8. CASE Rewrite(c)
    <2>1. PICK g : g = got[c].file /\ g \in todo[c] /\ g \in Files /\ Seen(g, got[c].text)
      BY <1>3, <1>8 DEF Rewrite, Data
    <2>2. /\ UNCHANGED <<remote, pulled, existed, pc>> /\ pc[c] = "rewriting"
          /\ next \in Versions /\ next' = next + 1
          /\ got'[c].file = None /\ todo'[c] = todo[c] \ {g} /\ wrote'[c] = wrote[c] \cup {next}
      BY <1>8, <2>1 DEF Rewrite, historyVars, TypeInv, TypeOK
    <2>3. /\ base'[next] = got[c].text /\ \A v \in Versions \ {next} : base'[v] = base[v]
          /\ mirror'[g] = next /\ \A f \in Files \ {g} : mirror'[f] = mirror[f]
      BY <1>8, <2>1, <2>2 DEF Rewrite, TypeInv, TypeOK
    <2>4. Dated'
      BY <1>1, <1>3, <2>1, <2>2, <2>3 DEF Dated, Young
    <2>5. todo[c] \subseteq Rewrites(request[c]) /\ \A f \in Rewrites(request[c]) \ todo[c] : Made(f)
      BY <1>3, <2>2 DEF Data
    <2>6. Made(g)'
      BY <1>1, <2>1, <2>2, <2>3 DEF Made, Seen
    <2>7. ASSUME NEW f \in Rewrites(request[c]) \ todo[c]
          PROVE  Made(f)'
      <3>1. Made(f) /\ f # g /\ mirror[f] # next
        BY <1>3, <2>1, <2>2, <2>5 DEF Made, Dated, Young
      <3> QED BY <1>1, <2>2, <2>3, <3>1 DEF Made, Seen
    <2>8. \A f \in todo[c] \ {g} : Readable(c, f)'
      BY <1>1, <1>3, <2>1, <2>2, <2>3 DEF Data, Readable, Seen
    <2>9. Data(c)'
      BY <1>1, <2>1, <2>2, <2>5, <2>6, <2>7, <2>8 DEF Data
    <2>10. Whereabouts(c)'
      <3>1. \A w \in wrote[c] : \E f \in Rewrites(request[c]) \ todo[c] : mirror[f] = w
        BY <1>3, <2>2 DEF Whereabouts
      <3> QED BY <1>1, <2>1, <2>2, <2>3, <2>5, <3>1 DEF Whereabouts
    <2> QED BY <2>4, <2>9, <2>10
  <1>9. CASE Reject(c)
    <2>1. pc'[c] = "failed" /\ UNCHANGED <<remote, mirror, pulled, next>>
      BY <1>9 DEF Reject, End, dataVars, TypeInv, TypeOK
    <2> QED BY <1>6, <2>1 DEF Data, Whereabouts
  <1>10. CASE Push(c)
    <2>1. /\ UNCHANGED <<remote, mirror, pulled, next, base, wrote>> /\ todo[c] = {}
          /\ pc[c] = "rewriting" /\ pc'[c] = "pushing" /\ todo'[c] = Rewrites(request[c])
      BY <1>10 DEF Push, Submit, dataVars, TypeInv, TypeOK
    <2>2. \A f \in Rewrites(request[c]) : Made(f)
      BY <1>3, <2>1 DEF Data
    <2>3. Data(c)'
      BY <1>1, <2>1, <2>2 DEF Data, Made, Seen
    <2>4. Whereabouts(c)'
      BY <1>1, <1>3, <2>1 DEF Whereabouts
    <2> QED BY <1>6, <2>1, <2>3, <2>4
  <1>11. CASE Answer(c)
    <2>1. /\ UNCHANGED <<remote, mirror, pulled, next, wrote>>
          /\ pc[c] = "reading" /\ pc'[c] \in {"done", "failed"}
      BY <1>11 DEF Answer, End, dataVars, TypeInv, TypeOK
    <2>2. Whereabouts(c)'
      BY <1>1, <1>3, <2>1 DEF Whereabouts
    <2> QED BY <1>6, <2>1, <2>2 DEF Data
  <1>12. CASE Remove(c)
    <2>1. /\ UNCHANGED <<mirror, pulled, next, wrote>>
          /\ pc[c] = "removing" /\ pc'[c] = "removed"
          /\ \A f \in Files : remote'[f] \in {remote[f], None}
      BY <1>12 DEF Remove, TypeInv, TypeOK
    <2>2. Dated'
      BY <1>1, <1>3, <2>1 DEF Dated, Young
    <2>3. Whereabouts(c)' /\ Data(c)'
      BY <1>1, <1>3, <2>1 DEF Whereabouts, Data
    <2> QED BY <2>2, <2>3
  <1>13. CASE Forget(c)
    <2>1. /\ UNCHANGED <<remote, next, wrote>>
          /\ pc[c] = "removed" /\ pc'[c] = "done"
          /\ \A f \in Files : mirror'[f] \in {mirror[f], None} /\ pulled'[f] \in {pulled[f], None}
      BY <1>13 DEF Forget, End, TypeInv, TypeOK
    <2>2. Dated'
      BY <1>1, <1>3, <2>1 DEF Dated, Young
    <2>3. Whereabouts(c)' /\ Data(c)'
      BY <1>1, <1>3, <2>1 DEF Whereabouts, Data
    <2> QED BY <2>2, <2>3
  <1> QED BY <1>7, <1>8, <1>9, <1>10, <1>11, <1>12, <1>13

\* A push.
LEMMA PushData ==
    ASSUME TypeInv, DistinctStamps, QueueInv, DataInv, NEW c \in Calls,
           \/ Put(c) \/ Swap(c) \/ PutStamp(c) \/ PushDone(c) \/ JobFails(c)
           \/ \E f \in Files : Guard(c, f) \/ Refuse(c, f)
    PROVE  DataInv'
  <1> USE DataTypeFacts, ContentFacts
  <1>1. /\ pc[c] \in {"pulling", "pushing"} /\ pc[c] \in Working
        /\ UNCHANGED <<slipped, request, mirror, base, next, got, wrote>> /\ landed \subseteq landed'
    BY DEF Put, Swap, PutStamp, PushDone, JobFails, Guard, Refuse, Working, dataVars, historyVars
  <1>2. \A d \in Calls \ {c} : pc'[d] = pc[d]
    BY DEF Put, Swap, PutStamp, PushDone, JobFails, Guard, Refuse, End, TypeInv, TypeOK
  <1>3. Dated /\ InJob /\ Data(c) /\ Whereabouts(c)
    BY DEF DataInv
  <1>4. SUFFICES Dated' /\ InJob' /\ Data(c)' /\ Whereabouts(c)'
    BY <1>1, <1>2, WorkerStep
  <1>5. ASSUME UNCHANGED <<remote, pulled>>, Young(job'.snap)
        PROVE  Dated'
    BY <1>1, <1>3, <1>5 DEF Dated, Young
  <1>6. CASE JobFails(c) \/ \E f \in Files : Refuse(c, f)
    <2>1. pc'[c] = "failed" /\ job' = NoJob /\ UNCHANGED <<remote, pulled>>
      BY <1>6 DEF JobFails, Refuse, EndJob, End, dataVars, TypeInv, TypeOK
    <2>2. Dated' /\ InJob'
      BY <1>5, <2>1, RequestsAssumption DEF Young, NoJob, InJob
    <2> QED BY <2>1, <2>2 DEF Data, Whereabouts
  <1>7. CASE PushDone(c)
    <2>1. /\ pc[c] = "pushing" /\ pc'[c] \in {"removing", "done"} /\ todo[c] = {}
          /\ job' = NoJob /\ UNCHANGED <<remote, pulled>>
      BY <1>7 DEF PushDone, EndJob, End, dataVars, TypeInv, TypeOK
    <2>2. Dated' /\ InJob'
      BY <1>5, <2>1, RequestsAssumption DEF Young, NoJob, InJob
    <2>3. wrote[c] \subseteq landed
      BY <1>3, <2>1 DEF Whereabouts
    <2> QED BY <1>1, <2>1, <2>2, <2>3 DEF Data, Whereabouts
  <1>8. CASE \/ Put(c) \/ Swap(c) \/ PutStamp(c) \/ \E f \in Files : Guard(c, f)
    <2>1. pc[c] = "pushing" /\ UNCHANGED pc
      BY <1>8 DEF Put, Swap, PutStamp, Guard
    <2>2. \A f \in todo[c] : Made(f) \/ (job.phase = "swapped" /\ job.file = f)
      BY <1>3, <2>1 DEF Data
    <2>3. ASSUME \A f \in todo'[c] : Made(f)' \/ (job'.phase = "swapped" /\ job'.file = f)
          PROVE  Data(c)'
      BY <2>1, <2>3 DEF Data
    <2>4. ASSUME UNCHANGED todo
          PROVE  Whereabouts(c)'
      BY <1>1, <1>3, <2>1, <2>4 DEF Whereabouts
    <2>5. ASSUME NEW f \in Files, Guard(c, f)
          PROVE  Dated' /\ InJob' /\ Data(c)' /\ Whereabouts(c)'
      <3>0. PICK stamp \in RemoteStamp(f) :
               ~ Refused(f, stamp) /\ job' = [phase |-> "guarded", file |-> f, snap |-> None,
                                             blind |-> stamp = None /\ remote[f] # None]
        BY <2>5 DEF Guard
      <3>1. /\ UNCHANGED <<remote, pulled, todo>> /\ f \in todo[c] /\ job.phase = "none"
            /\ job'.phase = "guarded" /\ job'.file = f /\ job'.snap = None
        BY <2>5, <3>0 DEF Guard, At, dataVars
      <3>2. Made(f)
        BY <2>2, <3>1
      <3>3. ~ job'.blind => remote[f] \in {None} \cup slipped[f] \cup {base[mirror[f]]}
        BY <3>0, <3>2 DEF Made, Seen, Refused, RemoteStamp
      <3>4. InJob'
        BY <1>1, <3>1, <3>3 DEF InJob
      <3>5. Data(c)'
        BY <1>1, <2>2, <2>3, <3>1 DEF Made, Seen
      <3>6. Dated'
        BY <1>5, <3>1, RequestsAssumption DEF Young
      <3> QED BY <2>4, <3>1, <3>4, <3>5, <3>6
    <2>6. ASSUME At(c, "guarded") \/ At(c, "put") \/ At(c, "swapped")
          PROVE  job.file \in Files /\ job.file \in todo[c]
      BY <2>6 DEF At, Running, QueueInv, JobInv
    <2>7. CASE Put(c)
      <3>1. PICK f \in Files : f = job.file /\ f \in todo[c]
        BY <2>6, <2>7 DEF Put
      <3>2. /\ UNCHANGED <<remote, pulled, todo>> /\ job.phase = "guarded"
            /\ job'.phase = "put" /\ job'.file = f /\ job'.snap = mirror[f] /\ job'.blind = job.blind
        BY <2>7, <3>1 DEF Put, At, dataVars, TypeInv, TypeOK
      <3>3. Made(f)
        BY <2>2, <3>1, <3>2
      <3>4. InJob'
        BY <1>1, <1>3, <3>1, <3>2, <3>3 DEF InJob, Made
      <3>5. Data(c)'
        BY <1>1, <2>2, <2>3, <3>2 DEF Made, Seen
      <3>6. Dated'
        BY <1>1, <1>3, <1>5, <3>1, <3>2 DEF Dated, Young
      <3> QED BY <2>4, <3>2, <3>4, <3>5, <3>6
    <2>8. CASE Swap(c)
      <3>1. PICK f \in Files : f = job.file /\ f \in todo[c]
        BY <2>6, <2>8 DEF Swap
      <3>2. /\ UNCHANGED <<pulled, todo>> /\ job.phase = "put"
            /\ job'.phase = "swapped" /\ job'.file = f /\ job'.snap = job.snap
        BY <2>8, <3>1 DEF Swap, At, TypeInv, TypeOK
      <3>3. job.snap = mirror[f] /\ mirror[f] \in Versions
        BY <1>3, <3>1, <3>2 DEF InJob
      <3>4. remote'[f] = mirror[f] /\ mirror[f] \in landed' /\ \A g \in Files \ {f} : remote'[g] = remote[g]
        BY <2>8, <3>1, <3>3 DEF Swap, TypeInv, TypeOK
      <3>5. InJob'
        BY <1>1, <3>2, <3>3, <3>4 DEF InJob
      <3>6. Data(c)'
        BY <1>1, <2>2, <2>3, <3>2, <3>4 DEF Made, Seen
      <3>7. Dated'
        BY <1>1, <1>3, <3>1, <3>2, <3>3, <3>4 DEF Dated, Young
      <3> QED BY <2>4, <3>2, <3>5, <3>6, <3>7
    <2>9. CASE PutStamp(c)
      <3>1. PICK f \in Files : f = job.file /\ f \in todo[c]
        BY <2>6, <2>9 DEF PutStamp
      <3>2. /\ UNCHANGED remote /\ job.phase = "swapped" /\ job' = NoJob /\ todo'[c] = todo[c] \ {f}
            /\ \A g \in Files \ {f} : pulled'[g] = pulled[g]
            /\ pulled'[f] = pulled[f] \/ (remote[f] # None /\ pulled'[f] = Stamp(remote[f]))
        BY <2>9, <3>1 DEF PutStamp, Record, RemoteStamp, At, TypeInv, TypeOK
      <3>3. mirror[f] \in landed
        BY <1>3, <3>1, <3>2 DEF InJob
      <3>4. InJob'
        BY <3>2 DEF InJob, NoJob
      <3>5. Data(c)'
        BY <1>1, <2>2, <2>3, <3>1, <3>2 DEF Made, Seen
      <3>6. Whereabouts(c)'
        BY <1>1, <1>3, <2>1, <3>2, <3>3 DEF Whereabouts
      <3>7. \A v \in Versions : pulled'[f] = Stamp(v) => Young(v)
        BY <1>3, <3>1, <3>2, StampsApart DEF Dated
      <3>8. Dated'
        BY <1>1, <1>3, <3>1, <3>2, <3>7, RequestsAssumption DEF Dated, Young, NoJob
      <3> QED BY <3>4, <3>5, <3>6, <3>8
    <2> QED BY <1>8, <2>5, <2>7, <2>8, <2>9
  <1> QED BY <1>6, <1>7, <1>8

\* What is not a step of the tools leaves a call, and its data, as they are.
LEMMA CallKept ==
    ASSUME TypeInv, NEW d \in Calls, Data(d), Whereabouts(d),
           UNCHANGED <<remote, mirror, pulled, base, job, landed, slipped, got, wrote, existed>>,
           request'[d] = request[d], pc'[d] = pc[d], todo'[d] = todo[d]
    PROVE  Data(d)' /\ Whereabouts(d)'
  <1>1. \A f \in Files : \A text : Seen(f, text)' <=> Seen(f, text)
    BY DEF Seen
  <1> QED BY <1>1, DataTypeFacts DEF Data, Whereabouts, Readable, Made

\* A call, up to its pull.
LEMMA CallerData ==
    ASSUME TypeInv, DataInv, NEW c \in Calls,
           (\E r \in Requests : Start(c, r)) \/ Check(c) \/ Locked(c)
    PROVE  DataInv'
  <1>1. /\ UNCHANGED <<remote, next, mirror, pulled, base, job, landed, slipped, got, wrote, existed>>
        /\ pc[c] \in {"idle", "checking", "locking"}
    BY DEF Start, Check, Locked, historyVars
  <1>2. /\ \A d \in Calls \ {c} : request'[d] = request[d] /\ pc'[d] = pc[d] /\ todo'[d] = todo[d]
        /\ pc'[c] \in {"checking", "locking", "failed", "pulling"}
        /\ pc'[c] = "pulling" => Rewrites(request'[c]) \subseteq todo'[c]
    <2>1. ASSUME NEW r \in Requests, Register(c, r), request'[c] = r
          PROVE  Rewrites(r) \subseteq todo'[c] /\ pc'[c] = "pulling"
                 /\ \A d \in Calls \ {c} : pc'[d] = pc[d] /\ todo'[d] = todo[d]
      <3>1. Rewrites(r) \subseteq r.paths
        BY RequestFacts
      <3>2. r.paths \subseteq tracked'
        BY <2>1 DEF Register
      <3> QED BY <2>1, <3>1, <3>2 DEF Register, Submit, TypeInv, TypeOK
    <2>2. CASE \E r \in Requests : Start(c, r)
      <3>1. PICK r \in Requests : Start(c, r)
        BY <2>2
      <3>2. request'[c] = r /\ \A d \in Calls \ {c} : request'[d] = request[d]
        BY <3>1 DEF Start, TypeInv, TypeOK
      <3>3. CASE Register(c, r)
        BY <2>1, <3>2, <3>3 DEF Rewrites
      <3>4. CASE pc' = [pc EXCEPT ![c] = "checking"] /\ UNCHANGED todo
        BY <3>2, <3>4 DEF TypeInv, TypeOK
      <3> QED BY <3>1, <3>3, <3>4 DEF Start
    <2>3. ASSUME Register(c, request[c]), UNCHANGED request, request[c] \notin Requests
          PROVE  Rewrites(request[c]) \subseteq todo'[c] /\ pc'[c] = "pulling"
                 /\ \A d \in Calls \ {c} : pc'[d] = pc[d] /\ todo'[d] = todo[d]
      BY <2>3 DEF Register, Submit, TypeInv, TypeOK, Rewrites, NoRequest
    <2>4. CASE Locked(c)
      BY <2>1, <2>3, <2>4 DEF Locked
    <2>5. CASE Check(c)
      <3>1. CASE Register(c, request[c])
        BY <2>1, <2>3, <2>5, <3>1 DEF Check
      <3>2. CASE (\E v \in {"failed", "locking"} : pc' = [pc EXCEPT ![c] = v]) /\ UNCHANGED todo
        BY <2>5, <3>2 DEF Check, TypeInv, TypeOK
      <3> QED BY <2>5, <3>1, <3>2 DEF Check
    <2> QED BY <2>2, <2>4, <2>5
  <1>3. Dated' /\ InJob'
    BY <1>1 DEF DataInv, Dated, Young, InJob
  <1>4. \A d \in Calls \ {c} : Data(d)' /\ Whereabouts(d)'
    BY <1>1, <1>2, CallKept DEF DataInv
  <1>5. got[c].file = None /\ wrote[c] = {}
    BY <1>1 DEF DataInv, Data, Whereabouts
  <1>6. Data(c)' /\ Whereabouts(c)'
    BY <1>1, <1>2, <1>5 DEF Data, Whereabouts
  <1> QED BY <1>3, <1>4, <1>6 DEF DataInv

\* What others write has a stamp no pull has recorded; a file they take away stops nothing.
LEMMA OthersData ==
    ASSUME TypeInv, DataInv, ~ MovesBack, NEW f \in Files, OthersStep(f)
    PROVE  DataInv'
  <1> USE DataTypeFacts, ContentFacts
  <1>1. /\ UNCHANGED <<mirror, pulled, base, job, landed, got, wrote, existed, request, pc, todo>>
        /\ \A g \in Files \ {f} : remote'[g] = remote[g] /\ slipped'[g] = slipped[g]
    BY DEF OthersStep, OthersWrite, OthersMoveAway, OthersMoveBack, Place, callVars, historyVars, TypeInv, TypeOK
  <1>2. \/ remote'[f] = None /\ UNCHANGED <<next, slipped>>
        \/ /\ remote'[f] = next /\ next \in Versions /\ next' = next + 1
           /\ slipped'[f] = IF job.file = f THEN slipped[f] \cup {next} ELSE slipped[f]
    <2>1. CASE OthersWrite(f)
      BY <2>1 DEF OthersWrite, Place, Versions, TypeInv, TypeOK
    <2>2. CASE OthersMoveAway(f)
      BY <2>2 DEF OthersMoveAway, historyVars, TypeInv, TypeOK
    <2>3. CASE OthersMoveBack(f)
      BY <2>3 DEF OthersMoveBack
    <2> QED BY <2>1, <2>2, <2>3 DEF OthersStep
  <1>3. Dated /\ InJob
    BY DEF DataInv
  <1>4. Dated'
    BY <1>1, <1>2, <1>3 DEF Dated, Young
  <1>5. InJob'
    <2>1. job.phase # "none" => job.file \in Files
      BY DEF TypeInv, TypeOK
    <2>2. job.file = f => remote'[f] \in {None} \cup slipped'[f]
      BY <1>2
    <2> QED BY <1>1, <1>3, <2>1, <2>2 DEF InJob
  <1>6. ASSUME NEW g \in Files, NEW text, Seen(g, text)
        PROVE  Seen(g, text)'
    <2>1. next \in Versions => pulled[f] # Stamp(next)
      BY <1>3 DEF Dated, Young
    <2> QED BY <1>1, <1>2, <1>6, <2>1 DEF Seen
  <1>7. ASSUME NEW d \in Calls
        PROVE  Data(d)' /\ Whereabouts(d)'
    BY <1>1, <1>6 DEF DataInv, Data, Whereabouts, Readable, Made
  <1> QED BY <1>4, <1>5, <1>7 DEF DataInv

LEMMA DataStep ==
    ASSUME TypeInv, DistinctStamps, LockedApart, StampInv, QueueInv, DataInv, [Next]_vars
    PROVE  DataInv'
  <1>1. CASE Terminating \/ UNCHANGED vars
    <2>1. UNCHANGED vars
      BY <1>1 DEF Terminating
    <2>2. Dated' /\ InJob'
      BY <2>1 DEF DataInv, Dated, Young, InJob, vars, dataVars, callVars, historyVars
    <2>3. \A d \in Calls : Data(d)' /\ Whereabouts(d)'
      BY <2>1, CallKept DEF DataInv, vars, dataVars, callVars, historyVars
    <2> QED BY <2>2, <2>3 DEF DataInv
  <1>2. ASSUME NEW f \in Files, OthersStep(f)
        PROVE  DataInv'
    BY <1>2, OthersData DEF LockedApart
  <1>3. ASSUME NEW c \in Calls, Step(c) \/ \E r \in Requests : Start(c, r)
        PROVE  DataInv'
    BY <1>3, CallerData, PullData, ToolData, PushData DEF Step
  <1> QED BY <1>1, <1>2, <1>3 DEF Next

-----------------------------------------------------------------------------
(* The theorems about calls that the file locks keep apart. *)

EngineInv == TypeInv /\ StampInv /\ QueueInv /\ DataInv

LEMMA EngineInductive ==
    ASSUME DistinctStamps, LockedApart
    PROVE  Spec => []EngineInv
  <1>1. ASSUME Init
        PROVE  EngineInv
    <2>1. TypeInv
      BY <1>1, InitTypes
    <2>2. StampInv
      BY <1>1, ContentFacts DEF Init, StampInv, Vouched, InHand, NoJob
    <2>3. QueueInv
      BY <1>1 DEF Init, QueueInv, OnlyEdits, Live, Queued, Working, JobInv, NoJob
    <2>4. Dated
      <3>1. next = 2 /\ job.snap = None /\ \A f \in Files : /\ remote[f] \in {1, None}
                                                            /\ mirror[f] = None /\ pulled[f] = None
        BY <1>1 DEF Init, NoJob
      <3> QED BY <3>1, ContentFacts, VersionFacts DEF Dated, Young
    <2>5. InJob /\ \A c \in Calls : Data(c) /\ Whereabouts(c)
      BY <1>1 DEF Init, InJob, NoJob, Data, Whereabouts
    <2> QED BY <2>1, <2>2, <2>3, <2>4, <2>5 DEF EngineInv, DataInv
  <1>2. EngineInv /\ [Next]_vars => EngineInv'
    BY TypeStep, StampStep, QueuedStep, JobStep, DataStep DEF EngineInv, QueueInv
  <1> QED BY <1>1, <1>2, PTL DEF Spec

\* push: where its guard has the file's stamp, what a tool uploads it made from the content
\* that it replaces, so no update of a call or of others is lost, but for what slips in while
\* the job has the file in hand.
THEOREM NothingLost ==
    ASSUME DistinctStamps, LockedApart
    PROVE  Spec => NoLostUpdate
  <1>1. EngineInv /\ [Next]_vars =>
          [\A f \in Files : Swapping(f) /\ ~ job.blind /\ remote[f] \notin slipped[f] \cup {None, job.snap}
              => job.snap \in Versions /\ base[job.snap] = remote[f]]_vars
    BY DEF EngineInv, DataInv, InJob, Swapping
  <1> QED BY <1>1, EngineInductive, PTL DEF Spec, NoLostUpdate

\* A tool answers ok only after its push: the remote has had every version it made.
THEOREM DoneMeansWritten ==
    ASSUME DistinctStamps, LockedApart
    PROVE  Spec => []SuccessMeansWritten
  <1>1. EngineInv => SuccessMeansWritten
    BY DEF EngineInv, DataInv, Whereabouts, SuccessMeansWritten
  <1> QED BY <1>1, EngineInductive, PTL

=============================================================================
