# mcp-remote-code in TLA+

mcp-remote-code is an MCP server that gives a coding agent the files and the
shell of remote machines over SSH. This directory models the parts of it that
wait, retry, overlap and fail: TLC checks them on small instances, and TLAPS
proves the most important results for instances of any size. Paths such as
`ssh-connection.ts` are under `src/src/`.

Contents: [the system](#the-system), [the plan](#the-plan),
[modules and code](#modules-and-code), [runs](#runs), [fairness](#fairness),
[proofs](#proofs), [deviations](#deviations),
[what is not modelled](#what-is-not-modelled).

## The system

One Node process holds one connection per target. An MCP client calls the tools;
the handlers are asynchronous functions that share everything below, and nothing
keeps a client from sending a second call before the first is answered.

| component | state | operations | what makes it correct |
|---|---|---|---|
| SSH connection (`ssh-connection.ts`, parts of `ssh-pool.ts`) | the ssh2 client, the reconnect under way, slots in use and their waiters, the shared SFTP session and its queue | `exec`, `execStream`, `withSftp`, `close`; the events of transport, channel and session; timers | the slot count is right whatever fails; one reconnect at a time; no transport or channel left over; a command is not run twice; every call is answered |
| Sync engine (`sync-engine.ts`, `manifest.ts`) | the mutex, the local mirror, the files it tracks and the stamp of each | `pull`, `pullAll`, `push` | a stamp vouches for the mirror's contents; a push never overwrites what was not seen |
| Atomic upload (`sftpFastPut` in `sync-engine.ts`) | the target, the temporary and the backup on the server | open, put, two renames, restore, unlink | the contents survive under some name at every instant |
| File tools (`tools/remote-write`, `-edit`, `-read`, `-patch`) | `fileLocks` of remote_edit; what a call has read; the sections of a patch still to do | existence check, pull, rewriting the mirror, push; rm of what a patch deletes or moves | no lost update; success means written; a patch that fails half-way loses no contents |
| Replacers of remote_edit (`tools/remote-edit.ts`, `bom.ts`) | the replacer tried, the text replaced so far | nine ways to find oldString; line endings and byte order mark | what is there is replaced there, once; else what has its words; the file keeps its format |
| Patch algorithms (`tools/remote-patch.ts`) | what is parsed, found, spliced | the unified and the native format | the patch of a file gives the file it was made for |
| Confirmation gate (`confirmation.ts`, `elicitation.ts`, three handlers) | `pendingConfirmations` | the first call, the second with `force`, the user's answer | one run per preflight, in time; where the user is asked, the user decides |
| Connection manager (`connection-manager.ts`, `tool-utils.ts`, `index.ts`) | connections, failed targets, retries under way | startup, `requireConnection`, lazy retry, shutdown | one attempt at a time; no pool lost; cooldown kept |
| Transfers (`bulk-transfer.ts`, `tools/remote-pull.ts`, `tools/remote-push.ts`) | channel, local tar, listing, files left to copy | count, confirm, list, tar stream, teardown, copy by file; scan, mkdir, upload by file | success means every file, whole; large ones announced; nothing left running |
| Root jail (`root-jail.ts`, `tool-utils.ts`) | one probe per connection | resolve a path over SFTP or by the shell, check it | exactly the paths that lead into the root are let pass, whoever answers |
| Host keys (`known-hosts.ts`), local target (`local-pool.ts`), `config.ts`, `path-mapper.ts`, search and stat tools, text helpers | hardly any | | see [what is not modelled](#what-is-not-modelled) |

How they interact. A tool asks the manager for a connection, which may first
retry an offline target. The tool then submits jobs to the engine; a job
takes the SFTP session of the connection (`withSftp`) and makes its requests.
Commands take a slot and a channel of the same transport. The gate is one
map for the whole process. The tools read and write the mirror themselves,
outside the engine's mutex.

What is hard to test. Reactions of promises interleave with events of the socket;
a transport dies under calls that queue, open or run; timers fire before the
answer they wait for; others use the same remote files; the process dies
between two renames. PROJECT.json lists these hazards at their lines, and the
properties that watch each.

## The plan

Written, in this order, the most shared and most intricate first:

1. `SshConnection` over `ChannelSemaphore` (what the slots promise).
2. `SyncEngine` with the file tools, over the connection's promise that jobs
   fail or succeed as a whole.
3. `RemoteUpload` over `AtomicReplace`, the step `SyncEngine` takes as `Swap`.
4. `Confirmation`, `ConnectionManager`.
5. `UnifiedPatch`, `NativePatch`, `DirectoryPull`.
6. Proofs of the slots and sessions of 1, of 3 and of 4's gate.
7. `EditText`, `PatchFiles`, `RemotePush`, `RootJail`.
8. Proofs of the commands and transports of 1 and of 4's manager.
9. Proofs of 1's shared session, of 2 and of the transfers of 5 and 7.
10. `Patches`, which puts 7's files and 5's native format side by side, and its proofs; those
    of a push beside a pull.

Left for later, in this order:

1. *Models.* `BoundedBuffer` and the environment limits of `ssh-pool.ts`; what
   remote_read cuts. A module that composes the connection with the engine, so
   that a job's failure is the connection's and not a choice.
2. *Proofs.* That a patch gives the file it was made for (`NativeYieldsNew`,
   `UnifiedYieldsNew`) and what the replacers promise: long inductions over data, each over
   a script of lines.

## Modules and code

Every module but the `MC` ones and the `Proofs` ones translates code; the `map` of
PROJECT.json gives the lines of each definition. `MC` modules hold the
constants of the runs, `Proofs` modules the theorems. Definitions under the
comment "Mutant" are plausible bugs: each property is checked to notice one.

**SshConnection.** A caller makes one call. `pc` is the `await` it stands at. Node
runs all promise reactions before it delivers the next event, so an event
of the socket, the server or a timer needs `Quiet` (no reaction pending) except
that new calls and `close()` come at any time. `Acquire`, `Release` and
`FailWaiters` are acquireChannel, releaseChannel and failWaiters; `EnsureClient`,
`Connected` and `ConnectFailed` the shared reconnect; `TransportDies`,
`TransportEnd` and `TransportClose` what happens to a transport, with `OnGone` the
listener of `adopt`; `StartExec` to `Timeout` one attempt on a channel;
`CatchFinal`, `CatchRefused`, `CatchLost` and `Retry` the loop of
execWithRetry; `RunSftp` to `SessionCloses` the SFTP queue. `asked` counts how often a
command was asked of the server (`CommandAsked`), which is as often as it may run: when the
server starts it is the server's affair, and may be after the client is ended. The client asks
for nothing on a transport that is `"ending"` or `"closing"`; what the server sent before it saw
the end still arrives on an `"ending"` one (`Readable`). Errors are
`"refused"` (the channel was), `"lost"` (reads as a connection error) and
`"other"`: what isConnectionError and the retry rules tell apart. Output is
left out; the exit code is kept. The instance `Slots` maps the calls
at a `pc` in `HoldingAt` to the holders of `ChannelSemaphore`.

**SyncEngine.** A content is a version number that one write made; `base` is the
content its writer had seen. `Start`, `Check` and `Locked` are a handler up to its
pull, `GetStart` to `PullDone` the pull, `Read`, `Rewrite`, `Reject` and
`Answer` the handler's work on the mirror, `Guard` to `PushDone` the push, `Remove`
and `Forget` the deletions of a patch. `mutex` is the promise chain of withLock,
`locks` the `fileLocks` of remote_edit. `OthersStep` is whoever else uses the
remote's files. `Overlapping` says which tools' calls may overlap with each other;
`Windows` in which phases of a job others may touch its file, by a replacement: what a
copy reads of a file that is overwritten in place is not modelled. `slipped` is, of each
file, what others put in its place while a job had it in hand: what the code cannot see.
remoteStamp answers undefined for a missing file and for a stat that is refused, for whatever
reason: `RemoteStamp` is the set of what it may answer, `StatFails` the files whose stat may be
refused. `job.blind` says that a push passed its guard so, though there is a file.

**RemoteUpload.** sftpFastPut, one action per request of the server. A request is
carried out, refused, or lost with the session, before or after it took effect;
the process may die between two. Uploads follow each other.
`AtomicReplace` is what an upload promises: the contents change in one step, at
most once, and a success is only reported after it.

**Confirmation.** `TransferCall` is the guarded part of remote_pull and
remote_push, `BashCall`, `BashAsks` and `Answer` that of remote_bash with and
without the prompt. An operation is what its confirmation key tells apart.

**ConnectionManager.** `Dialed`, `Wipe`, `Connected` and `DialFails` are an attempt,
by `Main` (startup) or by the call that retries; `Use` to `Retry` the outcomes of
requireConnection; `Shutdown` to `ExitRefused` the shutdown by an error or by a
signal. `Tick` is the clock of the cooldown.

**UnifiedPatch, NativePatch.** The two formats on one file, from the lines of the
patch to the lines of the file. A line of a patch is its tag, which is what the
parsers look at, and a text; a text of a native patch is a word with the ways it may be
written that the four passes of seekSequence forgive. Carriage returns are taken out of the patch
before it is parsed (`Line`, with `Plain`) and stay in the file. `PatchScripts` makes the inputs:
a script of kept, removed and added lines, and a mask of the lines shown; this is
how the tools that write diffs make them.

**EditText.** remote_edit from `Prepare` (the strings get the file's line endings)
to `Write`. `Take` is one round of the double loop of replaceContent: replacer `r`
yields its candidates in order and the first that is usable is taken; `Replace` is
one round of replaceAll. The nine replacers are operators named as in the code. A text
is a sequence of characters, of which there are as many as the replacers tell
apart; the similarity of lines is compared as the code does, in whole numbers. `EditInputs`
makes the texts.

**PatchFiles.** One remote_patch call over its files: `Pull` to `Move` are the
stages of the handler, one request or file per step, `Order` their order, `Fail` the end
of a call at any of them. The contents of a file are its history, one mark for each section
and each edit by others that made them, no two marks the same. `After` says what sections mean
one after another, `Meant` what all of them do. What a section does to a text is in the two
patch modules. A stat may fail at each of its three places, unseen as in the engine.

**DirectoryPull.** `Call` to `List`, `Judge` and the copying are the handler and
pullDirectory, `HasTar` to `TornDown` the stream and its teardown; the remote tar, the channel, the local tar and others who add or
remove files take steps of their own. A file is as it was, in part, or whole.

**RemotePush.** `Call` and `Stat` are the handler, `Scan` to `Put` pushDirectory, `ScanFile`
and the same steps pushFile. The remote side is a small tree in which directories may be
missing, be files, or be changed by others at any moment.

**RootJail.** A path, its root and a file system of directories, files and links
go through resolveUnderRoot; `Walk` follows links as a server does. Which of SFTP and
shell answers is a choice at each step where both may: the shell is asked when SFTP is not to
be trusted or gives no session. A request that fails within a session, and a command whose output is
lost, read as a missing path (`Answers`); `unseen` remembers that something was there. `JailInputs` makes the servers.

**MCAlgorithms, Patches, MCTransfers.** Modules without interaction are checked side by
side: `subject` says which one a behaviour is of, the variables of the others stay as
they are, and a property of the run is that of its module where it is the subject.
Patches extends `PatchFiles`, whose properties it checks by their own names, and
instantiates `NativePatch` as `Native`. MCTransfers extends `DirectoryPull`, whose properties it checks by their own names, and
instantiates `RemotePush`, whose two are in `PushKept`.

## Runs

`expect` is pass for all but the last. The type invariants of the proved state machines
are checked or only proved; those of the other modules say what the variables hold.

| run | module | asks | bounds |
|---|---|---|---|
| `ssh_commands` | MCSshConnection | slots, transports, channels, retries; the slots are a fair semaphore; nothing is asked of the server after close() | 2 execs (one with retry) and a stream, 1 slot, 2 transports, 2 connection and 2 channel attempts |
| `ssh_liveness` | MCSshConnection | every exec is answered though the server may never answer | 2 execs, 1 slot, 2 transports, 3 connection attempts |
| `ssh_answered` | MCSshConnection | the session is the current transport's, or that of one whose end is under way, SFTP calls run one by one, all calls are answered when a live server answers | a stream, 2 SFTP calls, 2 transports |
| `sync_calls` | MCSyncEngine | no lost update, success means written, every call ends | 2 calls of write, edit or a patch of both of 2 files, one edit by others, also between a guard and its rename, 5 versions; stats of one of the files may be refused; the calls start in a fixed order (`InOrder`) |
| `sync_parallel` | MCSyncEngine | stamps vouch for the mirror, no blind overwrite, all tools overlapping | 2 calls on a file, one edit by others and moves away and back at any moment, 4 versions; any stat may be refused |
| `upload` | RemoteUpload | the contents survive, implements `AtomicReplace` | 3 uploads |
| `confirmation` | Confirmation | one run per preflight, in time, the user decides | 3 calls, 2 targets, a command and a transfer, TTL 2, clock to 4 |
| `manager` | MCConnectionManager | one attempt and no stray pool, no dead retry, cooldown, joiners are answered | 2 targets, 3 calls, cooldown 1, clock to 3 |
| `algorithms` | MCAlgorithms | the diff of a file gives the new file, is never refused where it has no carriage return, follows drift | scripts of up to 4 lines over 2 texts, of 3 with drift, of 3 without a last newline, of 3 in files with carriage returns; window 2 |
| | | an oldString that is there is replaced there and nowhere else; one that is not, by its words; endings and byte order mark stay | texts of up to 4 characters and oldStrings of up to 3, of 3 lines in both endings, blocks of 3 to 5 lines (and two of 7), escapes |
| | | the jail lets pass exactly what leads into the root | 11 kinds of entry at one name and 4 at another, 4 links deep, SFTP with and without an offset, about 50 paths, any request may fail |
| `patches` | MCPatches | success means what the sections mean; what is removed goes last | 3 files, 2 sections in one call or two, one edit by others, a failure anywhere, any stat may fail unseen |
| | | the native patch gives the new file, its splices do not disturb each other | scripts of 4 distinct lines in any spacing, of 3 repeated or empty ones |
| `transfers` | MCTransfers | pull: success means whole and no part left, announced when large, no channel held; push: success means put, announced when large; each ends | pull: 3 files, 2 calls, threshold 2, warning above 1. Push: 2 files in 2 nested directories, 2 calls, 2 edits by the user or others, warning above 1 |
| `sync_lost_edit` | MCSyncEngine | (violation) a success that was never uploaded | 2 edits of 2 files that overlap |

Why the bounds are enough. One slot already has a holder, a waiter and a
caller that comes between the release and the wake-up of the waiter; two transports have
the dropped one and its successor. The code makes three attempts of channels and of connections;
`ssh_liveness` makes as many connections, `ssh_commands` two of each: with three its
6.8 million states are over five minutes, and two already have a first attempt, a
repetition and a limit. What the proofs say of them is for any number. In the engine, two calls and others are the
three writers a lost update needs; 5 versions let a patch of two files, an edit
and one by others happen, and truncate a second patch of both files with edits
besides: there the second rewriting is left to `Reject`. In `sync_calls` one file's stat is always
answered, which leaves the other file to go wrong beside it; the two calls have the same choices, so that
which starts first does not matter. Three uploads have a failed one before
and a good one after another. TTL and cooldown are passed within the clock's
bound. The search window of unified diffs is 2 for the code's 20; drift goes up to it.
Three files make a tar worth while (2) and large (more than 1), with one
left to be missing; a push needs a file below a directory below another for what fails
above to matter below. A patch that loses contents needs a source, a destination and
one of others: three files and two sections. Every rule by which the replacers differ
(indentation, inner white, blocks of three lines, escapes, endings) has texts of its own.

What the passing runs leave out on purpose, since the code does not keep it there
(see Deviations): what others put in a file's place while a job has the file in hand
(`slipped`, until a pull takes it) is left out of the promises of the engine, not out
of the runs; so is a push whose guard could not stat the file (`job.blind`; in `PatchApplied` a file that
such a push wrote over leaves `touched`), a path that the jail could not see (`unseen`, for which
`JailJudges` promises less) and a diff that shows a carriage return (`NoCarriageReturn`); in `sync_calls` only edits overlap, nothing is moved back
(`MovesBack = FALSE`) and no call reads (a read writes nothing; `sync_parallel` has them); `AddsMeanwhile = FALSE`; no `"list cut"`; `RmFails = FALSE`, and patches that use
a path an earlier section removes (`Straight` in the properties); roots that are links and, in
`JailJudges`, links whose target's directory is missing (`Leads`); hunks without an
old line; a native patch whose first chunk lacks its `@@` (`Bare = FALSE`), or whose file ends
with an empty line (`NoBlankEnd`); targets that share a mirror.
Lines that read as headers and streams that are misread do occur in the runs:
`NoHeaderInside` and `~ Misread` in the properties say that nothing is promised there.

`transfers` and `patches` run with CHECK_DEADLOCK FALSE: after the last call of
their bounds nothing need happen. Elsewhere `Terminating` is the only step of a finished system,
so that a deadlock is a call that waits for ever.

## Fairness

Spec alone is used for safety. For liveness:

* `SshConnection.LocalFairness`: promise reactions run, and the code's own timers
  fire (`readyTimeout` of a connect, the delay of a retry, the timeout of exec). The
  server and the socket need never do anything.
* `ServerFairness`, only for streams and sessions, which have no timer of their own: a
  live server answers a request, and keepalive (`keepaliveInterval`,
  `keepaliveCountMax`) ends a dead transport.
* `SyncEngine`: a job ends, well or not, as its session does; the handler goes on. Not:
  others, new calls.
* `ConnectionManager`: an attempt ends, by the timeout of its dial and of its probes; closing
  a pool and saving a manifest end.
* `MCTransfers`: the steps of the transfer itself, of which there is always one: local steps, the five seconds of abandonTransfer, and
  SFTP requests and commands, which end as above. The server's answer to the close of
  a stream is not fair.

## Proofs

For all values of the constants that satisfy the modules' assumptions:

* `SshConnectionProofs`. The inductive invariant is `TypeOK /\ SftpSerialised /\
  SlotInv`. The counter alone is not inductive: that a release hands a slot to
  a caller that does wait needs `WaitersAreQueued` (the queue is exactly the calls
  whose `pc` is at that await, each once), and that the counter stays in its range needs
  `NoIdleSlotWhileQueued`. Every action does one of four things to the slots: nothing, an
  acquire, a release, or failing the queue. A lemma for each shows that `SlotInv` is kept and
  that the step is one of `ChannelSemaphore`, so the refinement comes with
  the invariant. Theorems: `TypeCorrect`, `SftpInOrder`, `SlotsAccounted`,
  `NoSlotWasted`, `ImplementsSemaphore`. Assumed: finitely many callers, at least one
  transport, `MaxChannels` from 1 to 32 as the code reads it.
  The commands are proved on top of that invariant. `Attempt` says of every call that an
  attempt runs its command once at most, that all but the first were paid for by a lost
  connection, and that an error which leads to another attempt has left no channel behind:
  `BoundedExecution` is not inductive without, since the command of a channel still `"opening"` may yet
  be asked (`MayRun` counts that in advance). `Owned` adds to
  `NoStrandedTransport` that a closed connection has no client; `AskedOn` that a channel
  is only asked for on a transport. That the session a call stores is one of the client needs
  `SessionCore` (only a call that has stored its session is shared) and `Opened`: a session opens
  when every reaction is done, and until it is stored either no other reaction can drop the client,
  since no call has a failure left to catch, or its transport was dropped before and only an event
  ends it.
  Theorems: `RunsBounded`, `ChannelsOwned`, `TransportsOwned`, `ClosedForGood`,
  `SessionOwned`. `ClosedForGood` is of what the client does, that no command is asked of the
  server once close() has returned; one asked before may start then. `ExecThrows` may be either: the slot that execStream
  can lose (Deviations) breaks none of these.
* `ConnectionManagerProofs`. `OneAttempt` needs to know why a call may begin an attempt at
  all: a target that counts as failed is either not being dialed or has its retry's entry
  (`Tracked`), which is false of startup, when nothing has failed yet (`StartupAlone`);
  that no pool is left over needs `NoPoolYet`, and the cooldown `Dated`: a failure is
  recorded when its attempt has ended, not before. Theorems: `ManagerTypeCorrect`,
  `AttemptsAlone`, `EntryIsLive`, `CooldownHolds`. Assumed: a cooldown of at least 1, as
  the code's constant is.
* `RemoteUploadProofs`. `Whereabouts` says where the last contents are at each request
  (in place, moved aside, or in the backup of an earlier upload that could not
  restore it), `Older` that later uploads have new contents. `CurrentSurvives` is
  not inductive without: a rename that replaces a file is harmless only because the
  target is then known to be moved aside or done with. Theorems:
  `UploadTypeCorrect`, `ContentsSurvive`, `SuccessReplaces`, `ImplementsReplace`.
* `ConfirmationProofs`. `Unspent` (an entry that is there has not been
  spent) and `EntryDated` (its expiry is that of its preflight). Theorems:
  `GateTypeCorrect`, `RunsOnce`, `RunsInTime`, `UserDecides`.

* `SyncEngineProofs`. Two invariants. `StampInv`, under every interleaving: a stamp vouches
  for contents the mirror has held or that slipped in, and the file a job has in hand
  is as the job has seen it, is missing, or has slipped in, unless the guard was blind (`InHand`). It gives
  `StampsVouch` and `GuardHolds`. `EngineInv` follows the contents through a call: only one
  call works at a time, since calls that overlap are edits of one file, of which one heads its queue
  (`OnlyEdits`, `Queued`); what a tool has read is what the remote has whenever the guard would
  let the push pass (`Seen`, through `Readable`, `Made` and `InJob`); no stamp is that of a version
  yet to be made (`Dated`); and every version a call wrote is in the mirror,
  still to be pushed, or has landed (`Whereabouts`). It gives `NothingLost` and
  `DoneMeansWritten`. `StatFails` is any set of files in all of them: a stamp that is not recorded
  leaves an older one, which stops a push that it need not stop, or vouches for no less. Hypotheses, beyond the module's assumptions: all four take
  `DistinctStamps`, that mtime and size tell contents apart; the last two `LockedApart`, that
  calls overlap only as edits of one file, which the file locks order, and that nothing
  is moved back. SyncParallel.cfg satisfies the first and SyncCalls.cfg both. The run
  `sync_lost_edit` and the row of `MovesBack` under Deviations show that `LockedApart`
  is needed. `EngineTypeCorrect` takes none.
* `TransfersProofs`. `ChannelInv` (the channel is open just while the archive is piped)
  is inductive with the types. For success, `ListedInv` (nothing is sent or fetched that was
  not listed) and `FetchedInv` (at the end of the stream, what the two exit codes say of
  the files; one by one, what is no more left has been fetched). Theorems: `PullTypeCorrect`,
  `NoChannelHeld`, `DoneMeansFetched`, `PullShown`. The last two take `WholeListing`: find
  prints all, and nobody adds a file during the call; three rows of Deviations show what
  happens else. `PullConstants` says what the constants are. A behaviour of the run is one of
  the pull's specification (`EitherPulls`), or one of the push's from its first state on
  (`SamePush`, `EitherPushes`): with the theorems of `RemotePushProofs` this gives
  `PushKeepsItsWord`, which takes that nobody adds a file.
* `RemotePushProofs`. `NewerInv` (contents only get newer), `PutInv` (a listed file that is no
  more left was put, and stays but for others). Theorems: `PushTypeCorrect`, of which a
  part is that the directories still to make are of the list; `DoneMeansPushed`, without any
  hypothesis but `PushConstants`; `PushShown`, for a directory to which nobody adds (see
  Deviations). TLC checks `PullConstants` and `PushConstants` for the
  constants of `transfers`.
* `PatchesProofs`, of the files of a patch. What sections mean (`After`) is a recursive function;
  the library's induction theorems cannot be used here, so each induction is made from the
  least number that fails (`LeastNumber`, `UpTo`), and `AfterFacts` unfolds the function.
  Success needs to know, at each stage, what every file holds by then: `MirrorInv`, that the
  mirror is what the sections applied so far mean, but for what they remove; `StandingInv`, that the
  remote is as the patch found or left it, with the edits of others on top; `PushedInv`, that
  after the push whatever is not removed is as it is meant. That a guard which has
  the file's stamp stops what others edited rests on `StandingInv` (an edited file never has the stamp
  that is recorded) and `AgedInv` (nothing has the mark of an edit still to come); what a blind one
  writes over leaves `touched`. `PulledInv` says that the mirror has what was pulled. `TodoInv` keeps the work
  within its stage. `RemovesLast` follows from these at every stage, and `FailedInv` keeps it
  where a call has failed. Both promises are of `Straight` patches. Theorems: `PatchTypeCorrect`, `PatchLosesNothing`, both for any paths,
  kinds of sections and number of sections and edits; `SuccessMeansPatched`, which takes
  `~ RmFails`: a row of Deviations shows that it must.
* `PatchesProofs`, of native patches. While the chunks are looked for, every replacement
  found lies before the next search and in order, and what is only inserted goes to
  the end (`FoundInv`); the sort keeps them all, so that they lie one behind the other (`Apart`,
  `ApartInv`). The splices go from the last to the first: what is before those still to come is as it
  was, what is behind is as in the new file (`SplicedInv`, with `FlattenFacts` and the induction
  above for the FlattenSeq that puts the pieces together). Theorem: `NativeSplicesInPlace`, for
  any words, files and sections, well-formed or not. It takes `NoBlankEnd`, that no
  file ends with an empty line, since the code inserts before that line: a row of Deviations shows
  an inserted line that is lost so. `NativeInputs` makes no such file.

Only model-checked: every liveness property (the prover does no fairness). That unified and native
patches give the file they were made for, and what the replacers keep or find: these are
claims about every script of lines or every text, whose inductions, done by hand through the least
number, would be far longer than the modules. The jail, whose `Walk` follows links by a RECURSIVE
operator, which is out of the prover's reach.

## Deviations

Where the code does not do what it says. Each was found by TLC as the violation of a
property of these modules. `sync_lost_edit` is kept as a run; for the others, take
the .cfg of the run, set what the third column says, there or where MCAlgorithms or
MCPatches instantiates the module, and check that property alone; one of a module that is
instantiated is named as `Jail!AnswersAgree` is, under its `subject`. Properties that
only these runs check are at the end of their modules.

| what is said | what happens | to see it |
|---|---|---|
| `tools/remote-edit.ts:471` "Edit applied successfully." | remote_edit writes the mirror (`:464`) outside the engine's lock. A pullAll of another call, queued before its push, fetches the remote's contents over the edit; the push uploads those. The file locks are per file, pullAll is not. | run `sync_lost_edit` |
| `ssh-connection.ts:284` "One release per acquire, whichever way this ends" | execStream calls `c.exec` inside a Promise executor (`:300`). When it throws, since the socket is gone, the promise rejects without releaseOnce: the slot is lost, and after as many such calls as slots every command waits for ever. | SshCommands.cfg: `Execs = {}`, `SettledHoldsNoSlot` |
| `ssh-connection.ts:276` "The transport is gone; drop it so the next call reconnects." | dropTransport ends whatever the client is by then. Of two commands on a lost transport the first reconnects; the late error of the second ends the new transport and the commands on it. | SshCommands.cfg: `MaxChannels = 2`, `Retryable = {}`, `Streams = {}`, no SYMMETRY, `DropsOnlyGoneTransports` |
| `ssh-connection.ts:358` "One long-lived SFTP session per connection" | The listeners of every session clear `sharedSftp` (`:112`), also when it holds a newer one; the next call opens a second session beside it. | SshAnswered.cfg: `Sftps = {f1, f2, f3}`, `Streams = {}`, `OneSftpSession` |
| `ssh-connection.ts:223` "Drop the current transport. Both halves must go at once (review F-40)" | A session that is being opened when its transport is dropped is no half yet. The reply that the server had sent still arrives, getSftp stores the session (`:114`), and withSftp uses it on the ended transport until its close event. | SshAnswered.cfg: `Execs = {e1, e2}`, `Streams = {}`, `MaxChannels = 2`, `DropsBothHalves` |
| `ssh-pool.ts:16` "Re-run the command once if the connection drops mid-flight." | execWithRetry makes three attempts (`ssh-connection.ts:411`, `:462`): the command may be re-run twice. | SshCommands.cfg: `Execs = {e2}`, `Streams = {}`, `Transports = {t1, t2, t3}`, `MaxConnectionAttempts = 3`, `ReRunOnce` |
| `ssh-connection.ts:423` "A transport that dies mid-command means the command may have run, partly or fully." | ssh2 closes the channels of a lost transport without an exit code, which exitCodeFrom (`ssh-pool.ts:181`) reads as 0: the command is answered as a success. | SshCommands.cfg: `SuccessMeansFinished` |
| `sync-engine.ts:101` "Remember what the remote looked like when we took this copy." | The copy comes first and the stat after it: an edit of others in between is stamped as seen, and the next push overwrites it. | SyncParallel.cfg: `StampMeansSeen` without its `slipped` |
| `sync-engine.ts:60` "before each upload the remote is stat'ed ... the push is refused with an error rather than overwriting" | The guard's stat (`:118`) is followed by mkdir, the upload of a temporary and two renames; an edit of others meanwhile is overwritten. | SyncParallel.cfg: `NoBlindOverwrite` without its `slipped` |
| `sync-engine.ts:60` "A mismatch means the remote changed underneath us; the push is refused with an error rather than overwriting. A remote file that exists but was never pulled is refused for the same reason." | remoteStamp (`:151`) answers undefined when the stat fails, for whatever reason, as it does for a missing file, and the guard (`:120`, `:126`) passes: contents that changed or were never pulled are overwritten, and the call answers success. | SyncParallel.cfg: `RefusesUnseen` |
| the same, of a patch | The push of remote_patch has the same guard: an edit of others since its pull is overwritten. | Patches.cfg, no SYMMETRY: `PROPERTY EditsNotOverwritten` |
| the same, "compared with the stamp recorded at the last pull" | A pull that finds no remote file (`:109`) keeps the stamp of an earlier pull. When the file comes back as it was, the guard passes, and contents that the tool took for missing are replaced. | SyncCalls.cfg: `MovesBack = TRUE`, `NoLostUpdate` |
| `tools/remote-read.ts:63` "Read the contents of a file" | The mirror is read (`:170`) after the engine's lock is gone; another call's fastGet may just have truncated it. | SyncParallel.cfg: `ReadsWholeFiles` |
| `sync-engine.ts:227` "Put the original back before surfacing the failure." | A rename that was made and whose reply was lost counts as not made (`:222`): the original is neither restored nor named. | RemoteUpload.cfg: `FailureRestores` |
| `src/README.md:237` "Two-step confirmation (`force: true` on second call within 10 minutes)." | The keys (`tools/remote-bash.ts:58` and in remote_pull, remote_push) leave out the target: a first call on one target is the first step for every other. | ConfirmationGate.cfg: `TwoStepsPerTarget` |
| `src/README.md:93` "It is deleted and rebuilt whenever a target reconnects" | The mirror's path is made of user, host and root, not of port or name: targets that differ in those share it, and one that reconnects (`connection-manager.ts:125`) deletes what the other is using. | ManagerCalls.cfg: `MirrorOf <- OneMirror`, `StagedStays` |
| `index.ts:202` "[SHUTDOWN] Closing connections..." | close() (`connection-manager.ts:310`) goes through the connections; the transport that a retry under way has opened is left. | ManagerCalls.cfg: `ShutdownClosesAll` |
| `docs/CODE-REVIEW-2026-09-07.md:75` "go through the same shutdown path, which is now idempotent and takes an exit code" | A signal's listener is called with the signal's name, which becomes the exit code (`index.ts:207`); process.exit of Node 20 and later, which package.json asks for, throws on it. The handler of the rejection calls shutdown, which returns at once, and the server lives on. | ManagerCalls.cfg: `ShutdownEnds` |
| `tools/remote-patch.ts:524` "Supports both unified diff format and OpenCode native patch format." | A hunk `@@ -N,0` inserts behind line N; findHunkPosition (`:489`) inserts before it. A file made by `@@ -0,0` is never found. | Algorithms.cfg: `Insertions <- TRUE`, `UnifiedYieldsNew` |
| the same | A removed line that begins with "-- " is "--- " in the diff and is taken for a header (`:384`). | Algorithms.cfg: `UnifiedYieldsNew` without its `NoHeaderInside` |
| the same | The handler takes the carriage returns out of the patch (`:541`), not out of the file, and tryMatchUnified compares the lines as they are: a diff of an unchanged CRLF file is refused, or applied to an LF line nearby; lines it adds have no carriage return. | Algorithms.cfg: `Unified!CrlfYieldsNew` |
| the same | A native patch matches by trimEnd, and the lines that it shows or adds lose their carriage return in a CRLF file. | Patches.cfg, no SYMMETRY: `Native!EndingsKept` |
| `tools/remote-patch.ts:434` looks for "\ No newline at end of file" | The parser (`:421`) keeps only lines that begin with a space, + or -, so the marker is gone by then. | Algorithms.cfg: `Unified!NewlineKept` |
| `tools/remote-patch.ts:648` "a patch that changes nothing is a parse failure, not a success" | Lines of a section before its first `@@` are skipped (`:100`), and the patch is a success without them. | Patches.cfg: `Bare <- TRUE`, `Native!NothingSkipped` |
| `tools/remote-patch.ts:75` looks for "*** End of File" | The loop that looks ends at each line that begins with "***": the mark has no effect. | Patches.cfg: `Native!AtEndOfFile` |
| `tools/remote-patch.ts:524` "Apply a patch to files on the remote machine" | An insertion at the end goes before a last empty line (`:238`), also when another chunk replaces that line: the inserted line is then lost. | Patches.cfg: in `RepeatedInputs`, scripts of 4 lines over `{Word(1), Blank}` and texts that end with `Blank`; `SplicedInPlace` |
| `tools/remote-pull.ts:212` "Falls back to per-file SFTP on any failure" | A local tar that a signal ended has the code null, read as 0 (`bulk-transfer.ts:92`). A lost transport ends the stream like an end of file with exit code 0 (`:105`); cut between two members, the archive looks whole. | Transfers.cfg: `NeverMisread` |
| `tools/remote-pull.ts:116` "Pulled remote ... successfully." | find's exit code is not looked at (`:244`): what it printed before it failed is taken for the directory. | Transfers.cfg: `Faults = {"list cut"}`, `SuccessMeansWhole` |
| `tools/remote-pull.ts:38` "Large transfers return a size warning first" | The warning is of the count of statRemotePath; the directory is then listed afresh (`:113`) and may have grown. | Transfers.cfg: `AddsMeanwhile = TRUE`, `ShownBeforeLarge` |
| `tools/remote-pull.ts:212`, as above | After a failed stream only the files listed before are copied again (`:215`): a file added later and cut off stays in part. | Transfers.cfg: `AddsMeanwhile = TRUE`, `WarnFiles = 3`, `SuccessMeansWhole` |
| `tools/remote-push.ts:47` "Large transfers return a size warning first" | The same of the push: pushDirectory (`:236`) scans the directory again. | Transfers.cfg: `AddsMeanwhile = TRUE`, `PushKept` |
| `sync-engine.ts:221` "Move the existing file aside." | A directory at the file's place is moved aside as well; unlink (`:243`) fails on it, unseen, and it stays under the hidden name of a backup. | Transfers.cfg, the push alone: `Push!DirsStay` |
| `tools/remote-edit.ts:381` "Found multiple matches for oldString. Provide more surrounding context to make the match unique." | Only when no looser replacer finds a text that is there once: an oldString that is there twice is replaced where, say, its indented form is. | Algorithms.cfg: `Edit!AmbiguousRefused` |
| `tools/remote-edit.ts:377` "It must match exactly, including whitespace, indentation, and line endings." | Nine replacers forgive each of these. In a CRLF file a loose match may take the "\r" of its last line with it, and the file has both endings. | Algorithms.cfg: `Edit!CrlfKept` |
| `tools/remote-edit.ts:412` "Replace all occurrences of oldString" | A blank oldString that is not in the file is trimmed to the empty text, which is everywhere: with replaceAll the loop (`:363`) never ends. | Algorithms.cfg: `Edit!Ends` |
| `tools/remote-patch.ts:627` "Success. Updated the following files:" | The stages go through all sections: what is deleted and then added, moved and then made again, or moved to itself is removed last, and its contents are lost. | Patches.cfg: `AppliedInOrder` |
| `tools/remote-patch.ts:601` "Remove it for real, the way the move path already did." | rm may fail and say so by its exit code, which is not looked at. | Patches.cfg: `RmFails = TRUE`, `PatchApplied` |
| the same | A unified diff to /dev/null, or one that removes every line, leaves the file present and empty. | Patches.cfg: `DeletedIsGone` |
| `sync-engine.ts:60`, as above, of pushes | The deletions and moves of a patch (`tools/remote-patch.ts:604`, `:614`) have no such guard: what others wrote since the pull is removed. | Patches.cfg: `EditsKept` |
| `root-jail.ts:171` "a broken symlink still exists as an entry, and the jail must judge where it points rather than pretend it is absent" | Where the directory a link points into is missing, realpath of SFTP fails and the path counts as absent (`:179`); the shell, where readlink and realpath fail too, gives the path itself. | Algorithms.cfg: `Jail!AnswersAgree` |
| the same | An lstat or realpath that fails for another reason (`:173`, `:179`), or a command of the shell whose output is lost (`:199`), reads as a path that is absent too: a path that is allowed is refused, and a link is passed unresolved where a missing file is asked for (by remote_read and what makes files). | Algorithms.cfg: `Jail!JudgesWhatIsThere` |
| `src/README.md:226` "Relative paths are resolved under the root." | A root that is a link is compared as it is written with where paths really lead: every path is refused. | Algorithms.cfg: `LinkedRoot <- TRUE`, `JailJudges` |

## What is not modelled

* Host keys (`known-hosts.ts`): decided inside a dial, which is one step of the manager; most
  of it parses files and the output of ssh-keygen. The local target (`local-pool.ts`): the
  same interface on child processes, without slots, sessions or reconnects. Configuration,
  read once before anything runs. The search and stat tools, the registration of the tools: one
  command each and the formatting of its output. `path-mapper.ts` joins and strips a prefix.
* What nothing calls: `pushDirectoryViaTar`, the script of resolveManyUnderRoot for many
  paths, `toRemote`, `pushAll`.
* Of what is modelled: output and its limits, working directories and sudo; a timeout
  of 0, which arms no timer; file modes, and stamps that two contents share (a second is
  the resolution of mtime); the manifest's file, which every connection starts empty; the
  check for binary files; a carriage return inside a line of a patch, which makes two lines of it; the number and size of files beyond the counts the gate looks
  at; links in a transfer, which tar follows, find lists differently and a push skips; the
  names of paths, but for what the jail makes of them; a local path that is not
  absolute; edits of the mirror by hand.
* Contents are compared as a whole. A fastGet of a file is of one content;
  the runs give others no step in the middle of one.
