--------------------------- MODULE SshConnection ---------------------------
(***************************************************************************)
(* One SSH connection of a target (src/src/ssh-connection.ts): a transport *)
(* that is replaced when it dies, a semaphore of channel slots, commands   *)
(* run on channels with retries and timeouts, and one shared SFTP session. *)
(*                                                                         *)
(* A caller makes one call: an exec, an execStream or a withSftp.  Node    *)
(* runs every pending promise reaction before it delivers the next event,  *)
(* so each event of the socket, the server or a timer requires Quiet,      *)
(* while the reactions themselves, new calls and close() interleave freely.*)
(***************************************************************************)
EXTENDS Integers, Sequences, FiniteSets

CONSTANTS Execs, Streams, Sftps,   \* the calls to exec, execStream, withSftp
          Retryable,               \* the execs with retry: true
          Transports,              \* the ssh2 clients that may be connected
          MaxChannels,             \* REMOTE_MAX_CHANNELS
          MaxConnectionAttempts, MaxChannelOpenAttempts,
          ExecThrows,              \* client.exec throws when not writable
          None

Users == Execs \cup Streams
Callers == Users \cup Sftps

ASSUME CallersAssumption ==
    /\ IsFiniteSet(Users)
    /\ Execs \cap Streams = {} /\ Users \cap Sftps = {}
    /\ Retryable \subseteq Execs
    /\ None \notin Callers \cup Transports
ASSUME TransportsAssumption == Transports # {}
ASSUME BoundsAssumption ==
    /\ MaxChannels \in 1..32
    /\ MaxConnectionAttempts \in Nat \ {0}
    /\ MaxChannelOpenAttempts \in Nat \ {0}
    /\ ExecThrows \in BOOLEAN

VARIABLES
    closed,           \* close() was called
    client,           \* the current transport
    connecting,       \* a reconnect is in flight
    tstate,           \* what became of each transport
    inFlight,         \* slots counted as taken
    waiters,          \* callers queued for a slot
    pc,               \* where each call stands
    err,              \* the error execWithRetry is about to catch
    on,               \* the transport a channel or a session is on
    chan,             \* the channel of an attempt: opening, asked to exec, open
    exit,             \* what the stream's last event reported
    asked,            \* exec requests that were sent for the command
    refused, lost,    \* channelOpenAttempts, connectionAttempts
    sharedSftp,       \* the caller whose session is shared
    sftpQueue,        \* withSftp calls, in order
    sftpUnavailable,
    sess,             \* the session each withSftp call opened
    held              \* the session the running withSftp call uses

slotVars == <<inFlight, waiters>>
linkVars == <<client, connecting, tstate>>
workVars == <<on, chan, exit, asked, refused, lost>>
sftpVars == <<sharedSftp, sftpQueue, sftpUnavailable, sess, held>>
vars == <<closed, linkVars, slotVars, pc, err, workVars, sftpVars>>

TStates == {"none", "up", "dying", "half", "ending", "closing", "down"}
Chans == {"none", "opening", "asked", "open", "killed"}
Exits == {"none", "zero", "signal", "undefined", "timeout", "error"}
Errors == {"none", "timeout", "refused", "lost", "closed", "gone", "other"}
Sessions == {"none", "opening", "open", "ending"}

\* A slot is held from the hand-over to the release.
HoldingAt == {"handed", "granted", "connecting", "ready", "waiting",
              "finished", "failing", "leaked"}
RunnableAt == {"handed", "granted", "ready", "finished", "failing", "caught", "opened"}
SettledAt == {"done", "failed", "leaked"}
Pcs == HoldingAt \cup RunnableAt \cup SettledAt
         \cup {"idle", "queued", "backoff", "chained", "opening", "using"}

Holders == {p \in Users : pc[p] \in HoldingAt}
IsTurn(p) == sftpQueue # <<>> /\ Head(sftpQueue) = p
Quiet == \A p \in Callers : /\ pc[p] \notin RunnableAt
                            /\ ~ (pc[p] = "chained" /\ IsTurn(p))
Writable(t) == tstate[t] = "up"

\* What the server had sent when the client ended the transport still arrives.
Readable(t) == tstate[t] \in {"up", "ending"}

TypeOK ==
    /\ closed \in BOOLEAN /\ connecting \in BOOLEAN /\ sftpUnavailable \in BOOLEAN
    /\ client \in Transports \cup {None}
    /\ tstate \in [Transports -> TStates]
    /\ inFlight \in 0..MaxChannels
    /\ waiters \in Seq(Users)
    /\ pc \in [Callers -> Pcs]
    /\ err \in [Execs -> Errors]
    /\ on \in [Callers -> Transports \cup {None}]
    /\ chan \in [Users -> Chans]
    /\ exit \in [Users -> Exits]
    /\ asked \in [Users -> Nat]
    /\ refused \in [Execs -> Nat]
    /\ lost \in [Execs -> Nat]
    /\ sharedSftp \in Sftps \cup {None}
    /\ sftpQueue \in Seq(Sftps)
    /\ sess \in [Sftps -> Sessions]
    /\ held \in Sftps \cup {None}

\* createSSHConnection returns once the first transport is connected.
Init ==
    /\ closed = FALSE /\ connecting = FALSE /\ sftpUnavailable = FALSE
    /\ client \in Transports
    /\ tstate = [t \in Transports |-> IF t = client THEN "up" ELSE "none"]
    /\ inFlight = 0 /\ waiters = <<>>
    /\ pc = [p \in Callers |-> "idle"]
    /\ err = [p \in Execs |-> "none"]
    /\ on = [p \in Callers |-> None]
    /\ chan = [p \in Users |-> "none"]
    /\ exit = [p \in Users |-> "none"]
    /\ asked = [p \in Users |-> 0]
    /\ refused = [p \in Execs |-> 0] /\ lost = [p \in Execs |-> 0]
    /\ sharedSftp = None /\ held = None /\ sftpQueue = <<>>
    /\ sess = [p \in Sftps |-> "none"]

-----------------------------------------------------------------------------
(* The semaphore. *)

\* An exec's error reaches execWithRetry, any other goes to the caller.
Thrown(p) == IF p \in Execs THEN "caught" ELSE "failed"
Raise(p, e) == [q \in Execs |-> IF q = p THEN e ELSE err[q]]

\* acquireChannel, up to its await.
Acquire(p) ==
    \/ /\ closed
       /\ pc' = [pc EXCEPT ![p] = Thrown(p)]
       /\ err' = Raise(p, "closed")
       /\ UNCHANGED slotVars
    \/ /\ ~ closed /\ inFlight < MaxChannels
       /\ inFlight' = inFlight + 1
       /\ pc' = [pc EXCEPT ![p] = "granted"]
       /\ err' = Raise(p, "none")
       /\ UNCHANGED waiters
    \/ /\ ~ closed /\ inFlight >= MaxChannels
       /\ waiters' = Append(waiters, p)
       /\ pc' = [pc EXCEPT ![p] = "queued"]
       /\ err' = Raise(p, "none")
       /\ UNCHANGED inFlight

\* Mutant: the count drifts below zero when a running call ends after close().
ReleaseUnfloored(p, next) ==
    /\ pc' = [pc EXCEPT ![p] = next] /\ inFlight' = inFlight - 1 /\ UNCHANGED waiters

\* releaseChannel: the slot of p goes to the first waiter, if there is one.
Release(p, next) ==
    \/ /\ waiters # <<>>
       /\ pc' = [pc EXCEPT ![p] = next, ![Head(waiters)] = "handed"]
       /\ waiters' = Tail(waiters)
       /\ UNCHANGED inFlight
    \/ /\ waiters = <<>>
       /\ pc' = [pc EXCEPT ![p] = next]
       /\ inFlight' = IF inFlight > 0 THEN inFlight - 1 ELSE inFlight
       /\ UNCHANGED waiters

Queued(p) == \E i \in DOMAIN waiters : waiters[i] = p

\* Mutant: the waiters are resolved as if each had been given a slot.
FailWaitersResolved(pcs, errs, e) ==
    /\ waiters' = <<>> /\ err' = errs
    /\ pc' = [p \in Callers |-> IF Queued(p) THEN "handed" ELSE pcs[p]]

\* Mutant: the waiters are forgotten without being rejected.
FailWaitersForgotten(pcs, errs, e) == waiters' = <<>> /\ pc' = pcs /\ err' = errs

\* failWaiters, on the program counters and errors pcs and errs.
FailWaiters(pcs, errs, e) ==
    /\ waiters' = <<>>
    /\ pc' = [p \in Callers |-> IF Queued(p) THEN Thrown(p) ELSE pcs[p]]
    /\ err' = [p \in Execs |-> IF Queued(p) THEN e ELSE errs[p]]

\* exec and execStream start by asking for a slot.
Call(p) ==
    /\ pc[p] = "idle"
    /\ Acquire(p)
    /\ UNCHANGED <<closed, linkVars, workVars, sftpVars>>

\* A waiter resumes with the slot it inherited.
Resume(p) ==
    /\ pc[p] = "handed"
    /\ \/ /\ closed
          /\ Release(p, Thrown(p))
          /\ err' = Raise(p, "closed")
       \/ /\ ~ closed
          /\ pc' = [pc EXCEPT ![p] = "granted"]
          /\ UNCHANGED <<slotVars, err>>
    /\ UNCHANGED <<closed, linkVars, workVars, sftpVars>>

\* The finally of withChannel, and releaseOnce, after a failure or a result.
Fail(p) ==
    /\ p \in Users /\ pc[p] = "failing"
    /\ Release(p, Thrown(p))
    /\ UNCHANGED <<closed, linkVars, err, workVars, sftpVars>>

Finish(p) ==
    /\ pc[p] = "finished"
    /\ Release(p, "done")
    /\ UNCHANGED <<closed, linkVars, err, workVars, sftpVars>>

-----------------------------------------------------------------------------
(* The transport. *)

\* ensureClient, up to its await; a failed session opening is handled alike.
EnsureClient(p) ==
    \/ /\ closed
       /\ pc' = [pc EXCEPT ![p] = "failing"]
       /\ err' = Raise(p, "closed")
       /\ UNCHANGED <<connecting, on>>
    \/ /\ ~ closed /\ client # None
       /\ pc' = [pc EXCEPT ![p] = "ready"]
       /\ on' = [on EXCEPT ![p] = client]
       /\ UNCHANGED <<connecting, err>>
    \/ /\ ~ closed /\ client = None
       /\ pc' = [pc EXCEPT ![p] = "connecting"]
       /\ connecting' = TRUE
       /\ UNCHANGED <<err, on>>

Ensure(p) ==
    /\ pc[p] = "granted"
    /\ EnsureClient(p)
    /\ UNCHANGED <<closed, client, tstate, slotVars, chan, exit, asked, refused, lost, sftpVars>>

\* Everyone who awaits the shared attempt continues at next.
Sharers == {p \in Callers : pc[p] = "connecting"}
Resolved(f, v) == [p \in DOMAIN f |-> IF p \in Sharers THEN v ELSE f[p]]

Connected(t) ==
    /\ Quiet /\ connecting /\ tstate[t] = "none"
    /\ connecting' = FALSE
    /\ \/ /\ closed
          /\ tstate' = [tstate EXCEPT ![t] = "ending"]
          /\ pc' = Resolved(pc, "failing")
          /\ err' = Resolved(err, "closed")
          /\ UNCHANGED <<client, on>>
       \/ /\ ~ closed
          /\ client' = t
          /\ tstate' = [u \in Transports |->
                 CASE u = t -> "up" [] u = client -> "ending" [] OTHER -> tstate[u]]
          /\ pc' = Resolved(pc, "ready")
          /\ on' = Resolved(on, t)
          /\ UNCHANGED err
    /\ UNCHANGED <<closed, slotVars, chan, exit, asked, refused, lost, sftpVars>>

\* A timeout or a refused socket reads as a lost connection, a refused key does not.
ConnectFailed(e) ==
    /\ Quiet /\ connecting
    /\ connecting' = FALSE
    /\ pc' = Resolved(pc, "failing")
    /\ err' = Resolved(err, e)
    /\ UNCHANGED <<closed, client, tstate, slotVars, workVars, sftpVars>>

\* Mutant: the count is reset although calls are still running.
OnGoneReset(t, pcs, errs) ==
    /\ client' = IF client = t THEN None ELSE client
    /\ FailWaiters(pcs, errs, "gone")
    /\ inFlight' = 0

\* onGone, the listener adopt attached for the transport t.
OnGone(t, pcs, errs) ==
    /\ client' = IF client = t THEN None ELSE client
    /\ FailWaiters(pcs, errs, "gone")
    /\ UNCHANGED inFlight

\* Mutant: the client goes but its session stays shared.
SessionKept(t) == sharedSftp

\* It forgets the session with the client.
SessionLeft(t) == IF client = t THEN None ELSE sharedSftp

\* The socket stops working before anything is told of it (external).
TransportDies(t) ==
    /\ Quiet /\ tstate[t] = "up"
    /\ tstate' = [tstate EXCEPT ![t] = "dying"]
    /\ UNCHANGED <<closed, client, connecting, slotVars, pc, err, workVars, sftpVars>>

\* The "end" event.
TransportEnd(t) ==
    /\ Quiet /\ tstate[t] \in {"up", "ending"}
    /\ tstate' = [tstate EXCEPT ![t] = IF @ = "up" THEN "half" ELSE "closing"]
    /\ OnGone(t, pc, err)
    /\ sharedSftp' = SessionLeft(t)
    /\ UNCHANGED <<closed, connecting, workVars, sftpQueue, sftpUnavailable, sess, held>>

\* The "close" event: ssh2 fails what waits for a channel and closes the rest.
Opening(p) == chan[p] \in {"opening", "asked"}
Live(p) == chan[p] \in {"opening", "asked", "open", "killed"}
TransportClose(t) ==
    LET hit(p) == p \in Users /\ on[p] = t /\ Live(p)
        mine(p) == p \in Sftps /\ on[p] = t
        woken(p) == CASE hit(p) /\ pc[p] = "waiting" /\ Opening(p) -> "failing"
                      [] hit(p) /\ pc[p] = "waiting" /\ ~ Opening(p) -> "finished"
                      [] mine(p) /\ pc[p] = "opening" -> "failing"
                      [] OTHER -> pc[p]
    IN  /\ Quiet /\ tstate[t] \notin {"none", "down"}
        /\ tstate' = [tstate EXCEPT ![t] = "down"]
        /\ OnGone(t, [p \in Callers |-> woken(p)],
                     [p \in Execs |-> IF hit(p) /\ woken(p) = "failing" THEN "lost" ELSE err[p]])
        /\ chan' = [p \in Users |-> IF hit(p) THEN "none" ELSE chan[p]]
        /\ on' = [p \in Callers |-> IF on[p] = t THEN None ELSE on[p]]
        /\ exit' = [p \in Users |-> IF hit(p) /\ woken(p) = "finished"
                                    THEN "undefined" ELSE exit[p]]
        /\ sess' = [p \in Sftps |-> IF mine(p) THEN "none" ELSE sess[p]]
        /\ sharedSftp' = IF \E p \in Sftps : mine(p) /\ sess[p] \in {"open", "ending"}
                         THEN None ELSE SessionLeft(t)
        /\ UNCHANGED <<closed, connecting, asked, refused, lost,
                       sftpQueue, sftpUnavailable, held>>

\* Mutant: the client is forgotten but not ended.
DropTransportUnended ==
    /\ sess' = sess /\ sharedSftp' = None
    /\ client' = None /\ tstate' = tstate

\* dropTransport ends the session and the transport, whichever they are now.
DropTransport ==
    /\ sess' = [s \in Sftps |-> IF s = sharedSftp /\ sess[s] = "open"
                                THEN "ending" ELSE sess[s]]
    /\ sharedSftp' = None
    /\ tstate' = [t \in Transports |->
           CASE t = client /\ tstate[t] = "up" -> "ending"
             [] t = client /\ tstate[t] = "dying" -> "closing"
             [] OTHER -> tstate[t]]
    /\ client' = None

\* Mutant: close() leaves the transport to whoever still uses it.
CloseKeepsTransport ==
    /\ ~ closed
    /\ closed' = TRUE
    /\ inFlight' = 0
    /\ FailWaiters(pc, err, "closed")
    /\ UNCHANGED <<linkVars, workVars, sftpVars>>

Close ==
    /\ ~ closed
    /\ closed' = TRUE
    /\ inFlight' = 0
    /\ FailWaiters(pc, err, "closed")
    /\ DropTransport
    /\ UNCHANGED <<connecting, workVars, sftpQueue, sftpUnavailable, held>>

-----------------------------------------------------------------------------
(* Commands on channels: execOnChannel, and the body of execStream. *)

NoChannel(p) ==
    /\ chan' = [chan EXCEPT ![p] = "none"]
    /\ on' = [on EXCEPT ![p] = None]

\* client.exec on a socket that is gone throws, inside the Promise executor:
\* exec turns that into an error, execStream never reaches its releaseOnce.
StartExec(p) ==
    /\ p \in Users /\ pc[p] = "ready"
    /\ \/ /\ Writable(on[p])
          /\ pc' = [pc EXCEPT ![p] = "waiting"]
          /\ chan' = [chan EXCEPT ![p] = "opening"]
          /\ UNCHANGED <<err, on>>
       \/ /\ ~ Writable(on[p]) /\ ExecThrows
          /\ pc' = [pc EXCEPT ![p] = IF p \in Streams THEN "leaked" ELSE "failing"]
          /\ err' = Raise(p, "other")
          /\ NoChannel(p)
       \/ /\ ~ Writable(on[p]) /\ ~ ExecThrows
          /\ pc' = [pc EXCEPT ![p] = "failing"]
          /\ err' = Raise(p, "lost")
          /\ NoChannel(p)
    /\ UNCHANGED <<closed, linkVars, slotVars, exit, asked, refused, lost, sftpVars>>

\* The server confirms the channel and ssh2 sends the exec request, which takes a
\* writable socket.  From then on the server may start the command, once, whatever
\* becomes of the client (external).
CommandAsked(p) ==
    /\ Quiet /\ chan[p] = "opening" /\ Writable(on[p])
    /\ chan' = [chan EXCEPT ![p] = "asked"]
    /\ asked' = [asked EXCEPT ![p] = @ + 1]
    /\ UNCHANGED <<closed, linkVars, slotVars, pc, err, on, exit, refused, lost, sftpVars>>

\* Mutant: a stream that opens after the timeout is left running.
StreamOpensUnkilled(p) ==
    /\ Quiet /\ chan[p] = "asked" /\ Readable(on[p])
    /\ chan' = [chan EXCEPT ![p] = "open"]
    /\ UNCHANGED <<closed, linkVars, slotVars, pc, err, on, exit, asked, refused, lost, sftpVars>>

\* The exec callback gets its stream; one that arrives late is killed.
StreamOpens(p) ==
    /\ Quiet /\ chan[p] = "asked" /\ Readable(on[p])
    /\ chan' = [chan EXCEPT ![p] = IF pc[p] = "waiting" THEN "open" ELSE "killed"]
    /\ UNCHANGED <<closed, linkVars, slotVars, pc, err, on, exit, asked, refused, lost, sftpVars>>

\* The exec callback gets an error: for a refused channel, or a refused request.
ExecRefused(p, e) ==
    /\ Quiet
    /\ chan[p] = "opening" \/ (chan[p] = "asked" /\ e = "other")
    /\ Readable(on[p])
    /\ NoChannel(p)
    /\ \/ /\ pc[p] = "waiting"
          /\ pc' = [pc EXCEPT ![p] = "failing"]
          /\ err' = Raise(p, e)
       \/ /\ pc[p] # "waiting"
          /\ UNCHANGED <<pc, err>>
    /\ UNCHANGED <<closed, linkVars, slotVars, exit, asked, refused, lost, sftpVars>>

\* The stream closes: as the server says, or as a transport that is gone has it.
StreamCloses(p, how) ==
    /\ Quiet /\ chan[p] \in {"open", "killed"}
    /\ \/ Readable(on[p]) /\ how \in {"zero", "signal"}
       \/ ~ Writable(on[p]) /\ how = "undefined"
    /\ NoChannel(p)
    /\ \/ /\ pc[p] = "waiting"
          /\ pc' = [pc EXCEPT ![p] = "finished"]
          /\ exit' = [exit EXCEPT ![p] = how]
       \/ /\ pc[p] # "waiting"
          /\ UNCHANGED <<pc, exit>>
    /\ UNCHANGED <<closed, linkVars, slotVars, err, asked, refused, lost, sftpVars>>

\* A stream "error": exec rejects with it, execStream settles with code -1.
StreamErrs(p) ==
    /\ Quiet /\ chan[p] = "open" /\ pc[p] = "waiting"
    /\ NoChannel(p)
    /\ \/ /\ p \in Execs
          /\ pc' = [pc EXCEPT ![p] = "failing"]
          /\ err' = Raise(p, IF Writable(on[p]) THEN "other" ELSE "lost")
          /\ UNCHANGED exit
       \/ /\ p \in Streams
          /\ pc' = [pc EXCEPT ![p] = "finished"]
          /\ exit' = [exit EXCEPT ![p] = "error"]
          /\ UNCHANGED err
    /\ UNCHANGED <<closed, linkVars, slotVars, asked, refused, lost, sftpVars>>

\* The timer: armed with the exec, but only once an execStream has its stream.
Timeout(p) ==
    /\ Quiet /\ pc[p] = "waiting"
    /\ chan' = [chan EXCEPT ![p] = IF @ = "open" THEN "killed" ELSE @]
    /\ \/ /\ p \in Execs
          /\ pc' = [pc EXCEPT ![p] = "failing"]
          /\ err' = Raise(p, "timeout")
          /\ UNCHANGED exit
       \/ /\ p \in Streams /\ chan[p] = "open"
          /\ pc' = [pc EXCEPT ![p] = "finished"]
          /\ exit' = [exit EXCEPT ![p] = "timeout"]
          /\ UNCHANGED err
    /\ UNCHANGED <<closed, linkVars, slotVars, on, asked, refused, lost, sftpVars>>

-----------------------------------------------------------------------------
(* execWithRetry. *)

\* isConnectionError: "SSH connection closed" matches it, "SSH transport closed" does not.
ConnectionErrors == {"lost", "closed"}

CatchFinal(p) ==
    /\ pc[p] = "caught" /\ err[p] \in {"timeout", "gone", "other"}
    /\ pc' = [pc EXCEPT ![p] = "failed"]
    /\ err' = Raise(p, "none")
    /\ UNCHANGED <<closed, linkVars, slotVars, workVars, sftpVars>>

\* A refused channel never ran the command: back off and try again.
CatchRefused(p) ==
    /\ pc[p] = "caught" /\ err[p] = "refused"
    /\ refused' = [refused EXCEPT ![p] = @ + 1]
    /\ pc' = [pc EXCEPT ![p] = IF refused[p] + 1 >= MaxChannelOpenAttempts
                               THEN "failed" ELSE "backoff"]
    /\ err' = Raise(p, "none")
    /\ UNCHANGED <<closed, linkVars, slotVars, on, chan, exit, asked, lost, sftpVars>>

\* Mutant: every command is retried after a lost connection.
MayRetryAlways(p) == lost[p] + 1 < MaxConnectionAttempts

\* A lost connection: drop the transport, try again only if the caller allows.
MayRetry(p) == p \in Retryable /\ lost[p] + 1 < MaxConnectionAttempts
CatchLost(p) ==
    /\ pc[p] = "caught" /\ err[p] \in ConnectionErrors
    /\ DropTransport
    /\ lost' = [lost EXCEPT ![p] = @ + 1]
    /\ \/ /\ MayRetry(p)
          /\ Acquire(p)
       \/ /\ ~ MayRetry(p)
          /\ pc' = [pc EXCEPT ![p] = "failed"]
          /\ err' = Raise(p, "none")
          /\ UNCHANGED slotVars
    /\ UNCHANGED <<closed, connecting, on, chan, exit, asked, refused,
                   sftpQueue, sftpUnavailable, held>>

\* The delay after a refused channel is over.
Retry(p) ==
    /\ Quiet /\ pc[p] = "backoff"
    /\ Acquire(p)
    /\ UNCHANGED <<closed, linkVars, workVars, sftpVars>>

-----------------------------------------------------------------------------
(* withSftp: one call at a time, on one session kept between calls. *)

CallSftp(p) ==
    /\ pc[p] = "idle"
    /\ pc' = [pc EXCEPT ![p] = "chained"]
    /\ sftpQueue' = Append(sftpQueue, p)
    /\ UNCHANGED <<closed, linkVars, slotVars, err, workVars, sharedSftp,
                   sftpUnavailable, sess, held>>

\* Mutant: a call does not wait for the previous one.
RunSftpUnchained(p) ==
    /\ pc[p] = "chained" /\ sharedSftp = None
    /\ EnsureClient(p)
    /\ UNCHANGED <<closed, client, tstate, slotVars, chan, exit, asked, refused, lost, sftpVars>>

\* getSftp, up to its first await.
RunSftp(p) ==
    /\ pc[p] = "chained" /\ IsTurn(p)
    /\ \/ /\ sftpUnavailable
          /\ pc' = [pc EXCEPT ![p] = "failing"]
          /\ err' = Raise(p, "other")
          /\ UNCHANGED <<connecting, on, held>>
       \/ /\ ~ sftpUnavailable /\ sharedSftp # None
          /\ pc' = [pc EXCEPT ![p] = "using"]
          /\ held' = sharedSftp
          /\ UNCHANGED <<connecting, err, on>>
       \/ /\ ~ sftpUnavailable /\ sharedSftp = None
          /\ EnsureClient(p)
          /\ UNCHANGED held
    /\ UNCHANGED <<closed, client, tstate, slotVars, chan, exit, asked, refused, lost,
                   sharedSftp, sftpQueue, sftpUnavailable, sess>>

NoSession(p) ==
    /\ sess' = [sess EXCEPT ![p] = "none"]
    /\ on' = [on EXCEPT ![p] = None]

OpenSftp(p) ==
    /\ p \in Sftps /\ pc[p] = "ready"
    /\ \/ /\ Writable(on[p])
          /\ pc' = [pc EXCEPT ![p] = "opening"]
          /\ sess' = [sess EXCEPT ![p] = "opening"]
          /\ UNCHANGED <<err, on>>
       \/ /\ ~ Writable(on[p])
          /\ pc' = [pc EXCEPT ![p] = "failing"]
          /\ err' = Raise(p, "other")
          /\ NoSession(p)
    /\ UNCHANGED <<closed, linkVars, slotVars, chan, exit, asked, refused, lost,
                   sharedSftp, sftpQueue, sftpUnavailable, held>>

SftpOpens(p) ==
    /\ Quiet /\ pc[p] = "opening" /\ Readable(on[p])
    /\ pc' = [pc EXCEPT ![p] = "opened"]
    /\ sess' = [sess EXCEPT ![p] = "open"]
    /\ UNCHANGED <<closed, linkVars, slotVars, err, workVars, sharedSftp, sftpQueue,
                   sftpUnavailable, held>>

\* The session is refused, for good when the server has no SFTP subsystem.
SftpRefused(p, forGood) ==
    /\ Quiet /\ pc[p] = "opening" /\ Readable(on[p])
    /\ pc' = [pc EXCEPT ![p] = "failing"]
    /\ err' = Raise(p, "refused")
    /\ NoSession(p)
    /\ sftpUnavailable' = (sftpUnavailable \/ forGood)
    /\ UNCHANGED <<closed, linkVars, slotVars, chan, exit, asked, refused, lost,
                   sharedSftp, sftpQueue, held>>

\* getSftp resumes and stores the session it opened.
StoreSftp(p) ==
    /\ pc[p] = "opened"
    /\ pc' = [pc EXCEPT ![p] = "using"]
    /\ sharedSftp' = p
    /\ held' = p
    /\ UNCHANGED <<closed, linkVars, slotVars, err, workVars, sftpQueue, sftpUnavailable, sess>>

\* Mutant: a call that fails stops the chain.
LeaveQueueStuck == UNCHANGED sftpQueue /\ held' = None

\* The call leaves the queue and the next may run.
LeaveQueue == /\ sftpQueue' = Tail(sftpQueue) /\ held' = None

SftpFails(p) ==
    /\ p \in Sftps /\ pc[p] = "failing"
    /\ pc' = [pc EXCEPT ![p] = "failed"]
    /\ LeaveQueue
    /\ UNCHANGED <<closed, linkVars, slotVars, err, workVars, sharedSftp, sftpUnavailable, sess>>

SftpDone(p) ==
    /\ Quiet /\ pc[p] = "using" /\ sess[held] # "none" /\ Readable(on[held])
    /\ pc' = [pc EXCEPT ![p] = "done"]
    /\ LeaveQueue
    /\ UNCHANGED <<closed, linkVars, slotVars, err, workVars, sharedSftp, sftpUnavailable, sess>>

\* fn fails; an error that reads as a connection error drops the session.
SftpOpFails(p, dropped) ==
    /\ Quiet /\ pc[p] = "using"
    /\ pc' = [pc EXCEPT ![p] = "failed"]
    /\ LeaveQueue
    /\ \/ /\ dropped
          /\ sharedSftp' = None
          /\ sess' = [sess EXCEPT ![held] = IF @ = "open" THEN "ending" ELSE @]
       \/ /\ ~ dropped /\ sess[held] = "open"
          /\ UNCHANGED <<sharedSftp, sess>>
    /\ UNCHANGED <<closed, linkVars, slotVars, err, workVars, sftpUnavailable>>

\* The close or error event of any session clears the shared one.
SessionCloses(s) ==
    /\ Quiet /\ sess[s] \in {"open", "ending"}
    /\ NoSession(s)
    /\ sharedSftp' = None
    /\ UNCHANGED <<closed, linkVars, slotVars, pc, err, chan, exit, asked, refused, lost,
                   sftpQueue, sftpUnavailable, held>>

-----------------------------------------------------------------------------
Settled == \A p \in Callers : pc[p] \in SettledAt

\* Every call was answered and nothing more need happen.
Terminating == Settled /\ UNCHANGED vars

\* The promise reactions: what the client does without being told.
UserStep(p) ==
    Resume(p) \/ Fail(p) \/ Finish(p) \/ Ensure(p) \/ StartExec(p)
ExecStep(p) == CatchFinal(p) \/ CatchRefused(p) \/ CatchLost(p)
SftpStep(p) == RunSftp(p) \/ OpenSftp(p) \/ StoreSftp(p) \/ SftpFails(p)
ConnectSettles ==
    \/ \E t \in Transports : Connected(t)
    \/ \E e \in {"lost", "other"} : ConnectFailed(e)

\* What the server, the socket and the tools do.
ServerStep(p) ==
    \/ CommandAsked(p) \/ StreamOpens(p) \/ StreamErrs(p)
    \/ \E e \in {"refused", "other"} : ExecRefused(p, e)
    \/ \E how \in {"zero", "signal", "undefined"} : StreamCloses(p, how)
SftpServerStep(p) ==
    \/ SftpOpens(p) \/ SftpDone(p) \/ SessionCloses(p)
    \/ \E b \in BOOLEAN : SftpRefused(p, b)
    \/ \E b \in BOOLEAN : SftpOpFails(p, b)
TransportStep(t) == TransportDies(t) \/ TransportEnd(t) \/ TransportClose(t)

Next ==
    \/ \E p \in Users : Call(p) \/ UserStep(p) \/ ServerStep(p) \/ Timeout(p)
    \/ \E p \in Execs : ExecStep(p) \/ Retry(p)
    \/ \E p \in Sftps : CallSftp(p) \/ SftpStep(p) \/ SftpServerStep(p)
    \/ \E t \in Transports : TransportStep(t)
    \/ ConnectSettles
    \/ Close
    \/ Terminating

Spec == Init /\ [][Next]_vars

\* Reactions run, and the timers of connect(), the delay and exec fire.
LocalFairness ==
    /\ \A p \in Users : WF_vars(UserStep(p))
    /\ \A p \in Execs : WF_vars(ExecStep(p) \/ Retry(p)) /\ WF_vars(Timeout(p))
    /\ \A p \in Sftps : WF_vars(SftpStep(p))
    /\ WF_vars(ConnectSettles)
FairSpec == Spec /\ LocalFairness

\* Only with sessions and streams: keepalive notices a dead socket, a live
\* server answers a request to open a channel or a session.
Answers(p) == \/ CommandAsked(p) \/ StreamOpens(p)
              \/ \E e \in {"refused", "other"} : ExecRefused(p, e)
SftpAnswers(p) == \/ SftpOpens(p) \/ SftpDone(p)
                  \/ \E b \in BOOLEAN : SftpRefused(p, b)
                  \/ \E b \in BOOLEAN : SftpOpFails(p, b)
ServerFairness ==
    /\ \A p \in Streams : WF_vars(Answers(p)) /\ WF_vars(Timeout(p))
    /\ \A p \in Sftps : WF_vars(SftpAnswers(p))
    /\ \A t \in Transports : WF_vars(tstate[t] # "up" /\ TransportClose(t))
AnsweredSpec == FairSpec /\ ServerFairness

-----------------------------------------------------------------------------
(* Properties. *)

\* The operations that hold a slot never exceed the cap, and until close() the
\* counter is exactly their number: no release is lost or made twice.
SlotAccounting ==
    ~ closed => inFlight = Cardinality(Holders) /\ Cardinality(Holders) <= MaxChannels

\* No caller waits while a slot is free, and after close() none waits at all.
NoIdleSlotWhileQueued ==
    waiters # <<>> => ~ closed /\ inFlight = MaxChannels

\* The waiters are exactly the calls that stand at the await of acquireChannel.
WaitersAreQueued ==
    /\ \A p \in Users : pc[p] = "queued" <=> Queued(p)
    /\ \A i, j \in DOMAIN waiters : i # j => waiters[i] # waiters[j]

\* The slots are a fair counting semaphore: the counter and the hand-over of
\* releaseChannel implement the abstract one.
Slots == INSTANCE ChannelSemaphore
    WITH Clients <- Users, Cap <- MaxChannels,
         holders <- Holders, queue <- waiters, shut <- closed
IsSemaphore == Slots!Spec

\* Every working transport is the current client: none is left open unowned,
\* not even one that connects after close().
NoStrandedTransport == \A t \in Transports : tstate[t] = "up" => t = client

\* A command that is not declared idempotent is asked of the server at most once, and
\* an idempotent one at most as often as execWithRetry makes connection attempts: three,
\* which is once more than ExecOptions says (ReRunOnce).
BoundedExecution ==
    \A p \in Users :
        asked[p] <= IF p \in Retryable THEN MaxConnectionAttempts ELSE 1

\* A channel that is open always has a caller: one that opens after its
\* timeout, or outlives it, is killed.
NoOrphanChannel == \A p \in Users : chan[p] = "open" => pc[p] = "waiting"

\* The shared session belongs to the current transport, so that a transport that is
\* gone takes its session with it.  Only a session whose opening is answered after its
\* transport was dropped stands for another, which was ended and has not closed yet.
SessionOnClient ==
    ~ closed /\ sharedSftp # None =>
        \/ client # None /\ on[sharedSftp] = client
        \/ on[sharedSftp] # None /\ tstate[on[sharedSftp]] \in {"ending", "closing"}

\* withSftp runs one fn at a time: only the head of the queue has left it.
SftpSerialised ==
    \A p \in Sftps : pc[p] \in {"connecting", "ready", "opening", "opened", "using", "failing"}
                       => IsTurn(p)

\* Once close() returned, no more command is asked of the server, though one that was
\* asked before may still start there.
NothingAskedAfterClose == [][closed => asked' = asked]_vars

\* Every call is answered.
EveryCallSettles == \A p \in Callers : pc[p] # "idle" ~> pc[p] \in SettledAt

-----------------------------------------------------------------------------
(* What is said of the code and it does not keep: README, section Deviations. *)

\* "One release per acquire, whichever way this ends": a settled call holds none.
SettledHoldsNoSlot == \A p \in Users : pc[p] \in SettledAt => p \notin Holders

\* "The transport is gone; drop it": only close() ends a transport that works.
DropsOnlyGoneTransports ==
    [][\A t \in Transports : tstate[t] = "up" /\ tstate'[t] = "ending" => closed']_vars

\* "Both halves must go at once": no session stays shared for a transport that was dropped.
DropsBothHalves ==
    ~ closed /\ sharedSftp # None => client # None /\ on[sharedSftp] = client

\* "Re-run the command once if the connection drops": it is asked twice at most.
ReRunOnce == \A p \in Users : asked[p] <= 2

\* "One long-lived SFTP session per connection".
OneSftpSession ==
    Cardinality({s \in Sftps : sess[s] = "open" /\ Writable(on[s])}) <= 1

\* What exec and execStream answer for what the stream reported.
ExitCodeFrom(how) == IF how \in {"zero", "undefined"} THEN 0 ELSE -1

\* A command whose transport died under it is not reported as exit code 0.
SuccessMeansFinished ==
    \A p \in Users : pc[p] = "done" /\ ExitCodeFrom(exit[p]) = 0 => exit[p] = "zero"

=============================================================================
