------------------------ MODULE SshConnectionProofs ------------------------
(***************************************************************************)
(* Proofs about SshConnection, for any callers, transports and bounds.     *)
(* Each helper of the specification gets a lemma on the types of what it   *)
(* assigns, and each action a step that combines them.                     *)
(***************************************************************************)
EXTENDS SshConnection, FiniteSetTheorems, TLAPS

USE DEF Users, Callers

-----------------------------------------------------------------------------
(* Values and helpers. *)

\* The strings that occur are of the sets TypeOK names.
LEMMA Values ==
    /\ \A v \in {"idle", "queued", "handed", "granted", "connecting", "ready", "waiting",
                 "finished", "failing", "leaked", "caught", "opened", "done", "failed",
                 "backoff", "chained", "opening", "using"} : v \in Pcs
    /\ \A v \in {"none", "timeout", "refused", "lost", "closed", "gone", "other"} : v \in Errors
    /\ \A v \in {"none", "opening", "asked", "open", "killed"} : v \in Chans
    /\ \A v \in {"none", "zero", "signal", "undefined", "timeout", "error"} : v \in Exits
    /\ \A v \in {"none", "up", "dying", "half", "ending", "closing", "down"} : v \in TStates
    /\ \A v \in {"none", "opening", "open", "ending"} : v \in Sessions
  BY DEF Pcs, HoldingAt, RunnableAt, SettledAt, Errors, Chans, Exits, TStates, Sessions

\* What the two queues yield.
LEMMA QueueTypes ==
    ASSUME TypeOK
    PROVE  /\ <<>> \in Seq(Users)
           /\ \A p \in Users : Append(waiters, p) \in Seq(Users)
           /\ waiters # <<>> => Head(waiters) \in Users /\ Tail(waiters) \in Seq(Users)
           /\ \A p \in Sftps : Append(sftpQueue, p) \in Seq(Sftps)
           /\ sftpQueue # <<>> => Head(sftpQueue) \in Sftps /\ Tail(sftpQueue) \in Seq(Sftps)
  BY DEF TypeOK

\* Raising an error keeps the types of the error fields.
LEMMA ErrorTypes ==
    ASSUME TypeOK, NEW p, NEW e \in Errors
    PROVE  Raise(p, e) \in [Execs -> Errors]
  BY DEF TypeOK, Raise

\* Setting one call's pc keeps the type of the table.
LEMMA PcTypes ==
    ASSUME TypeOK, NEW p, NEW v \in Pcs
    PROVE  [pc EXCEPT ![p] = v] \in [Callers -> Pcs]
  BY DEF TypeOK

\* Where a call goes with an error is one of its program counters.
LEMMA ThrownType == \A p : Thrown(p) \in Pcs
  BY Values DEF Thrown

\* releaseChannel keeps the types of the slots and the queue.
LEMMA ReleaseType ==
    ASSUME TypeOK, NEW p \in Users, NEW next \in Pcs, Release(p, next)
    PROVE  /\ pc' \in [Callers -> Pcs]
           /\ waiters' \in Seq(Users)
           /\ inFlight' \in 0..MaxChannels
<1>1. CASE waiters # <<>>
  <2>1. /\ pc' = [pc EXCEPT ![p] = next, ![Head(waiters)] = "handed"]
        /\ waiters' = Tail(waiters) /\ inFlight' = inFlight
    BY <1>1 DEF Release
  <2> QED BY <1>1, <2>1, Values, QueueTypes DEF TypeOK
<1>2. CASE waiters = <<>>
  <2>1. /\ pc' = [pc EXCEPT ![p] = next] /\ waiters' = waiters
        /\ inFlight' = IF inFlight > 0 THEN inFlight - 1 ELSE inFlight
    BY <1>2 DEF Release
  <2> QED BY <2>1, BoundsAssumption DEF TypeOK
<1> QED BY <1>1, <1>2

\* acquireChannel keeps them too.
LEMMA AcquireType ==
    ASSUME TypeOK, NEW p \in Users, Acquire(p)
    PROVE  /\ pc' \in [Callers -> Pcs] /\ err' \in [Execs -> Errors]
           /\ waiters' \in Seq(Users)
           /\ inFlight' \in 0..MaxChannels
<1>1. pc' \in [Callers -> Pcs]
  <2>1. \E v \in Pcs : pc' = [pc EXCEPT ![p] = v]
    BY Values, ThrownType DEF Acquire
  <2> QED BY <2>1, PcTypes
<1>2. err' \in [Execs -> Errors]
  <2>1. \E e \in Errors : err' = Raise(p, e)
    BY Values DEF Acquire
  <2> QED BY <2>1, ErrorTypes
<1>3. waiters' \in Seq(Users)
  <2>1. waiters' = waiters \/ waiters' = Append(waiters, p)
    BY DEF Acquire, slotVars
  <2>2. waiters \in Seq(Users)
    BY DEF TypeOK
  <2> QED BY <2>1, <2>2, QueueTypes
<1>4. inFlight' \in 0..MaxChannels
  BY BoundsAssumption DEF Acquire, slotVars, TypeOK
<1> QED BY <1>1, <1>2, <1>3, <1>4

\* failWaiters empties the queue and moves its waiters.
LEMMA FailWaitersType ==
    ASSUME TypeOK, NEW pcs \in [Callers -> Pcs], NEW errs \in [Execs -> Errors],
           NEW e \in Errors, FailWaiters(pcs, errs, e)
    PROVE  /\ pc' \in [Callers -> Pcs] /\ err' \in [Execs -> Errors]
           /\ waiters' \in Seq(Users)
<1>1. pc' \in [Callers -> Pcs]
  BY ThrownType DEF FailWaiters
<1>2. err' \in [Execs -> Errors]
  BY DEF FailWaiters
<1>3. waiters' \in Seq(Users)
  BY QueueTypes DEF FailWaiters
<1> QED BY <1>1, <1>2, <1>3

\* ensureClient names a transport that exists, or opens the next.
LEMMA EnsureClientType ==
    ASSUME TypeOK, NEW p \in Callers, EnsureClient(p)
    PROVE  /\ pc' \in [Callers -> Pcs] /\ err' \in [Execs -> Errors]
           /\ on' \in [Callers -> Transports \cup {None}]
           /\ connecting' \in BOOLEAN
<1>1. pc' \in [Callers -> Pcs]
  <2>1. \E v \in Pcs : pc' = [pc EXCEPT ![p] = v]
    BY Values DEF EnsureClient
  <2> QED BY <2>1, PcTypes
<1>2. err' \in [Execs -> Errors]
  <2>1. err' = err \/ \E e \in Errors : err' = Raise(p, e)
    BY Values DEF EnsureClient
  <2> QED BY <2>1, ErrorTypes DEF TypeOK
<1>3. on' \in [Callers -> Transports \cup {None}]
  BY DEF EnsureClient, TypeOK
<1>4. connecting' \in BOOLEAN
  BY DEF EnsureClient, TypeOK
<1> QED BY <1>1, <1>2, <1>3, <1>4

\* dropTransport forgets the transport, whichever it ends.
LEMMA DropTransportType ==
    ASSUME TypeOK, DropTransport
    PROVE  /\ client' \in Transports \cup {None}
           /\ tstate' \in [Transports -> TStates]
           /\ sess' \in [Sftps -> Sessions]
           /\ sharedSftp' \in Sftps \cup {None}
  BY Values DEF DropTransport, TypeOK

-----------------------------------------------------------------------------
(* What each action assigns. *)

\* Steps of one exec or execStream.
LEMMA UserTypes ==
    ASSUME TypeOK, NEW p \in Users
    PROVE  /\ Call(p) => TypeOK'
           /\ Resume(p) => TypeOK'
           /\ Fail(p) => TypeOK'
           /\ Finish(p) => TypeOK'
           /\ Ensure(p) => TypeOK'
           /\ StartExec(p) => TypeOK'
           /\ CommandAsked(p) => TypeOK'
           /\ StreamOpens(p) => TypeOK'
           /\ Timeout(p) => TypeOK'
           /\ StreamErrs(p) => TypeOK'
<1>1. Call(p) => TypeOK'
  <2> SUFFICES ASSUME Call(p) PROVE TypeOK'
    OBVIOUS
  <2>1. Acquire(p) /\ UNCHANGED <<closed, linkVars, workVars, sftpVars>>
    BY DEF Call
  <2>2. pc' \in [Callers -> Pcs] /\ err' \in [Execs -> Errors]
    BY <2>1, AcquireType
  <2>3. waiters' \in Seq(Users) /\ inFlight' \in 0..MaxChannels
    BY <2>1, AcquireType
  <2> QED
    BY <2>1, <2>2, <2>3, Values DEF TypeOK, linkVars, workVars, sftpVars
<1>2. Resume(p) => TypeOK'
  <2> SUFFICES ASSUME Resume(p) PROVE TypeOK'
    OBVIOUS
  <2>1. pc' \in [Callers -> Pcs] /\ waiters' \in Seq(Users) /\ inFlight' \in 0..MaxChannels
    BY Values, ThrownType, PcTypes, ReleaseType DEF Resume, slotVars, TypeOK
  <2>2. err' \in [Execs -> Errors]
    BY Values, ErrorTypes DEF Resume, TypeOK
  <2>3. UNCHANGED <<closed, linkVars, workVars, sftpVars>>
    BY DEF Resume
  <2> QED
    BY <2>1, <2>2, <2>3, Values DEF TypeOK, linkVars, slotVars, workVars, sftpVars
<1>3. Fail(p) => TypeOK'
  <2> SUFFICES ASSUME Fail(p) PROVE TypeOK'
    OBVIOUS
  <2>1. Release(p, Thrown(p)) /\ UNCHANGED <<closed, linkVars, err, workVars, sftpVars>>
    BY DEF Fail
  <2>2. pc' \in [Callers -> Pcs] /\ waiters' \in Seq(Users) /\ inFlight' \in 0..MaxChannels
    BY <2>1, ThrownType, ReleaseType
  <2> QED
    BY <2>1, <2>2, Values DEF TypeOK, linkVars, slotVars, workVars, sftpVars
<1>4. Finish(p) => TypeOK'
  <2> SUFFICES ASSUME Finish(p) PROVE TypeOK'
    OBVIOUS
  <2>1. Release(p, "done") /\ UNCHANGED <<closed, linkVars, err, workVars, sftpVars>>
    BY DEF Finish
  <2>2. pc' \in [Callers -> Pcs] /\ waiters' \in Seq(Users) /\ inFlight' \in 0..MaxChannels
    BY <2>1, Values, ReleaseType
  <2> QED
    BY <2>1, <2>2, Values DEF TypeOK, linkVars, slotVars, workVars, sftpVars
<1>5. Ensure(p) => TypeOK'
  <2> SUFFICES ASSUME Ensure(p) PROVE TypeOK'
    OBVIOUS
  <2>1. EnsureClient(p) /\ UNCHANGED <<closed, client, tstate, slotVars, chan, exit, asked, refused, lost, sftpVars>>
    BY DEF Ensure
  <2>2. pc' \in [Callers -> Pcs] /\ err' \in [Execs -> Errors] /\ on' \in [Callers -> Transports \cup {None}] /\ connecting' \in BOOLEAN
    BY <2>1, EnsureClientType
  <2> QED
    BY <2>1, <2>2, Values DEF TypeOK, linkVars, slotVars, workVars, sftpVars
<1>6. StartExec(p) => TypeOK'
  <2> SUFFICES ASSUME StartExec(p) PROVE TypeOK'
    OBVIOUS
  <2>1. pc' \in [Callers -> Pcs]
    BY Values, PcTypes DEF StartExec
  <2>2. err' \in [Execs -> Errors]
    BY Values, ErrorTypes DEF StartExec, TypeOK
  <2>3. NoChannel(p) \/ (chan' = [chan EXCEPT ![p] = "opening"] /\ on' = on)
    BY DEF StartExec
  <2>4. chan' \in [Users -> Chans]
    BY <2>3, Values DEF NoChannel, TypeOK
  <2>5. on' \in [Callers -> Transports \cup {None}]
    BY <2>3 DEF NoChannel, TypeOK
  <2>6. UNCHANGED <<closed, linkVars, slotVars, exit, asked, refused, lost, sftpVars>>
    BY DEF StartExec
  <2> QED
    BY <2>1, <2>2, <2>3, <2>4, <2>5, <2>6, Values DEF TypeOK, linkVars, slotVars, workVars, sftpVars
<1>7. CommandAsked(p) => TypeOK'
  <2> SUFFICES ASSUME CommandAsked(p) PROVE TypeOK'
    OBVIOUS
  <2> QED
    BY Values DEF TypeOK, linkVars, slotVars, workVars, sftpVars, CommandAsked
<1>8. StreamOpens(p) => TypeOK'
  <2> SUFFICES ASSUME StreamOpens(p) PROVE TypeOK'
    OBVIOUS
  <2> QED
    BY Values DEF TypeOK, linkVars, slotVars, workVars, sftpVars, StreamOpens
<1>9. Timeout(p) => TypeOK'
  <2> SUFFICES ASSUME Timeout(p) PROVE TypeOK'
    OBVIOUS
  <2>1. pc' \in [Callers -> Pcs]
    BY Values, PcTypes DEF Timeout
  <2>2. err' \in [Execs -> Errors]
    BY Values, ErrorTypes DEF Timeout, TypeOK
  <2>3. chan' \in [Users -> Chans] /\ exit' \in [Users -> Exits]
    <3>1. chan' \in [Users -> Chans]
      BY Values DEF Timeout, TypeOK
    <3>2. exit' \in [Users -> Exits]
      BY Values DEF Timeout, TypeOK
    <3> QED BY <3>1, <3>2
  <2>4. UNCHANGED <<closed, linkVars, slotVars, on, asked, refused, lost, sftpVars>>
    BY DEF Timeout
  <2> QED
    BY <2>1, <2>2, <2>3, <2>4, Values DEF TypeOK, linkVars, slotVars, workVars, sftpVars
<1>10. StreamErrs(p) => TypeOK'
  <2> SUFFICES ASSUME StreamErrs(p) PROVE TypeOK'
    OBVIOUS
  <2>1. pc' \in [Callers -> Pcs]
    BY Values, PcTypes DEF StreamErrs
  <2>2. err' \in [Execs -> Errors]
    BY Values, ErrorTypes DEF StreamErrs, TypeOK
  <2>3. chan' \in [Users -> Chans] /\ exit' \in [Users -> Exits] /\ on' \in [Callers -> Transports \cup {None}]
    <3>1. chan' \in [Users -> Chans]
      BY Values DEF StreamErrs, NoChannel, TypeOK
    <3>2. exit' \in [Users -> Exits]
      BY Values DEF StreamErrs, NoChannel, TypeOK
    <3>3. on' \in [Callers -> Transports \cup {None}]
      BY Values DEF StreamErrs, NoChannel, TypeOK
    <3> QED BY <3>1, <3>2, <3>3
  <2>4. UNCHANGED <<closed, linkVars, slotVars, asked, refused, lost, sftpVars>>
    BY DEF StreamErrs
  <2> QED
    BY <2>1, <2>2, <2>3, <2>4, Values DEF TypeOK, linkVars, slotVars, workVars, sftpVars
<1> QED
  BY <1>1, <1>2, <1>3, <1>4, <1>5, <1>6, <1>7, <1>8, <1>9, <1>10

\* The end of a channel.
LEMMA StreamTypes ==
    ASSUME TypeOK, NEW p \in Users
    PROVE  /\ (\E e \in {"refused", "other"} : ExecRefused(p, e)) => TypeOK'
           /\ (\E how \in {"zero", "signal", "undefined"} : StreamCloses(p, how)) => TypeOK'
<1>1. (\E e \in {"refused", "other"} : ExecRefused(p, e)) => TypeOK'
  <2> SUFFICES ASSUME NEW e \in {"refused", "other"}, ExecRefused(p, e) PROVE TypeOK'
    OBVIOUS
  <2>1. pc' \in [Callers -> Pcs]
    BY Values, PcTypes DEF ExecRefused, TypeOK
  <2>2. err' \in [Execs -> Errors]
    BY Values, ErrorTypes DEF ExecRefused, TypeOK
  <2>3. chan' \in [Users -> Chans] /\ on' \in [Callers -> Transports \cup {None}]
    BY Values DEF ExecRefused, NoChannel, TypeOK
  <2>4. UNCHANGED <<closed, linkVars, slotVars, exit, asked, refused, lost, sftpVars>>
    BY DEF ExecRefused
  <2> QED
    BY <2>1, <2>2, <2>3, <2>4, Values DEF TypeOK, linkVars, slotVars, workVars, sftpVars
<1>2. (\E how \in {"zero", "signal", "undefined"} : StreamCloses(p, how)) => TypeOK'
  <2> SUFFICES ASSUME NEW how \in {"zero", "signal", "undefined"}, StreamCloses(p, how) PROVE TypeOK'
    OBVIOUS
  <2>1. pc' \in [Callers -> Pcs]
    BY Values, PcTypes DEF StreamCloses, TypeOK
  <2>2. how \in Exits
    BY Values
  <2>3. exit' \in [Users -> Exits]
    BY <2>2 DEF StreamCloses, TypeOK
  <2>4. chan' \in [Users -> Chans] /\ on' \in [Callers -> Transports \cup {None}]
    BY Values DEF StreamCloses, NoChannel, TypeOK
  <2>5. UNCHANGED <<closed, linkVars, slotVars, err, asked, refused, lost, sftpVars>>
    BY DEF StreamCloses
  <2> QED
    BY <2>1, <2>2, <2>3, <2>4, <2>5, Values DEF TypeOK, linkVars, slotVars, workVars, sftpVars
<1> QED
  BY <1>1, <1>2

\* Steps of execWithRetry.
LEMMA ExecTypes ==
    ASSUME TypeOK, NEW p \in Execs
    PROVE  /\ CatchFinal(p) => TypeOK'
           /\ CatchRefused(p) => TypeOK'
           /\ CatchLost(p) => TypeOK'
           /\ Retry(p) => TypeOK'
<1>1. CatchFinal(p) => TypeOK'
  <2> SUFFICES ASSUME CatchFinal(p) PROVE TypeOK'
    OBVIOUS
  <2>1. pc' \in [Callers -> Pcs]
    BY Values, PcTypes DEF CatchFinal
  <2>2. err' \in [Execs -> Errors]
    BY Values, ErrorTypes DEF CatchFinal, TypeOK
  <2>3. UNCHANGED <<closed, linkVars, slotVars, workVars, sftpVars>>
    BY DEF CatchFinal
  <2> QED
    BY <2>1, <2>2, <2>3, Values DEF TypeOK, linkVars, slotVars, workVars, sftpVars
<1>2. CatchRefused(p) => TypeOK'
  <2> SUFFICES ASSUME CatchRefused(p) PROVE TypeOK'
    OBVIOUS
  <2>1. pc' \in [Callers -> Pcs]
    BY Values, PcTypes DEF CatchRefused
  <2>2. err' \in [Execs -> Errors]
    BY Values, ErrorTypes DEF CatchRefused, TypeOK
  <2>3. refused' \in [Execs -> Nat]
    BY DEF CatchRefused, TypeOK
  <2>4. UNCHANGED <<closed, linkVars, slotVars, on, chan, exit, asked, lost, sftpVars>>
    BY DEF CatchRefused
  <2> QED
    BY <2>1, <2>2, <2>3, <2>4, Values DEF TypeOK, linkVars, slotVars, workVars, sftpVars
<1>3. CatchLost(p) => TypeOK'
  <2> SUFFICES ASSUME CatchLost(p) PROVE TypeOK'
    OBVIOUS
  <2>1. Acquire(p) \/ (pc' = [pc EXCEPT ![p] = "failed"] /\ err' = Raise(p, "none") /\ UNCHANGED slotVars)
    BY DEF CatchLost
  <2>2. "failed" \in Pcs
    BY Values
  <2>3. Acquire(p) => pc' \in [Callers -> Pcs]
    BY AcquireType
  <2>4. [pc EXCEPT ![p] = "failed"] \in [Callers -> Pcs]
    BY <2>2, PcTypes
  <2>5. pc' \in [Callers -> Pcs]
    BY <2>1, <2>3, <2>4
  <2>6. err' \in [Execs -> Errors]
    BY <2>1, Values, ErrorTypes, AcquireType
  <2>7. waiters' \in Seq(Users) /\ inFlight' \in 0..MaxChannels
    BY <2>1, AcquireType DEF slotVars, TypeOK
  <2>8. /\ client' \in Transports \cup {None} /\ tstate' \in [Transports -> TStates]
       /\ sess' \in [Sftps -> Sessions] /\ sharedSftp' \in Sftps \cup {None}
    BY DropTransportType DEF CatchLost
  <2>9. lost' \in [Execs -> Nat]
    BY DEF CatchLost, TypeOK
  <2>10. UNCHANGED <<closed, connecting, on, chan, exit, asked, refused, sftpQueue, sftpUnavailable, held>>
    BY DEF CatchLost
  <2> QED
    BY <2>1, <2>2, <2>3, <2>4, <2>5, <2>6, <2>7, <2>8, <2>9, <2>10, Values DEF TypeOK, linkVars, slotVars, workVars, sftpVars
<1>4. Retry(p) => TypeOK'
  <2> SUFFICES ASSUME Retry(p) PROVE TypeOK'
    OBVIOUS
  <2>1. Acquire(p) /\ UNCHANGED <<closed, linkVars, workVars, sftpVars>>
    BY DEF Retry
  <2>2. pc' \in [Callers -> Pcs] /\ err' \in [Execs -> Errors] /\ waiters' \in Seq(Users) /\ inFlight' \in 0..MaxChannels
    BY <2>1, AcquireType
  <2> QED
    BY <2>1, <2>2, Values DEF TypeOK, linkVars, slotVars, workVars, sftpVars
<1> QED
  BY <1>1, <1>2, <1>3, <1>4

\* Steps of one withSftp, up to its operation.
LEMMA SftpTypes ==
    ASSUME TypeOK, NEW p \in Sftps
    PROVE  /\ CallSftp(p) => TypeOK'
           /\ RunSftp(p) => TypeOK'
           /\ OpenSftp(p) => TypeOK'
           /\ StoreSftp(p) => TypeOK'
           /\ SftpOpens(p) => TypeOK'
           /\ SessionCloses(p) => TypeOK'
<1>1. CallSftp(p) => TypeOK'
  <2> SUFFICES ASSUME CallSftp(p) PROVE TypeOK'
    OBVIOUS
  <2>1. pc' \in [Callers -> Pcs]
    BY Values, PcTypes DEF CallSftp
  <2>2. sftpQueue' \in Seq(Sftps)
    BY QueueTypes DEF CallSftp
  <2>3. UNCHANGED <<closed, linkVars, slotVars, err, workVars, sharedSftp, sftpUnavailable, sess, held>>
    BY DEF CallSftp
  <2> QED
    BY <2>1, <2>2, <2>3, Values DEF TypeOK, linkVars, slotVars, workVars, sftpVars
<1>2. RunSftp(p) => TypeOK'
  <2> SUFFICES ASSUME RunSftp(p) PROVE TypeOK'
    OBVIOUS
  <2>1. \/ EnsureClient(p) /\ held' = held
       \/ /\ \E v \in Pcs : pc' = [pc EXCEPT ![p] = v]
          /\ err' = err \/ err' = Raise(p, "other")
          /\ held' = held \/ held' = sharedSftp
          /\ UNCHANGED <<connecting, on>>
    BY Values DEF RunSftp
  <2>2. pc' \in [Callers -> Pcs]
    BY <2>1, PcTypes, EnsureClientType
  <2>3. err' \in [Execs -> Errors]
    BY <2>1, Values, ErrorTypes, EnsureClientType DEF TypeOK
  <2>4. on' \in [Callers -> Transports \cup {None}] /\ connecting' \in BOOLEAN
    BY <2>1, EnsureClientType DEF TypeOK
  <2>5. held' \in Sftps \cup {None}
    BY <2>1 DEF TypeOK
  <2>6. UNCHANGED <<closed, client, tstate, slotVars, chan, exit, asked, refused, lost, sharedSftp, sftpQueue, sftpUnavailable, sess>>
    BY DEF RunSftp
  <2> QED
    BY <2>1, <2>2, <2>3, <2>4, <2>5, <2>6, Values DEF TypeOK, linkVars, slotVars, workVars, sftpVars
<1>3. OpenSftp(p) => TypeOK'
  <2> SUFFICES ASSUME OpenSftp(p) PROVE TypeOK'
    OBVIOUS
  <2>1. pc' \in [Callers -> Pcs]
    BY Values, PcTypes DEF OpenSftp
  <2>2. err' \in [Execs -> Errors]
    BY Values, ErrorTypes DEF OpenSftp, TypeOK
  <2>3. NoSession(p) \/ (sess' = [sess EXCEPT ![p] = "opening"] /\ on' = on)
    BY DEF OpenSftp
  <2>4. sess' \in [Sftps -> Sessions]
    BY <2>3, Values DEF NoSession, TypeOK
  <2>5. on' \in [Callers -> Transports \cup {None}]
    BY <2>3 DEF NoSession, TypeOK
  <2>6. UNCHANGED <<closed, linkVars, slotVars, chan, exit, asked, refused, lost, sharedSftp, sftpQueue, sftpUnavailable, held>>
    BY DEF OpenSftp
  <2> QED
    BY <2>1, <2>2, <2>3, <2>4, <2>5, <2>6, Values DEF TypeOK, linkVars, slotVars, workVars, sftpVars
<1>4. StoreSftp(p) => TypeOK'
  <2> SUFFICES ASSUME StoreSftp(p) PROVE TypeOK'
    OBVIOUS
  <2> QED
    BY Values DEF TypeOK, linkVars, slotVars, workVars, sftpVars, StoreSftp
<1>5. SftpOpens(p) => TypeOK'
  <2> SUFFICES ASSUME SftpOpens(p) PROVE TypeOK'
    OBVIOUS
  <2> QED
    BY Values DEF TypeOK, linkVars, slotVars, workVars, sftpVars, SftpOpens
<1>6. SessionCloses(p) => TypeOK'
  <2> SUFFICES ASSUME SessionCloses(p) PROVE TypeOK'
    OBVIOUS
  <2> QED
    BY Values DEF TypeOK, linkVars, slotVars, workVars, sftpVars, SessionCloses, NoSession
<1> QED
  BY <1>1, <1>2, <1>3, <1>4, <1>5, <1>6

\* A withSftp that leaves the queue, which is its turn to do.
LEMMA LeaveTypes ==
    ASSUME TypeOK, NEW p \in Sftps, IsTurn(p)
    PROVE  /\ SftpFails(p) => TypeOK'
           /\ SftpDone(p) => TypeOK'
           /\ (\E b \in BOOLEAN : SftpOpFails(p, b)) => TypeOK'
           /\ (\E b \in BOOLEAN : SftpRefused(p, b)) => TypeOK'
<1>1. SftpFails(p) => TypeOK'
  <2> SUFFICES ASSUME SftpFails(p) PROVE TypeOK'
    OBVIOUS
  <2>1. pc' \in [Callers -> Pcs]
    BY Values, PcTypes DEF SftpFails
  <2>2. sftpQueue' \in Seq(Sftps)
    BY QueueTypes DEF SftpFails, LeaveQueue, IsTurn
  <2>3. held' \in Sftps \cup {None} /\ UNCHANGED <<closed, linkVars, slotVars, err, workVars, sharedSftp, sftpUnavailable, sess>>
    BY DEF SftpFails, LeaveQueue
  <2> QED
    BY <2>1, <2>2, <2>3, Values DEF TypeOK, linkVars, slotVars, workVars, sftpVars
<1>2. SftpDone(p) => TypeOK'
  <2> SUFFICES ASSUME SftpDone(p) PROVE TypeOK'
    OBVIOUS
  <2>1. pc' \in [Callers -> Pcs]
    BY Values, PcTypes DEF SftpDone
  <2>2. sftpQueue' \in Seq(Sftps)
    BY QueueTypes DEF SftpDone, LeaveQueue, IsTurn
  <2>3. held' \in Sftps \cup {None} /\ UNCHANGED <<closed, linkVars, slotVars, err, workVars, sharedSftp, sftpUnavailable, sess>>
    BY DEF SftpDone, LeaveQueue
  <2> QED
    BY <2>1, <2>2, <2>3, Values DEF TypeOK, linkVars, slotVars, workVars, sftpVars
<1>3. (\E b \in BOOLEAN : SftpOpFails(p, b)) => TypeOK'
  <2> SUFFICES ASSUME NEW b \in BOOLEAN, SftpOpFails(p, b) PROVE TypeOK'
    OBVIOUS
  <2>1. pc' \in [Callers -> Pcs]
    BY Values, PcTypes DEF SftpOpFails
  <2>2. sftpQueue' \in Seq(Sftps)
    BY QueueTypes DEF SftpOpFails, LeaveQueue, IsTurn
  <2>3. held' \in Sftps \cup {None} /\ UNCHANGED <<closed, linkVars, slotVars, err, workVars, sftpUnavailable>>
    BY DEF SftpOpFails, LeaveQueue
  <2>4. sharedSftp' \in Sftps \cup {None} /\ sess' \in [Sftps -> Sessions]
    BY Values DEF SftpOpFails, TypeOK
  <2> QED
    BY <2>1, <2>2, <2>3, <2>4, Values DEF TypeOK, linkVars, slotVars, workVars, sftpVars
<1>4. (\E b \in BOOLEAN : SftpRefused(p, b)) => TypeOK'
  <2> SUFFICES ASSUME NEW b \in BOOLEAN, SftpRefused(p, b) PROVE TypeOK'
    OBVIOUS
  <2>1. pc' \in [Callers -> Pcs]
    BY Values, PcTypes DEF SftpRefused
  <2>2. err' \in [Execs -> Errors]
    BY Values, ErrorTypes DEF SftpRefused, TypeOK
  <2>3. sess' \in [Sftps -> Sessions] /\ on' \in [Callers -> Transports \cup {None}] /\ sftpUnavailable' \in BOOLEAN
    BY Values DEF SftpRefused, NoSession, TypeOK
  <2>4. UNCHANGED <<closed, linkVars, slotVars, chan, exit, asked, refused, lost, sharedSftp, sftpQueue, held>>
    BY DEF SftpRefused
  <2> QED
    BY <2>1, <2>2, <2>3, <2>4, Values DEF TypeOK, linkVars, slotVars, workVars, sftpVars
<1> QED
  BY <1>1, <1>2, <1>3, <1>4

\* Steps of a transport.
LEMMA TransportTypes ==
    ASSUME TypeOK, NEW t \in Transports
    PROVE  /\ Connected(t) => TypeOK'
           /\ TransportDies(t) => TypeOK'
           /\ TransportEnd(t) => TypeOK'
<1>1. Connected(t) => TypeOK'
  <2> SUFFICES ASSUME Connected(t) PROVE TypeOK'
    OBVIOUS
  <2>1. pc' \in [Callers -> Pcs] /\ err' \in [Execs -> Errors] /\ on' \in [Callers -> Transports \cup {None}]
    <3>1. pc' \in [Callers -> Pcs]
      BY Values DEF Connected, Resolved, TypeOK
    <3>2. err' \in [Execs -> Errors]
      BY Values DEF Connected, Resolved, TypeOK
    <3>3. on' \in [Callers -> Transports \cup {None}]
      BY Values DEF Connected, Resolved, TypeOK
    <3> QED BY <3>1, <3>2, <3>3
  <2>2. client' \in Transports \cup {None} /\ connecting' \in BOOLEAN
    BY DEF Connected, TypeOK
  <2>3. tstate' \in [Transports -> TStates]
    BY Values DEF Connected, TypeOK
  <2>4. UNCHANGED <<closed, slotVars, chan, exit, asked, refused, lost, sftpVars>>
    BY DEF Connected
  <2> QED
    BY <2>1, <2>2, <2>3, <2>4, Values DEF TypeOK, linkVars, slotVars, workVars, sftpVars
<1>2. TransportDies(t) => TypeOK'
  <2> SUFFICES ASSUME TransportDies(t) PROVE TypeOK'
    OBVIOUS
  <2> QED
    BY Values DEF TypeOK, linkVars, slotVars, workVars, sftpVars, TransportDies
<1>3. TransportEnd(t) => TypeOK'
  <2> SUFFICES ASSUME TransportEnd(t) PROVE TypeOK'
    OBVIOUS
  <2>1. FailWaiters(pc, err, "gone") /\ inFlight' = inFlight
    BY DEF TransportEnd, OnGone
  <2>2. pc' \in [Callers -> Pcs] /\ err' \in [Execs -> Errors] /\ waiters' \in Seq(Users)
    BY <2>1, Values, FailWaitersType DEF TypeOK
  <2>3. /\ client' \in Transports \cup {None} /\ sharedSftp' \in Sftps \cup {None}
       /\ tstate' \in [Transports -> TStates]
    BY Values DEF TransportEnd, OnGone, SessionLeft, TypeOK
  <2>4. UNCHANGED <<closed, connecting, workVars, sftpQueue, sftpUnavailable, sess, held>>
    BY DEF TransportEnd
  <2> QED
    BY <2>1, <2>2, <2>3, <2>4, Values DEF TypeOK, linkVars, slotVars, workVars, sftpVars
<1> QED
  BY <1>1, <1>2, <1>3

\* A failed reconnect, and close().
LEMMA ConnectTypes ==
    ASSUME TypeOK, NEW e \in {"lost", "other"}
    PROVE  /\ ConnectFailed(e) => TypeOK'
           /\ Close => TypeOK'
<1>1. ConnectFailed(e) => TypeOK'
  <2> SUFFICES ASSUME ConnectFailed(e) PROVE TypeOK'
    OBVIOUS
  <2>1. pc' \in [Callers -> Pcs] /\ err' \in [Execs -> Errors] /\ connecting' \in BOOLEAN
    BY Values DEF ConnectFailed, Resolved, TypeOK
  <2>2. UNCHANGED <<closed, client, tstate, slotVars, workVars, sftpVars>>
    BY DEF ConnectFailed
  <2> QED
    BY <2>1, <2>2, Values DEF TypeOK, linkVars, slotVars, workVars, sftpVars
<1>2. Close => TypeOK'
  <2> SUFFICES ASSUME Close PROVE TypeOK'
    OBVIOUS
  <2>1. FailWaiters(pc, err, "closed") /\ DropTransport
    BY DEF Close
  <2>2. pc' \in [Callers -> Pcs] /\ err' \in [Execs -> Errors] /\ waiters' \in Seq(Users)
    BY <2>1, Values, FailWaitersType DEF TypeOK
  <2>3. /\ client' \in Transports \cup {None} /\ tstate' \in [Transports -> TStates]
       /\ sess' \in [Sftps -> Sessions] /\ sharedSftp' \in Sftps \cup {None}
    BY <2>1, DropTransportType
  <2>4. closed' \in BOOLEAN /\ inFlight' \in 0..MaxChannels
    BY BoundsAssumption DEF Close
  <2>5. UNCHANGED <<connecting, workVars, sftpQueue, sftpUnavailable, held>>
    BY DEF Close
  <2> QED
    BY <2>1, <2>2, <2>3, <2>4, <2>5, Values DEF TypeOK, linkVars, slotVars, workVars, sftpVars
<1> QED
  BY <1>1, <1>2

\* The close event of a transport.
LEMMA TransportCloseType ==
    ASSUME TypeOK, NEW t \in Transports, TransportClose(t)
    PROVE  TypeOK'
<1> DEFINE hit(p) == p \in Users /\ on[p] = t /\ Live(p)
           mine(p) == p \in Sftps /\ on[p] = t
           woken(p) == CASE hit(p) /\ pc[p] = "waiting" /\ Opening(p) -> "failing"
                         [] hit(p) /\ pc[p] = "waiting" /\ ~ Opening(p) -> "finished"
                         [] mine(p) /\ pc[p] = "opening" -> "failing"
                         [] OTHER -> pc[p]
           pcs == [p \in Callers |-> woken(p)]
           errs == [p \in Execs |-> IF hit(p) /\ woken(p) = "failing" THEN "lost" ELSE err[p]]
<1>1. pcs \in [Callers -> Pcs]
  <2>1. ASSUME NEW p \in Callers PROVE woken(p) \in Pcs
    <3>1. pc[p] \in Pcs
      BY DEF TypeOK
    <3> QED BY <3>1, Values
  <2> HIDE DEF woken
  <2> QED BY <2>1
<1>2. errs \in [Execs -> Errors]
  <2>1. ASSUME NEW p \in Execs PROVE err[p] \in Errors
    BY DEF TypeOK
  <2> HIDE DEF woken, hit
  <2> QED BY <2>1, Values
<1>3. FailWaiters(pcs, errs, "gone") /\ inFlight' = inFlight
  BY DEF TransportClose, OnGone
<1>4. pc' \in [Callers -> Pcs] /\ err' \in [Execs -> Errors] /\ waiters' \in Seq(Users)
  <2> HIDE DEF pcs, errs
  <2> QED BY <1>1, <1>2, <1>3, Values, FailWaitersType
<1>5. client' \in Transports \cup {None} /\ sharedSftp' \in Sftps \cup {None}
  BY DEF TransportClose, OnGone, SessionLeft, TypeOK
<1>6. tstate' \in [Transports -> TStates] /\ chan' \in [Users -> Chans]
  BY Values DEF TransportClose, TypeOK
<1>7. exit' \in [Users -> Exits]
  <2> HIDE DEF woken, hit
  <2>1. exit' = [p \in Users |-> IF hit(p) /\ woken(p) = "finished" THEN "undefined" ELSE exit[p]]
    BY DEF TransportClose, woken, hit
  <2> QED BY <2>1, Values DEF TypeOK
<1>8. on' \in [Callers -> Transports \cup {None}] /\ sess' \in [Sftps -> Sessions]
  BY Values DEF TransportClose, TypeOK
<1>9. UNCHANGED <<closed, connecting, asked, refused, lost, sftpQueue, sftpUnavailable, held>>
  BY DEF TransportClose
<1> QED
  BY <1>3, <1>4, <1>5, <1>6, <1>7, <1>8, <1>9 DEF TypeOK

-----------------------------------------------------------------------------
(* The slots.  Each step of the connection does one of four things to them: *)
(* nothing, an acquire, a release, or failing the queue.                    *)

\* The invariant, with the waiters tied to the program counters.
SlotInv ==
    /\ WaitersAreQueued
    /\ ~ closed => inFlight = Cardinality(Holders)
    /\ NoIdleSlotWhileQueued

HeldOrQueued == HoldingAt \cup {"queued"}
SemStep == [Slots!Next]_(Slots!semVars)

\* The holders are finitely many.
LEMMA HoldersFinite == IsFiniteSet(Holders) /\ Cardinality(Holders) \in Nat
  BY CallersAssumption, FS_Subset, FS_CardinalityType DEF Holders

\* The instance of the abstract module has a Cardinality of its own.
LEMMA SameCardinality == Slots!Cardinality(Holders) = Cardinality(Holders)
  BY DEF Cardinality, Slots!Cardinality

\* No change: every call stays on its side.
SameSide(f, g) ==
    \A p \in Users : /\ f[p] \in HoldingAt <=> g[p] \in HoldingAt
                     /\ f[p] = "queued" <=> g[p] = "queued"

\* A step that leaves the holders and the queue alone is a stutter.
LEMMA SlotsUnchanged ==
    ASSUME SlotInv, UNCHANGED <<closed, slotVars>>, SameSide(pc', pc)
    PROVE  SlotInv' /\ SemStep
<1>1. Holders' = Holders
  BY DEF Holders, SameSide
<1>2. waiters' = waiters /\ inFlight' = inFlight /\ closed' = closed
  BY DEF slotVars
<1>3. WaitersAreQueued'
  BY <1>2 DEF SlotInv, SameSide, WaitersAreQueued, Queued
<1>4. (~ closed => inFlight = Cardinality(Holders))' /\ NoIdleSlotWhileQueued'
  BY <1>1, <1>2 DEF SlotInv, NoIdleSlotWhileQueued
<1>5. UNCHANGED Slots!semVars
  BY <1>1, <1>2 DEF Slots!semVars
<1> QED BY <1>3, <1>4, <1>5 DEF SlotInv, SemStep

\* acquireChannel, by a call that neither holds nor waits.
LEMMA SlotsAcquired ==
    ASSUME TypeOK, SlotInv, NEW p \in Users, pc[p] \notin HeldOrQueued,
           Acquire(p), closed' = closed
    PROVE  SlotInv' /\ SemStep
<1>1. CASE closed
  <2>1. UNCHANGED <<closed, slotVars>> /\ pc' = [pc EXCEPT ![p] = Thrown(p)]
    BY <1>1 DEF Acquire
  <2>2. SameSide(pc', pc)
    BY <2>1 DEF SameSide, HeldOrQueued, HoldingAt, Thrown, TypeOK
  <2> QED BY <2>1, <2>2, SlotsUnchanged
<1>2. CASE ~ closed /\ inFlight < MaxChannels
  <2>1. /\ pc' = [pc EXCEPT ![p] = "granted"]
        /\ inFlight' = inFlight + 1 /\ waiters' = waiters
    BY <1>2, BoundsAssumption DEF Acquire, TypeOK
  <2>2. waiters = <<>>
    BY <1>2, BoundsAssumption DEF SlotInv, NoIdleSlotWhileQueued, TypeOK
  <2>3. Holders' = Holders \cup {p} /\ p \notin Holders
    BY <2>1 DEF Holders, HeldOrQueued, HoldingAt, TypeOK
  <2>4. Cardinality(Holders') = Cardinality(Holders) + 1
    BY <2>3, HoldersFinite, FS_AddElement
  <2>5. WaitersAreQueued'
    <3>1. \A q \in Users : pc'[q] = "queued" <=> pc[q] = "queued"
      BY <2>1 DEF HeldOrQueued, TypeOK
    <3> QED BY <2>1, <3>1 DEF SlotInv, WaitersAreQueued, Queued
  <2>6. inFlight = Cardinality(Holders)
    BY <1>2 DEF SlotInv
  <2>7. (~ closed => inFlight = Cardinality(Holders))' /\ NoIdleSlotWhileQueued'
    BY <2>1, <2>2, <2>4, <2>6 DEF NoIdleSlotWhileQueued
  <2>8. Slots!Take(p)
    <3>1. Cardinality(Holders) < MaxChannels
      BY <1>2, <2>6
    <3>2. UNCHANGED <<waiters, closed>>
      BY <2>1
    <3> QED BY <1>2, <2>2, <2>3, <3>1, <3>2, SameCardinality DEF Slots!Take
  <2> QED BY <2>5, <2>7, <2>8 DEF SlotInv, SemStep, Slots!Next
<1>3. CASE ~ closed /\ inFlight >= MaxChannels
  <2>1. /\ pc' = [pc EXCEPT ![p] = "queued"]
        /\ waiters' = Append(waiters, p) /\ inFlight' = inFlight
    BY <1>3, BoundsAssumption DEF Acquire, TypeOK
  <2>2. Holders' = Holders /\ p \notin Holders
    BY <2>1 DEF Holders, HeldOrQueued, HoldingAt, TypeOK
  <2>3. inFlight = MaxChannels /\ inFlight = Cardinality(Holders)
    BY <1>3, BoundsAssumption DEF SlotInv, TypeOK
  <2>4. ~ Queued(p)
    BY DEF SlotInv, WaitersAreQueued, HeldOrQueued
  <2>5. /\ Len(waiters') = Len(waiters) + 1 /\ waiters'[Len(waiters) + 1] = p
        /\ \A i \in 1..Len(waiters) : waiters'[i] = waiters[i]
        /\ DOMAIN waiters = 1..Len(waiters) /\ DOMAIN waiters' = 1..(Len(waiters) + 1)
        /\ Len(waiters) \in Nat
    BY <2>1 DEF TypeOK
  <2>6. WaitersAreQueued'
    <3>1. \A q \in Users : Queued(q)' <=> Queued(q) \/ q = p
      BY <2>5 DEF Queued
    <3>2. \A q \in Users : pc'[q] = "queued" <=> pc[q] = "queued" \/ q = p
      BY <2>1 DEF TypeOK
    <3>3. \A q \in Users : pc'[q] = "queued" <=> Queued(q)'
      BY <3>1, <3>2 DEF SlotInv, WaitersAreQueued
    <3>4. \A i, j \in DOMAIN waiters' : i # j => waiters'[i] # waiters'[j]
      BY <2>4, <2>5 DEF SlotInv, WaitersAreQueued, Queued
    <3> QED BY <3>3, <3>4 DEF WaitersAreQueued
  <2>7. (~ closed => inFlight = Cardinality(Holders))' /\ NoIdleSlotWhileQueued'
    BY <1>3, <2>1, <2>2, <2>3 DEF NoIdleSlotWhileQueued
  <2>8. ~ Slots!Waits(p)
    BY <2>4 DEF Queued, Slots!Waits
  <2>9. Slots!Wait(p)
    <3>1. Cardinality(Holders) = MaxChannels
      BY <2>3
    <3>2. UNCHANGED <<Holders, closed>>
      BY <2>2
    <3> QED BY <1>3, <2>1, <2>2, <2>8, <3>1, <3>2, SameCardinality DEF Slots!Wait
  <2> QED BY <2>6, <2>7, <2>9 DEF SlotInv, SemStep, Slots!Next
<1> QED BY <1>1, <1>2, <1>3, BoundsAssumption DEF TypeOK

\* releaseChannel, by a call that holds a slot.
LEMMA SlotsReleased ==
    ASSUME TypeOK, SlotInv, NEW p \in Users, pc[p] \in HoldingAt,
           NEW next \in Pcs \ HeldOrQueued, Release(p, next), closed' = closed
    PROVE  SlotInv' /\ SemStep
<1>1. p \in Holders
  BY DEF Holders
<1>2. CASE waiters = <<>>
  <2>1. /\ pc' = [pc EXCEPT ![p] = next] /\ waiters' = waiters
        /\ inFlight' = IF inFlight > 0 THEN inFlight - 1 ELSE inFlight
    BY <1>2 DEF Release
  <2>2. Holders' = Holders \ {p}
    BY <2>1 DEF Holders, HeldOrQueued, TypeOK
  <2>3. Cardinality(Holders') = Cardinality(Holders) - 1
    BY <1>1, <2>2, HoldersFinite, FS_RemoveElement
  <2>4. Cardinality(Holders) > 0
    BY <1>1, HoldersFinite, FS_EmptySet
  <2>5. WaitersAreQueued'
    <3>1. \A q \in Users : pc'[q] = "queued" <=> pc[q] = "queued"
      BY <2>1 DEF HeldOrQueued, HoldingAt, TypeOK
    <3> QED BY <2>1, <3>1 DEF SlotInv, WaitersAreQueued, Queued
  <2>6. (~ closed => inFlight = Cardinality(Holders))'
    BY <2>1, <2>3, <2>4, HoldersFinite DEF SlotInv
  <2>7. NoIdleSlotWhileQueued'
    BY <1>2, <2>1 DEF NoIdleSlotWhileQueued
  <2>8. Slots!Return(p)
    BY <1>1, <1>2, <2>1, <2>2 DEF Slots!Return
  <2> QED BY <2>5, <2>6, <2>7, <2>8 DEF SlotInv, SemStep, Slots!Next
<1>3. CASE waiters # <<>>
  <2> DEFINE h == Head(waiters)
  <2>1. /\ pc' = [pc EXCEPT ![p] = next, ![h] = "handed"]
        /\ waiters' = Tail(waiters) /\ inFlight' = inFlight
    BY <1>3 DEF Release
  <2>2. /\ Len(waiters) \in Nat \ {0} /\ h = waiters[1] /\ h \in Users
        /\ DOMAIN waiters = 1..Len(waiters) /\ DOMAIN waiters' = 1..(Len(waiters) - 1)
        /\ \A i \in 1..(Len(waiters) - 1) : waiters'[i] = waiters[i + 1]
    BY <1>3, <2>1 DEF TypeOK
  <2>3. pc[h] = "queued"
    BY <2>2 DEF SlotInv, WaitersAreQueued, Queued
  <2>4. p # h /\ h \notin Holders
    BY <2>3 DEF Holders, HoldingAt
  <2> HIDE DEF h
  <2>5. Holders' = (Holders \ {p}) \cup {h}
    BY <2>1, <2>2, <2>4 DEF Holders, HeldOrQueued, HoldingAt, TypeOK
  <2>6. Cardinality(Holders') = Cardinality(Holders)
    <3>1. IsFiniteSet(Holders \ {p}) /\ Cardinality(Holders \ {p}) = Cardinality(Holders) - 1
      BY <1>1, HoldersFinite, FS_RemoveElement
    <3>2. Cardinality(Holders') = Cardinality(Holders \ {p}) + 1
      BY <2>4, <2>5, <3>1, FS_AddElement
    <3> QED BY <3>1, <3>2, HoldersFinite
  <2>7. WaitersAreQueued'
    <3>1. \A q \in Users : pc'[q] = "queued" <=> pc[q] = "queued" /\ q # h
      BY <2>1, <2>2, <2>4 DEF HeldOrQueued, HoldingAt, TypeOK
    <3>2. \A q \in Users : Queued(q)' => Queued(q) /\ q # h
      <4> SUFFICES ASSUME NEW q \in Users, NEW i \in 1..(Len(waiters) - 1), waiters'[i] = q
                   PROVE  Queued(q) /\ q # h
        BY <2>2 DEF Queued
      <4>1. i + 1 \in DOMAIN waiters /\ 1 \in DOMAIN waiters /\ i + 1 # 1 /\ waiters[i + 1] = q
        BY <2>2
      <4> QED BY <2>2, <4>1 DEF SlotInv, WaitersAreQueued, Queued
    <3>3. \A q \in Users : Queued(q) /\ q # h => Queued(q)'
      <4> SUFFICES ASSUME NEW q \in Users, q # h, NEW i \in 1..Len(waiters), waiters[i] = q
                   PROVE  Queued(q)'
        BY <2>2 DEF Queued
      <4>1. i # 1
        BY <2>2
      <4>2. i - 1 \in 1..(Len(waiters) - 1) /\ (i - 1) + 1 = i
        BY <2>2, <4>1
      <4> QED BY <2>2, <4>2 DEF Queued
    <3>4. \A q \in Users : pc'[q] = "queued" <=> Queued(q)'
      BY <3>1, <3>2, <3>3 DEF SlotInv, WaitersAreQueued
    <3>5. \A i, j \in DOMAIN waiters' : i # j => waiters'[i] # waiters'[j]
      <4> SUFFICES ASSUME NEW i \in 1..(Len(waiters) - 1), NEW j \in 1..(Len(waiters) - 1), i # j
                   PROVE  waiters'[i] # waiters'[j]
        BY <2>2
      <4>1. i + 1 \in DOMAIN waiters /\ j + 1 \in DOMAIN waiters /\ i + 1 # j + 1
        BY <2>2
      <4> QED BY <2>2, <4>1 DEF SlotInv, WaitersAreQueued
    <3> QED BY <3>4, <3>5 DEF WaitersAreQueued
  <2>8. ~ closed /\ inFlight = MaxChannels /\ inFlight = Cardinality(Holders)
    BY <1>3 DEF SlotInv, NoIdleSlotWhileQueued
  <2>9. (~ closed => inFlight = Cardinality(Holders))' /\ NoIdleSlotWhileQueued'
    BY <2>1, <2>6, <2>8 DEF NoIdleSlotWhileQueued
  <2>10. Slots!Give(p)
    BY <1>1, <1>3, <2>1, <2>5 DEF Slots!Give, h
  <2> QED BY <2>7, <2>9, <2>10 DEF SlotInv, SemStep, Slots!Next
<1> QED BY <1>2, <1>3

\* failWaiters, whatever else the step does to the calls.
LEMMA QueueFailed ==
    ASSUME TypeOK, SlotInv, NEW pcs \in [Callers -> Pcs], NEW errs, NEW e,
           SameSide(pcs, pc), FailWaiters(pcs, errs, e),
           \/ closed' = closed /\ inFlight' = inFlight
           \/ closed' = TRUE
    PROVE  SlotInv' /\ SemStep
<1>1. waiters' = <<>> /\ DOMAIN waiters' = {}
  BY DEF FailWaiters
<1>2. \A q \in Users : pc'[q] = IF Queued(q) THEN Thrown(q) ELSE pcs[q]
  BY DEF FailWaiters
<1>3. \A q \in Users : Thrown(q) \notin HeldOrQueued
  BY DEF Thrown, HeldOrQueued, HoldingAt
<1>4. \A q \in Users : Queued(q) => pc[q] = "queued" /\ pc[q] \notin HoldingAt
  BY DEF SlotInv, WaitersAreQueued, HoldingAt
<1>5. Holders' = Holders
  BY <1>2, <1>3, <1>4 DEF Holders, SameSide, HeldOrQueued
<1>6. \A q \in Users : pc'[q] # "queued"
  BY <1>2, <1>3 DEF SameSide, HeldOrQueued, SlotInv, WaitersAreQueued
<1>7. WaitersAreQueued'
  BY <1>1, <1>6 DEF WaitersAreQueued, Queued
<1>8. (~ closed => inFlight = Cardinality(Holders))' /\ NoIdleSlotWhileQueued'
  BY <1>1, <1>5 DEF SlotInv, NoIdleSlotWhileQueued
<1>9. Slots!FailQueue \/ Slots!Shut
  BY <1>1, <1>5 DEF Slots!FailQueue, Slots!Shut
<1> QED BY <1>7, <1>8, <1>9 DEF SlotInv, SemStep, Slots!Next

-----------------------------------------------------------------------------
(* Every step of the connection is one of the four. *)

\* Every step of an exec or execStream is a step of the semaphore.
LEMMA UserSlots ==
    ASSUME TypeOK, SlotInv, NEW p \in Users, Call(p) \/ UserStep(p) \/ ServerStep(p) \/ Timeout(p)
    PROVE  SlotInv' /\ SemStep
<1>1. CASE Call(p)
  <2>1. pc[p] \notin HeldOrQueued /\ Acquire(p) /\ closed' = closed
    BY <1>1 DEF Call, HeldOrQueued, HoldingAt
  <2> QED BY <2>1, SlotsAcquired
<1>2. CASE Resume(p) /\ closed
  <2>1. Thrown(p) \in Pcs \ HeldOrQueued
    BY ThrownType DEF Thrown, HeldOrQueued, HoldingAt
  <2>2. pc[p] \in HoldingAt /\ Release(p, Thrown(p)) /\ closed' = closed
    BY <1>2 DEF Resume, HoldingAt
  <2> QED BY <2>1, <2>2, SlotsReleased
<1>3. CASE Fail(p)
  <2>1. Thrown(p) \in Pcs \ HeldOrQueued
    BY ThrownType DEF Thrown, HeldOrQueued, HoldingAt
  <2>2. pc[p] \in HoldingAt /\ Release(p, Thrown(p)) /\ closed' = closed
    BY <1>3 DEF Fail, HoldingAt
  <2> QED BY <2>1, <2>2, SlotsReleased
<1>4. CASE Finish(p)
  <2>1. "done" \in Pcs \ HeldOrQueued
    BY Values DEF HeldOrQueued, HoldingAt
  <2>2. pc[p] \in HoldingAt /\ Release(p, "done") /\ closed' = closed
    BY <1>4 DEF Finish, HoldingAt
  <2> QED BY <2>1, <2>2, SlotsReleased
<1>5. ASSUME UNCHANGED <<closed, slotVars>>, NEW v \in HoldingAt, pc[p] \in HoldingAt,
             pc' = [pc EXCEPT ![p] = v] \/ pc' = pc
      PROVE  SlotInv' /\ SemStep
  <2>1. SameSide(pc', pc)
    BY <1>5 DEF SameSide, HoldingAt, TypeOK
  <2> QED BY <1>5, <2>1, SlotsUnchanged
<1>6. CASE Resume(p) /\ ~ closed
  <2>1. /\ UNCHANGED <<closed, slotVars>> /\ pc[p] \in HoldingAt /\ "granted" \in HoldingAt
        /\ pc' = [pc EXCEPT ![p] = "granted"]
    BY <1>6 DEF Resume, HoldingAt
  <2> QED BY <1>5, <2>1
<1>7. CASE Ensure(p)
  <2>1. /\ UNCHANGED <<closed, slotVars>> /\ pc[p] \in HoldingAt
        /\ \E v \in {"failing", "ready", "connecting"} : pc' = [pc EXCEPT ![p] = v]
    BY <1>7 DEF Ensure, EnsureClient, HoldingAt
  <2> QED BY <1>5, <2>1 DEF HoldingAt
<1>8. CASE StartExec(p)
  <2>1. /\ UNCHANGED <<closed, slotVars>> /\ pc[p] \in HoldingAt
        /\ \E v \in {"waiting", "leaked", "failing"} : pc' = [pc EXCEPT ![p] = v]
    BY <1>8 DEF StartExec, HoldingAt
  <2> QED BY <1>5, <2>1 DEF HoldingAt
<1>9. CASE CommandAsked(p) \/ StreamOpens(p)
  <2>1. UNCHANGED <<closed, slotVars, pc>>
    BY <1>9 DEF CommandAsked, StreamOpens
  <2> QED BY <2>1, SlotsUnchanged DEF SameSide
<1>10. CASE \/ StreamErrs(p) \/ Timeout(p)
            \/ \E e \in {"refused", "other"} : ExecRefused(p, e)
            \/ \E how \in {"zero", "signal", "undefined"} : StreamCloses(p, how)
  <2>1. /\ UNCHANGED <<closed, slotVars>>
        /\ \/ pc[p] = "waiting" /\ \E v \in {"failing", "finished"} : pc' = [pc EXCEPT ![p] = v]
           \/ pc' = pc
    BY <1>10 DEF StreamErrs, Timeout, ExecRefused, StreamCloses
  <2>2. CASE pc' = pc
    BY <2>1, <2>2, SlotsUnchanged DEF SameSide
  <2>3. CASE pc[p] = "waiting" /\ \E v \in {"failing", "finished"} : pc' = [pc EXCEPT ![p] = v]
    BY <1>5, <2>1, <2>3 DEF HoldingAt
  <2> QED BY <2>1, <2>2, <2>3
<1> QED
  BY <1>1, <1>2, <1>3, <1>4, <1>6, <1>7, <1>8, <1>9, <1>10 DEF UserStep, ServerStep

\* So is every step of execWithRetry.
LEMMA ExecSlots ==
    ASSUME TypeOK, SlotInv, NEW p \in Execs, ExecStep(p) \/ Retry(p)
    PROVE  SlotInv' /\ SemStep
<1>1. CASE Retry(p) \/ (CatchLost(p) /\ Acquire(p))
  <2>1. pc[p] \notin HeldOrQueued /\ Acquire(p) /\ closed' = closed
    BY <1>1 DEF Retry, CatchLost, HeldOrQueued, HoldingAt
  <2> QED BY <2>1, SlotsAcquired
<1>2. CASE CatchFinal(p) \/ CatchRefused(p) \/ (CatchLost(p) /\ ~ Acquire(p))
  <2>1. /\ UNCHANGED <<closed, slotVars>> /\ pc[p] = "caught"
        /\ \E v \in {"failed", "backoff"} : pc' = [pc EXCEPT ![p] = v]
    BY <1>2 DEF CatchFinal, CatchRefused, CatchLost
  <2>2. SameSide(pc', pc)
    BY <2>1 DEF SameSide, HoldingAt, TypeOK
  <2> QED BY <2>1, <2>2, SlotsUnchanged
<1> QED BY <1>1, <1>2 DEF ExecStep

\* A withSftp call is no user of slots.
LEMMA SftpSlots ==
    ASSUME TypeOK, SlotInv, NEW p \in Sftps, CallSftp(p) \/ SftpStep(p) \/ SftpServerStep(p)
    PROVE  SlotInv' /\ SemStep
<1>1. UNCHANGED <<closed, slotVars>>
  BY DEF SftpStep, SftpServerStep, CallSftp, RunSftp, OpenSftp, StoreSftp, SftpFails,
         SftpOpens, SftpDone, SessionCloses, SftpRefused, SftpOpFails
<1>2. pc' = pc \/ \E v : pc' = [pc EXCEPT ![p] = v]
  BY DEF SftpStep, SftpServerStep, CallSftp, RunSftp, EnsureClient, OpenSftp, StoreSftp,
         SftpFails, SftpOpens, SftpDone, SessionCloses, SftpRefused, SftpOpFails
<1>3. \A q \in Users : pc'[q] = pc[q]
  BY <1>2, CallersAssumption DEF TypeOK
<1> QED BY <1>1, <1>3, SlotsUnchanged DEF SameSide

\* The end of a transport fails the waiters or changes no slot.
LEMMA TransportSlots ==
    ASSUME TypeOK, SlotInv, NEW t \in Transports, TransportStep(t)
    PROVE  SlotInv' /\ SemStep
<1>1. CASE TransportDies(t)
  BY <1>1, SlotsUnchanged DEF TransportDies, SameSide
<1>2. CASE TransportEnd(t)
  <2>1. FailWaiters(pc, err, "gone") /\ closed' = closed /\ inFlight' = inFlight
    BY <1>2 DEF TransportEnd, OnGone
  <2>2. SameSide(pc, pc) /\ pc \in [Callers -> Pcs]
    BY DEF SameSide, TypeOK
  <2> QED BY <2>1, <2>2, QueueFailed
<1>3. CASE TransportClose(t)
  <2>1. PICK pcs, errs :
           /\ FailWaiters(pcs, errs, "gone") /\ closed' = closed /\ inFlight' = inFlight
           /\ pcs = [p \in Callers |-> pcs[p]]
           /\ \A p \in Callers : \/ pcs[p] = pc[p]
                                 \/ pc[p] = "waiting" /\ pcs[p] \in {"failing", "finished"}
                                 \/ pc[p] = "opening" /\ pcs[p] = "failing" /\ p \in Sftps
    <3> DEFINE hit(p) == p \in Users /\ on[p] = t /\ Live(p)
               mine(p) == p \in Sftps /\ on[p] = t
               woken(p) == CASE hit(p) /\ pc[p] = "waiting" /\ Opening(p) -> "failing"
                             [] hit(p) /\ pc[p] = "waiting" /\ ~ Opening(p) -> "finished"
                             [] mine(p) /\ pc[p] = "opening" -> "failing"
                             [] OTHER -> pc[p]
               ps == [p \in Callers |-> woken(p)]
               es == [p \in Execs |-> IF hit(p) /\ woken(p) = "failing" THEN "lost" ELSE err[p]]
    <3>1. FailWaiters(ps, es, "gone") /\ closed' = closed /\ inFlight' = inFlight
      BY <1>3 DEF TransportClose, OnGone
    <3>2. \A p \in Callers : \/ ps[p] = pc[p]
                             \/ pc[p] = "waiting" /\ ps[p] \in {"failing", "finished"}
                             \/ pc[p] = "opening" /\ ps[p] = "failing" /\ p \in Sftps
      <4> SUFFICES ASSUME NEW p \in Callers
                   PROVE  \/ woken(p) = pc[p]
                          \/ pc[p] = "waiting" /\ woken(p) \in {"failing", "finished"}
                          \/ pc[p] = "opening" /\ woken(p) = "failing" /\ p \in Sftps
        OBVIOUS
      <4> QED OBVIOUS
    <3>3. ps = [p \in Callers |-> ps[p]]
      OBVIOUS
    <3> HIDE DEF ps, es
    <3> QED BY <3>1, <3>2, <3>3
  <2>2. pcs \in [Callers -> Pcs]
    BY <2>1, Values DEF TypeOK
  <2>3. SameSide(pcs, pc)
    BY <2>1, CallersAssumption DEF SameSide, HoldingAt
  <2> QED BY <2>1, <2>2, <2>3, QueueFailed
<1> QED BY <1>1, <1>2, <1>3 DEF TransportStep

\* A failed reconnect touches no slot.
LEMMA ConnectSlots ==
    ASSUME TypeOK, SlotInv, ConnectSettles
    PROVE  SlotInv' /\ SemStep
<1>1. UNCHANGED <<closed, slotVars>>
  BY DEF ConnectSettles, Connected, ConnectFailed
<1>2. \E v \in {"failing", "ready"} : pc' = Resolved(pc, v)
  BY DEF ConnectSettles, Connected, ConnectFailed
<1>3. SameSide(pc', pc)
  BY <1>2 DEF SameSide, Resolved, Sharers, HoldingAt, TypeOK
<1> QED BY <1>1, <1>3, SlotsUnchanged

\* close() fails the waiters and leaves the holders their slots.
LEMMA CloseSlots ==
    ASSUME TypeOK, SlotInv, Close
    PROVE  SlotInv' /\ SemStep
<1>1. FailWaiters(pc, err, "closed") /\ closed' = TRUE
  BY DEF Close
<1>2. SameSide(pc, pc) /\ pc \in [Callers -> Pcs]
  BY DEF SameSide, TypeOK
<1> QED BY <1>1, <1>2, QueueFailed

\* Every step of the connection is a step of the semaphore.
LEMMA SlotStep ==
    ASSUME TypeOK, SlotInv, [Next]_vars
    PROVE  SlotInv' /\ SemStep
<1>1. CASE Terminating \/ UNCHANGED vars
  BY <1>1, SlotsUnchanged DEF Terminating, vars, SameSide
<1> QED
  BY <1>1, UserSlots, ExecSlots, SftpSlots, TransportSlots, ConnectSlots, CloseSlots DEF Next

-----------------------------------------------------------------------------
(* The typing invariant, with the order of the SFTP queue it rests on. *)

InTurnAt == {"connecting", "ready", "opening", "opened", "using", "failing"}

\* The calls that do not move the SFTP queue do not move into it either.
LEMMA TurnsKept ==
    ASSUME SftpSerialised, sftpQueue' = sftpQueue,
           \A p \in Sftps : pc'[p] \in InTurnAt => pc[p] \in InTurnAt
    PROVE  SftpSerialised'
  BY DEF SftpSerialised, IsTurn, InTurnAt

\* Every step keeps the order of the SFTP queue.
LEMMA TurnStep ==
    ASSUME TypeOK, TypeOK', SftpSerialised, [Next]_vars
    PROVE  SftpSerialised'
<1>1. ASSUME NEW p \in Users, Call(p) \/ UserStep(p) \/ ServerStep(p) \/ Timeout(p)
      PROVE  SftpSerialised'
  <2>1. sftpQueue' = sftpQueue
    BY <1>1 DEF Call, UserStep, ServerStep, Timeout, Resume, Fail, Finish, Ensure, StartExec,
         CommandAsked, StreamOpens, StreamErrs, ExecRefused, StreamCloses, sftpVars
  <2>2. \/ pc' = pc \/ \E v : pc' = [pc EXCEPT ![p] = v]
        \/ \E v, w, q : q \in Users /\ pc' = [pc EXCEPT ![p] = v, ![q] = w]
    <3>1. CASE Resume(p) \/ Fail(p) \/ Finish(p)
      BY <3>1, QueueTypes DEF Resume, Fail, Finish, Release
    <3>2. CASE ~ (Resume(p) \/ Fail(p) \/ Finish(p))
      BY <1>1, <3>2 DEF Call, UserStep, ServerStep, Timeout, Ensure, StartExec, Acquire,
         EnsureClient, CommandAsked, StreamOpens, StreamErrs, ExecRefused, StreamCloses
    <3> QED BY <3>1, <3>2
  <2>3. \A q \in Sftps : pc'[q] = pc[q]
    BY <2>2, CallersAssumption DEF TypeOK
  <2> QED BY <2>1, <2>3, TurnsKept
<1>2. ASSUME NEW p \in Execs, ExecStep(p) \/ Retry(p)
      PROVE  SftpSerialised'
  <2>1. sftpQueue' = sftpQueue
    BY <1>2 DEF ExecStep, Retry, CatchFinal, CatchRefused, CatchLost, sftpVars
  <2>2. \E v : pc' = [pc EXCEPT ![p] = v]
    BY <1>2 DEF ExecStep, Retry, CatchFinal, CatchRefused, CatchLost, Acquire
  <2>3. \A q \in Sftps : pc'[q] = pc[q]
    BY <2>2, CallersAssumption DEF TypeOK
  <2> QED BY <2>1, <2>3, TurnsKept
<1>3. ASSUME NEW p \in Sftps, CallSftp(p)
      PROVE  SftpSerialised'
  <2>1. pc' = [pc EXCEPT ![p] = "chained"] /\ sftpQueue' = Append(sftpQueue, p)
    BY <1>3 DEF CallSftp
  <2>2. sftpQueue # <<>> => sftpQueue' # <<>> /\ Head(sftpQueue') = Head(sftpQueue)
    BY <2>1 DEF TypeOK
  <2>3. \A q \in Sftps : pc'[q] \in InTurnAt => pc[q] \in InTurnAt
    BY <2>1 DEF InTurnAt, TypeOK
  <2> QED BY <2>2, <2>3 DEF SftpSerialised, IsTurn, InTurnAt
<1>4. ASSUME NEW p \in Sftps, RunSftp(p)
      PROVE  SftpSerialised'
  <2>1. IsTurn(p) /\ sftpQueue' = sftpQueue /\ \E v : pc' = [pc EXCEPT ![p] = v]
    BY <1>4 DEF RunSftp, EnsureClient
  <2> QED BY <2>1 DEF SftpSerialised, IsTurn, TypeOK
<1>5. ASSUME NEW p \in Sftps,
             \/ OpenSftp(p) \/ StoreSftp(p) \/ SftpOpens(p) \/ SessionCloses(p)
             \/ \E b \in BOOLEAN : SftpRefused(p, b)
      PROVE  SftpSerialised'
  <2>1. /\ sftpQueue' = sftpQueue
        /\ pc' = pc \/ (pc[p] \in InTurnAt /\ \E v : pc' = [pc EXCEPT ![p] = v])
    BY <1>5 DEF OpenSftp, StoreSftp, SftpOpens, SessionCloses, SftpRefused, InTurnAt
  <2>2. \A q \in Sftps : pc'[q] \in InTurnAt => pc[q] \in InTurnAt
    BY <2>1 DEF TypeOK
  <2> QED BY <2>1, <2>2, TurnsKept
<1>6. ASSUME NEW p \in Sftps,
             SftpFails(p) \/ SftpDone(p) \/ \E b \in BOOLEAN : SftpOpFails(p, b)
      PROVE  SftpSerialised'
  <2>1. /\ pc[p] \in InTurnAt
        /\ \E v \in {"done", "failed"} : pc' = [pc EXCEPT ![p] = v]
    BY <1>6 DEF SftpFails, SftpDone, SftpOpFails, InTurnAt
  <2>2. IsTurn(p) /\ \A q \in Sftps : pc[q] \in InTurnAt => q = p
    BY <2>1 DEF SftpSerialised, IsTurn, InTurnAt
  <2>3. \A q \in Sftps : pc'[q] \notin InTurnAt
    BY <2>1, <2>2 DEF InTurnAt, TypeOK
  <2> QED BY <2>3 DEF SftpSerialised, InTurnAt
<1>7. ASSUME NEW t \in Transports, TransportDies(t) \/ TransportEnd(t)
      PROVE  SftpSerialised'
  <2>1. sftpQueue' = sftpQueue
    BY <1>7 DEF TransportDies, TransportEnd, sftpVars
  <2>2. pc' = pc \/ pc' = [p \in Callers |-> IF Queued(p) THEN Thrown(p) ELSE pc[p]]
    BY <1>7 DEF TransportDies, TransportEnd, OnGone, FailWaiters
  <2>3. \A q \in Sftps : pc'[q] \in InTurnAt => pc[q] \in InTurnAt
    BY <2>2 DEF InTurnAt, Thrown, TypeOK
  <2> QED BY <2>1, <2>3, TurnsKept
<1>8. ASSUME NEW t \in Transports, TransportClose(t)
      PROVE  SftpSerialised'
  <2>1. sftpQueue' = sftpQueue
    BY <1>8 DEF TransportClose
  <2>2. ASSUME NEW q \in Sftps, pc'[q] \in InTurnAt
        PROVE  pc[q] \in InTurnAt
    <3> DEFINE hit(p) == p \in Users /\ on[p] = t /\ Live(p)
               mine(p) == p \in Sftps /\ on[p] = t
               woken(p) == CASE hit(p) /\ pc[p] = "waiting" /\ Opening(p) -> "failing"
                             [] hit(p) /\ pc[p] = "waiting" /\ ~ Opening(p) -> "finished"
                             [] mine(p) /\ pc[p] = "opening" -> "failing"
                             [] OTHER -> pc[p]
    <3>1. ~ hit(q)
      BY CallersAssumption
    <3>2. woken(q) = pc[q] \/ pc[q] = "opening"
      <4> HIDE DEF hit
      <4> QED BY <3>1
    <3>3. pc'[q] = IF Queued(q) THEN Thrown(q) ELSE woken(q)
      BY <1>8 DEF TransportClose, OnGone, FailWaiters
    <3> HIDE DEF woken
    <3> QED BY <2>2, <3>2, <3>3 DEF Thrown, InTurnAt
  <2> QED BY <2>1, <2>2, TurnsKept
<1>9. CASE ConnectSettles
  <2>1. sftpQueue' = sftpQueue /\ \E v : pc' = Resolved(pc, v)
    BY <1>9 DEF ConnectSettles, Connected, ConnectFailed, sftpVars
  <2>2. \A q \in Sftps : pc'[q] \in InTurnAt => pc[q] \in InTurnAt
    BY <2>1 DEF Resolved, Sharers, InTurnAt, TypeOK
  <2> QED BY <2>1, <2>2, TurnsKept
<1>10. CASE Close
  <2>1. sftpQueue' = sftpQueue
    BY <1>10 DEF Close
  <2>2. pc' = [p \in Callers |-> IF Queued(p) THEN Thrown(p) ELSE pc[p]]
    BY <1>10 DEF Close, FailWaiters
  <2>3. \A q \in Sftps : pc'[q] \in InTurnAt => pc[q] \in InTurnAt
    BY <2>2 DEF InTurnAt, Thrown, TypeOK
  <2> QED BY <2>1, <2>3, TurnsKept
<1>11. CASE Terminating \/ UNCHANGED vars
  BY <1>11 DEF Terminating, vars, sftpVars, SftpSerialised, IsTurn
<1> QED
  BY <1>1, <1>2, <1>3, <1>4, <1>5, <1>6, <1>7, <1>8, <1>9, <1>10, <1>11
  DEF Next, SftpStep, SftpServerStep, TransportStep

\* Every step keeps the types.
LEMMA TypeStep ==
    ASSUME TypeOK, SftpSerialised, [Next]_vars
    PROVE  TypeOK'
<1>1. CASE \E p \in Users : Call(p) \/ UserStep(p) \/ ServerStep(p) \/ Timeout(p)
  BY <1>1, UserTypes, StreamTypes DEF UserStep, ServerStep
<1>2. CASE \E p \in Execs : ExecStep(p) \/ Retry(p)
  BY <1>2, ExecTypes DEF ExecStep
<1>3. CASE \E p \in Sftps : CallSftp(p) \/ SftpStep(p) \/ SftpServerStep(p)
  <2> SUFFICES ASSUME NEW p \in Sftps, CallSftp(p) \/ SftpStep(p) \/ SftpServerStep(p)
               PROVE  TypeOK'
    BY <1>3
  <2>1. CASE \/ SftpFails(p) \/ SftpDone(p)
             \/ (\E b \in BOOLEAN : SftpOpFails(p, b))
             \/ (\E b \in BOOLEAN : SftpRefused(p, b))
    <3>1. IsTurn(p)
      BY <2>1 DEF SftpFails, SftpDone, SftpOpFails, SftpRefused, SftpSerialised
    <3> QED BY <2>1, <3>1, LeaveTypes
  <2>2. CASE \/ CallSftp(p) \/ RunSftp(p) \/ OpenSftp(p) \/ StoreSftp(p)
             \/ SftpOpens(p) \/ SessionCloses(p)
    BY <2>2, SftpTypes
  <2> QED BY <2>1, <2>2 DEF SftpStep, SftpServerStep
<1>4. CASE \E t \in Transports : TransportStep(t)
  BY <1>4, TransportTypes, TransportCloseType DEF TransportStep
<1>5. CASE ConnectSettles \/ Close
  BY <1>5, TransportTypes, ConnectTypes DEF ConnectSettles
<1>6. CASE Terminating \/ UNCHANGED vars
  BY <1>6 DEF Terminating, vars, linkVars, slotVars, workVars, sftpVars, TypeOK
<1> QED
  BY <1>1, <1>2, <1>3, <1>4, <1>5, <1>6 DEF Next

-----------------------------------------------------------------------------
(* The theorems. *)

IndInv == TypeOK /\ SftpSerialised /\ SlotInv

\* The initial states satisfy the inductive invariant.
LEMMA InitInd ==
    ASSUME Init
    PROVE  IndInv
<1>1. TypeOK
  <2>1. tstate \in [Transports -> TStates] /\ client \in Transports \cup {None}
    BY Values DEF Init
  <2>2. waiters \in Seq(Users) /\ sftpQueue \in Seq(Sftps) /\ inFlight \in 0..MaxChannels
    BY BoundsAssumption DEF Init
  <2>3. pc \in [Callers -> Pcs] /\ err \in [Execs -> Errors] /\ sess \in [Sftps -> Sessions]
    BY Values DEF Init
  <2>4. /\ on \in [Callers -> Transports \cup {None}]
        /\ chan \in [Users -> Chans] /\ exit \in [Users -> Exits]
        /\ asked \in [Users -> Nat] /\ refused \in [Execs -> Nat] /\ lost \in [Execs -> Nat]
    BY Values DEF Init
  <2> QED BY <2>1, <2>2, <2>3, <2>4 DEF Init, TypeOK
<1>2. SftpSerialised
  BY DEF Init, SftpSerialised
<1>3. Holders = {}
  BY DEF Init, Holders, HoldingAt
<1>4. SlotInv
  BY <1>3, FS_EmptySet DEF Init, SlotInv, WaitersAreQueued, Queued, NoIdleSlotWhileQueued
<1> QED BY <1>1, <1>2, <1>4 DEF IndInv

\* Every step preserves it.
LEMMA IndStep ==
    ASSUME IndInv, [Next]_vars
    PROVE  IndInv'
  BY TypeStep, TurnStep, SlotStep DEF IndInv

\* So it holds in every state.
LEMMA Inductive == Spec => []IndInv
<1>1. Init => IndInv
  BY InitInd
<1>2. IndInv /\ [Next]_vars => IndInv'
  BY IndStep
<1> QED BY <1>1, <1>2, PTL DEF Spec

\* The type invariant: no queue is ever left by a call whose turn it is not,
\* the counter never leaves 0..MaxChannels.
THEOREM TypeCorrect == Spec => []TypeOK
<1>1. IndInv => TypeOK
  BY DEF IndInv
<1> QED BY <1>1, Inductive, PTL

\* withSftp runs its operations one at a time, in the order of the calls.
THEOREM SftpInOrder == Spec => []SftpSerialised
<1>1. IndInv => SftpSerialised
  BY DEF IndInv
<1> QED BY <1>1, Inductive, PTL

\* inFlight is exactly the number of calls that hold a slot, and never above
\* the cap, however calls, retries, timeouts and transport deaths interleave.
THEOREM SlotsAccounted == Spec => []SlotAccounting
<1>1. IndInv => SlotAccounting
  BY BoundsAssumption DEF IndInv, SlotInv, SlotAccounting, TypeOK
<1> QED BY <1>1, Inductive, PTL

\* A caller only waits while every slot is taken: no hand-over is lost.
THEOREM NoSlotWasted == Spec => []NoIdleSlotWhileQueued
<1>1. IndInv => NoIdleSlotWhileQueued
  BY DEF IndInv, SlotInv
<1> QED BY <1>1, Inductive, PTL

\* The counter and the hand-over implement the abstract counting semaphore.
THEOREM ImplementsSemaphore == Spec => IsSemaphore
<1>1. Init => Slots!Init
  <2> SUFFICES ASSUME Init PROVE Slots!Init
    OBVIOUS
  <2>1. Holders = {}
    BY DEF Init, Holders, HoldingAt
  <2> QED BY <2>1 DEF Init, Slots!Init
<1>2. IndInv /\ [Next]_vars => [Slots!Next]_(Slots!semVars)
  BY SlotStep DEF IndInv, SemStep
<1> QED BY <1>1, <1>2, Inductive, PTL DEF Spec, IsSemaphore, Slots!Spec
-----------------------------------------------------------------------------
(***************************************************************************)
(* The commands and the transports: how often a command asked, who owns its *)
(* channel, who owns a transport, and whose transport the shared session   *)
(* is on.                                                                  *)
(***************************************************************************)

\* Where the attempt at hand has no channel yet.
BeforeAt == {"idle", "queued", "handed", "granted", "connecting", "ready", "backoff"}
CaughtAt == {"failing", "caught"}

Losses(p) == IF p \in Execs THEN lost[p] ELSE 0
Error(p) == IF p \in Execs THEN err[p] ELSE "none"
Limit(p) == IF p \in Retryable THEN MaxConnectionAttempts ELSE 1

\* How often the command has run, with the run a pending channel may still make.
MayRun(p) == IF chan[p] = "opening" THEN asked[p] + 1 ELSE asked[p]

\* An attempt asks for the command once at most, each was paid for by a lost connection
\* but the first, and an error that leads to another leaves no channel behind.
Attempt(p) ==
    /\ chan[p] = "open" => pc[p] = "waiting"
    /\ pc[p] \in BeforeAt => chan[p] = "none" /\ asked[p] <= Losses(p)
    /\ pc[p] \notin SettledAt => Losses(p) < Limit(p) /\ MayRun(p) <= Losses(p) + 1
    /\ MayRun(p) <= Limit(p)
    /\ pc[p] \in CaughtAt /\ Error(p) \in {"refused", "lost", "closed"} => chan[p] = "none"
    /\ pc[p] \in CaughtAt /\ Error(p) = "refused" => asked[p] <= Losses(p)

CommandInv == \A p \in Users : Attempt(p)

-----------------------------------------------------------------------------
(* What a step does to a call it is not about. *)

\* Its channel, its errors and its counts stay.
SameCounts(p) ==
    /\ chan'[p] = chan[p] /\ asked'[p] = asked[p]
    /\ Losses(p)' = Losses(p) /\ Error(p)' = Error(p)
Untouched(p) == pc'[p] = pc[p] /\ SameCounts(p)

\* A count is a number.
LEMMA CountTypes ==
    ASSUME TypeOK, NEW p \in Users
    PROVE  /\ Losses(p) \in Nat /\ asked[p] \in Nat /\ MayRun(p) \in Nat
           /\ Limit(p) \in Nat /\ Limit(p) >= 1
           /\ MayRun(p) = asked[p] \/ MayRun(p) = asked[p] + 1
           /\ asked[p] <= MayRun(p)
  BY BoundsAssumption DEF TypeOK, Losses, MayRun, Limit

LEMMA UntouchedKeeps ==
    ASSUME NEW p \in Users, Attempt(p), Untouched(p)
    PROVE  Attempt(p)'
  BY DEF Attempt, Untouched, SameCounts, MayRun, Limit

\* A waiter that is handed a slot, or is failed.
LEMMA HandedKeeps ==
    ASSUME NEW p \in Users, Attempt(p), pc[p] = "queued", pc'[p] = "handed", SameCounts(p)
    PROVE  Attempt(p)'
  BY DEF Attempt, SameCounts, MayRun, Limit, BeforeAt, CaughtAt, SettledAt

LEMMA FailedWaiterKeeps ==
    ASSUME NEW p \in Users, Attempt(p), pc[p] = "queued", pc'[p] = Thrown(p),
           chan'[p] = chan[p], asked'[p] = asked[p], Losses(p)' = Losses(p),
           p \in Execs => Error(p)' \in {"gone", "closed"}
    PROVE  Attempt(p)'
  BY DEF Attempt, Thrown, Error, MayRun, Limit, BeforeAt, CaughtAt, SettledAt

\* Raising the error of one call leaves those of the others.
LEMMA RaiseOne ==
    ASSUME TypeOK, NEW p \in Users, NEW e, err' = Raise(p, e)
    PROVE  /\ p \in Execs => Error(p)' = e
           /\ \A q \in Users : q # p => Error(q)' = Error(q)
  BY DEF Raise, Error, TypeOK

\* The counts of all stay when their tables do.
LEMMA CountsStay ==
    ASSUME UNCHANGED <<chan, asked, lost>>, NEW q \in Users
    PROVE  chan'[q] = chan[q] /\ asked'[q] = asked[q] /\ Losses(q)' = Losses(q)
  BY DEF Losses

LEMMA ErrorsStay ==
    ASSUME err' = err, NEW q \in Users
    PROVE  Error(q)' = Error(q)
  BY DEF Error

\* releaseChannel: p goes on, and the first waiter is handed the slot.
LEMMA ReleaseOthers ==
    ASSUME TypeOK, SlotInv, CommandInv, NEW p \in Users, NEW next, Release(p, next),
           pc[p] # "queued",
           \A q \in Users : q # p => SameCounts(q)
    PROVE  /\ pc'[p] = next
           /\ \A q \in Users : q # p => Attempt(q)'
  <1>1. CASE waiters # <<>>
    <2>1. PICK w \in Users : w = Head(waiters) /\ Queued(w)
      <3>1. 1 \in DOMAIN waiters /\ waiters[1] = Head(waiters)
        BY <1>1 DEF TypeOK
      <3> QED BY <1>1, <3>1, QueueTypes DEF Queued
    <2>2. pc[w] = "queued" /\ w # p
      BY <2>1 DEF SlotInv, WaitersAreQueued
    <2>3. pc' = [pc EXCEPT ![p] = next, ![w] = "handed"]
      BY <1>1, <2>1 DEF Release
    <2>4. /\ pc'[p] = next /\ pc'[w] = "handed"
          /\ \A q \in Users : q # p /\ q # w => pc'[q] = pc[q]
      BY <2>1, <2>2, <2>3 DEF TypeOK
    <2>5. Attempt(w)'
      BY <2>1, <2>2, <2>4, HandedKeeps DEF CommandInv
    <2>6. \A q \in Users : q # p /\ q # w => Attempt(q)'
      BY <2>4, UntouchedKeeps DEF CommandInv, Untouched
    <2> QED BY <2>4, <2>5, <2>6
  <1>2. CASE waiters = <<>>
    <2>1. pc'[p] = next /\ \A q \in Users : q # p => pc'[q] = pc[q]
      BY <1>2 DEF Release, TypeOK
    <2> QED BY <2>1, UntouchedKeeps DEF CommandInv, Untouched
  <1> QED BY <1>1, <1>2

\* acquireChannel, by a call that has no channel.
LEMMA AcquireKeeps ==
    ASSUME TypeOK, CommandInv, NEW p \in Users, Acquire(p),
           UNCHANGED <<chan, asked>>, chan[p] = "none",
           asked[p] <= Losses(p)', Losses(p)' \in Nat, Losses(p)' < Limit(p),
           \A q \in Users : q # p => Losses(q)' = Losses(q)
    PROVE  CommandInv'
  <1>1. PICK v \in {"queued", "granted", Thrown(p)}, e \in {"none", "closed"} :
           pc' = [pc EXCEPT ![p] = v] /\ err' = Raise(p, e)
                /\ (v = Thrown(p) => e = "closed")
    BY DEF Acquire, Thrown
  <1>2. pc'[p] = v /\ \A q \in Users : q # p => pc'[q] = pc[q]
    BY <1>1 DEF TypeOK
  <1>3. \A q \in Users : q # p => Attempt(q)'
    BY <1>1, <1>2, RaiseOne, UntouchedKeeps DEF CommandInv, Untouched, SameCounts
  <1>4. Attempt(p)'
    <2>1. chan'[p] = "none" /\ asked'[p] = asked[p] /\ MayRun(p)' = asked[p] /\ Limit(p)' = Limit(p)
      BY DEF MayRun, Limit
    <2>2. asked[p] \in Nat /\ Limit(p) \in Nat
      BY CountTypes
    <2>3. pc'[p] \in CaughtAt => Error(p)' # "refused"
      BY <1>1, <1>2, RaiseOne DEF Thrown, CaughtAt, Error
    <2> QED BY <2>1, <2>2, <2>3 DEF Attempt
  <1> QED BY <1>3, <1>4 DEF CommandInv

\* failWaiters: the others keep what pcs and errs give them.
LEMMA FailWaitersKeeps ==
    ASSUME TypeOK, SlotInv, CommandInv, NEW e \in {"gone", "closed"}, NEW pcs, NEW errs,
           FailWaiters(pcs, errs, e), UNCHANGED <<asked, lost>>,
           \A q \in Users : Queued(q) => chan'[q] = chan[q],
           \A q \in Users : ~ Queued(q) /\ pc'[q] = pcs[q] /\ Error(q)' = (IF q \in Execs THEN errs[q] ELSE "none")
                              => Attempt(q)'
    PROVE  CommandInv'
  <1> SUFFICES ASSUME NEW q \in Users PROVE Attempt(q)'
    BY DEF CommandInv
  <1>1. CASE Queued(q)
    <2>1. pc[q] = "queued" /\ pc'[q] = Thrown(q)
      BY <1>1 DEF FailWaiters, SlotInv, WaitersAreQueued
    <2>2. q \in Execs => Error(q)' \in {"gone", "closed"}
      BY <1>1 DEF FailWaiters, Error
    <2>3. asked'[q] = asked[q] /\ Losses(q)' = Losses(q)
      BY DEF Losses
    <2> QED BY <1>1, <2>1, <2>2, <2>3, FailedWaiterKeeps DEF CommandInv
  <1>2. CASE ~ Queued(q)
    <2>1. pc'[q] = pcs[q] /\ Error(q)' = (IF q \in Execs THEN errs[q] ELSE "none")
      BY <1>2 DEF FailWaiters, Error
    <2> QED BY <1>2, <2>1
  <1> QED BY <1>1, <1>2

-----------------------------------------------------------------------------
(* The commands, step by step. *)

\* A step that changes one call's place, channel, error and requests, if any.
LEMMA OneKeeps ==
    ASSUME TypeOK, CommandInv, NEW p \in Users, Attempt(p)',
           pc' = pc \/ \E v : pc' = [pc EXCEPT ![p] = v],
           err' = err \/ \E e : err' = Raise(p, e),
           chan' = chan \/ \E v : chan' = [chan EXCEPT ![p] = v],
           asked' = asked \/ \E v : asked' = [asked EXCEPT ![p] = v],
           lost' = lost \/ (p \in Execs /\ \E v : lost' = [lost EXCEPT ![p] = v])
    PROVE  CommandInv'
  <1> SUFFICES ASSUME NEW q \in Users, q # p PROVE Attempt(q)'
    BY DEF CommandInv
  <1>1. pc'[q] = pc[q] /\ chan'[q] = chan[q] /\ asked'[q] = asked[q]
    BY DEF TypeOK
  <1>2. Losses(q)' = Losses(q)
    BY DEF Losses, TypeOK
  <1>3. Error(q)' = Error(q)
    BY RaiseOne, ErrorsStay
  <1> QED BY <1>1, <1>2, <1>3, UntouchedKeeps DEF CommandInv, Untouched, SameCounts

\* Call, Resume, Fail and Finish: what has to do with slots.
LEMMA SlotCommands ==
    ASSUME TypeOK, SlotInv, CommandInv, NEW p \in Users,
           Call(p) \/ Resume(p) \/ Fail(p) \/ Finish(p)
    PROVE  CommandInv'
  <1> USE DEF workVars
  <1>1. Attempt(p)
    BY DEF CommandInv
  <1>2. CASE Call(p)
    <2>1. chan[p] = "none" /\ asked[p] <= Losses(p) /\ Losses(p) < Limit(p)
      BY <1>1, <1>2 DEF Call, Attempt, BeforeAt, SettledAt
    <2>2. UNCHANGED <<chan, asked, lost>> /\ Acquire(p)
      BY <1>2 DEF Call
    <2> QED BY <2>1, <2>2, AcquireKeeps, CountsStay, CountTypes
  <1>3. CASE Resume(p) /\ closed
    <2>1. /\ pc[p] = "handed" /\ Release(p, Thrown(p)) /\ err' = Raise(p, "closed")
          /\ UNCHANGED <<chan, asked, lost>>
      BY <1>3 DEF Resume
    <2>2. pc'[p] = Thrown(p) /\ \A q \in Users : q # p => Attempt(q)'
      <3>1. \A q \in Users : q # p => SameCounts(q)
        BY <2>1, CountsStay, RaiseOne DEF SameCounts
      <3> QED BY <2>1, <3>1, ReleaseOthers
    <2>3. Attempt(p)'
      BY <1>1, <2>1, <2>2, RaiseOne, CountsStay
         DEF Attempt, Thrown, MayRun, Limit, BeforeAt, CaughtAt, SettledAt, Error
    <2> QED BY <2>2, <2>3 DEF CommandInv
  <1>4. CASE Resume(p) /\ ~ closed
    <2>1. /\ pc[p] = "handed" /\ pc' = [pc EXCEPT ![p] = "granted"]
          /\ UNCHANGED <<chan, asked, lost, err>>
      BY <1>4 DEF Resume
    <2>2. pc'[p] = "granted"
      BY <2>1 DEF TypeOK
    <2>3. Attempt(p)'
      BY <1>1, <2>1, <2>2, CountsStay, ErrorsStay
         DEF Attempt, MayRun, Limit, BeforeAt, CaughtAt, SettledAt
    <2> QED BY <2>1, <2>3, OneKeeps
  <1>5. ASSUME NEW next \in {Thrown(p), "done"}, Release(p, next), pc[p] \in {"failing", "finished"},
               next = Thrown(p) => pc[p] = "failing",
               UNCHANGED <<chan, asked, lost, err>>
        PROVE  CommandInv'
    <2>1. \A q \in Users : q # p => SameCounts(q)
      BY <1>5, CountsStay, ErrorsStay DEF SameCounts
    <2>2. pc'[p] = next /\ \A q \in Users : q # p => Attempt(q)'
      BY <1>5, <2>1, ReleaseOthers
    <2>3. Attempt(p)'
      BY <1>1, <1>5, <2>2, CountsStay, ErrorsStay
         DEF Attempt, Thrown, MayRun, Limit, BeforeAt, CaughtAt, SettledAt
    <2> QED BY <2>2, <2>3 DEF CommandInv
  <1>6. CASE Fail(p)
    BY <1>5, <1>6 DEF Fail
  <1>7. CASE Finish(p)
    <2>1. Thrown(p) # "done"
      BY DEF Thrown
    <2> QED BY <1>5, <1>7, <2>1 DEF Finish
  <1> QED BY <1>2, <1>3, <1>4, <1>6, <1>7

\* Ensure and StartExec, and what the server does: one call and its channel.
LEMMA ChannelCommands ==
    ASSUME TypeOK, CommandInv, NEW p \in Users,
           \/ Ensure(p) \/ StartExec(p) \/ ServerStep(p) \/ Timeout(p)
    PROVE  CommandInv'
  <1>1. Attempt(p)
    BY DEF CommandInv
  <1>2. CASE Ensure(p)
    <2>1. /\ pc[p] = "granted" /\ UNCHANGED <<chan, asked, lost>>
          /\ \/ pc' = [pc EXCEPT ![p] = "failing"] /\ err' = Raise(p, "closed")
             \/ \E v \in {"ready", "connecting"} : pc' = [pc EXCEPT ![p] = v] /\ err' = err
      BY <1>2 DEF Ensure, EnsureClient
    <2>2. Attempt(p)'
      <3>1. CASE pc' = [pc EXCEPT ![p] = "failing"] /\ err' = Raise(p, "closed")
        <4>1. pc'[p] = "failing" /\ (p \in Execs => Error(p)' = "closed")
          BY <3>1, RaiseOne DEF TypeOK
        <4> QED BY <1>1, <2>1, <4>1, CountsStay
                DEF Attempt, MayRun, Limit, BeforeAt, CaughtAt, SettledAt, Error
      <3>2. ASSUME NEW v \in {"ready", "connecting"}, pc' = [pc EXCEPT ![p] = v]
            PROVE  Attempt(p)'
        <4>1. pc'[p] = v
          BY <3>2 DEF TypeOK
        <4> QED BY <1>1, <2>1, <4>1, CountsStay
                DEF Attempt, MayRun, Limit, BeforeAt, CaughtAt, SettledAt
      <3> QED BY <2>1, <3>1, <3>2
    <2> QED BY <2>1, <2>2, OneKeeps
  <1>3. CASE StartExec(p)
    <2>1. /\ pc[p] = "ready" /\ UNCHANGED <<asked, lost>>
          /\ \/ /\ pc' = [pc EXCEPT ![p] = "waiting"] /\ err' = err
                /\ chan' = [chan EXCEPT ![p] = "opening"]
             \/ /\ \E v \in {"leaked", "failing"} : pc' = [pc EXCEPT ![p] = v]
                /\ \E e \in {"other", "lost"} : err' = Raise(p, e)
                /\ chan' = [chan EXCEPT ![p] = "none"]
      BY <1>3 DEF StartExec, NoChannel
    <2>2. Attempt(p)'
      <3>1. Losses(p) \in Nat /\ asked[p] \in Nat /\ Limit(p) \in Nat
        BY CountTypes
      <3>2. CASE /\ pc' = [pc EXCEPT ![p] = "waiting"] /\ chan' = [chan EXCEPT ![p] = "opening"]
        <4>1. pc'[p] = "waiting" /\ chan'[p] = "opening" /\ asked'[p] = asked[p] /\ lost' = lost
          BY <2>1, <3>2 DEF TypeOK
        <4> QED BY <1>1, <2>1, <3>1, <4>1
                DEF Attempt, MayRun, Limit, BeforeAt, CaughtAt, SettledAt, Losses
      <3>3. ASSUME NEW v \in {"leaked", "failing"}, NEW e \in {"other", "lost"},
                   pc' = [pc EXCEPT ![p] = v], err' = Raise(p, e),
                   chan' = [chan EXCEPT ![p] = "none"]
            PROVE  Attempt(p)'
        <4>1. pc'[p] = v /\ chan'[p] = "none" /\ Error(p)' # "refused"
          BY <3>3, RaiseOne DEF TypeOK, Error
        <4> QED BY <1>1, <2>1, <3>1, <4>1
                DEF Attempt, MayRun, Limit, BeforeAt, CaughtAt, SettledAt, Losses
      <3> QED BY <2>1, <3>2, <3>3
    <2>3. /\ \E v : pc' = [pc EXCEPT ![p] = v]
          /\ err' = err \/ \E e : err' = Raise(p, e)
          /\ \E v : chan' = [chan EXCEPT ![p] = v]
      BY <2>1
    <2> QED BY <2>1, <2>2, <2>3, OneKeeps
  <1>4. CASE CommandAsked(p)
    <2>1. /\ chan[p] = "opening" /\ chan' = [chan EXCEPT ![p] = "asked"]
          /\ asked' = [asked EXCEPT ![p] = @ + 1] /\ UNCHANGED <<pc, err, lost>>
      BY <1>4 DEF CommandAsked
    <2>2. chan'[p] = "asked" /\ asked'[p] = asked[p] + 1 /\ asked[p] \in Nat
      BY <2>1 DEF TypeOK
    <2>3. Attempt(p)'
      BY <1>1, <2>1, <2>2, ErrorsStay
         DEF Attempt, MayRun, Limit, BeforeAt, CaughtAt, SettledAt, Losses
    <2> QED BY <2>1, <2>3, OneKeeps
  <1>5. CASE StreamOpens(p)
    <2>1. /\ chan[p] = "asked" /\ UNCHANGED <<pc, err, lost, asked>>
          /\ chan' = [chan EXCEPT ![p] = IF pc[p] = "waiting" THEN "open" ELSE "killed"]
      BY <1>5 DEF StreamOpens
    <2>2. chan'[p] = IF pc[p] = "waiting" THEN "open" ELSE "killed"
      BY <2>1 DEF TypeOK
    <2>3. Attempt(p)'
      BY <1>1, <2>1, <2>2, ErrorsStay
         DEF Attempt, MayRun, Limit, BeforeAt, CaughtAt, SettledAt, Losses
    <2> QED BY <2>1, <2>3, OneKeeps
  <1>6. CASE \/ StreamErrs(p) \/ Timeout(p)
             \/ \E e \in {"refused", "other"} : ExecRefused(p, e)
             \/ \E how \in {"zero", "signal", "undefined"} : StreamCloses(p, how)
    <2>1. /\ UNCHANGED <<asked, lost>> /\ chan[p] \in Chans
          /\ \/ chan' = [chan EXCEPT ![p] = "none"]
             \/ chan' = [chan EXCEPT ![p] = IF @ = "open" THEN "killed" ELSE @]
      BY <1>6 DEF StreamErrs, Timeout, ExecRefused, StreamCloses, NoChannel, TypeOK
    <2>2. \/ UNCHANGED <<pc, err>> /\ chan' = [chan EXCEPT ![p] = "none"]
          \/ /\ pc[p] = "waiting" /\ pc' = [pc EXCEPT ![p] = "finished"] /\ err' = err
          \/ /\ pc[p] = "waiting" /\ pc' = [pc EXCEPT ![p] = "failing"]
             /\ \E e \in {"refused", "other", "lost", "timeout"} :
                  /\ err' = Raise(p, e)
                  /\ e \in {"refused", "lost"} => chan' = [chan EXCEPT ![p] = "none"]
                  /\ e = "refused" => chan[p] = "opening"
      BY <1>6 DEF StreamErrs, Timeout, ExecRefused, StreamCloses, NoChannel
    <2>3. /\ Losses(p) \in Nat /\ asked[p] \in Nat /\ Limit(p) \in Nat
          /\ Losses(p)' = Losses(p) /\ asked'[p] = asked[p] /\ Limit(p)' = Limit(p)
      BY <2>1, CountTypes DEF Losses, Limit
    <2>4. /\ chan'[p] # "open" /\ MayRun(p)' <= MayRun(p)
          /\ chan[p] = "none" => chan'[p] = "none"
      BY <2>1, <2>3 DEF MayRun, TypeOK
    <2>5. Attempt(p)'
      <3>1. CASE UNCHANGED <<pc, err>> /\ chan' = [chan EXCEPT ![p] = "none"]
        BY <1>1, <2>3, <2>4, <3>1, CountTypes, ErrorsStay DEF Attempt, MayRun
      <3>2. CASE pc[p] = "waiting" /\ pc' = [pc EXCEPT ![p] = "finished"]
        <4>1. pc'[p] = "finished"
          BY <3>2 DEF TypeOK
        <4> QED BY <1>1, <2>3, <2>4, <3>2, <4>1, CountTypes
                DEF Attempt, MayRun, BeforeAt, CaughtAt, SettledAt
      <3>3. ASSUME NEW e \in {"refused", "other", "lost", "timeout"},
                   pc[p] = "waiting", pc' = [pc EXCEPT ![p] = "failing"], err' = Raise(p, e),
                   e \in {"refused", "lost"} => chan' = [chan EXCEPT ![p] = "none"],
                   e = "refused" => chan[p] = "opening"
            PROVE  Attempt(p)'
        <4>1. /\ pc'[p] = "failing"
              /\ e \in {"refused", "lost"} => chan'[p] = "none"
              /\ Error(p)' = e \/ Error(p)' = "none"
          BY <3>3, RaiseOne DEF TypeOK, Error
        <4> QED BY <1>1, <2>3, <2>4, <3>3, <4>1, CountTypes
                DEF Attempt, MayRun, BeforeAt, CaughtAt, SettledAt
      <3> QED BY <2>2, <3>1, <3>2, <3>3
    <2>6. /\ pc' = pc \/ \E v : pc' = [pc EXCEPT ![p] = v]
          /\ err' = err \/ \E e : err' = Raise(p, e)
          /\ chan' = chan \/ \E v : chan' = [chan EXCEPT ![p] = v]
      BY <2>1, <2>2
    <2> QED BY <2>1, <2>5, <2>6, OneKeeps
  <1> QED BY <1>2, <1>3, <1>4, <1>5, <1>6 DEF ServerStep

\* execWithRetry: a lost connection pays for the attempt that follows it.
LEMMA ExecCommands ==
    ASSUME TypeOK, CommandInv, NEW p \in Execs, ExecStep(p) \/ Retry(p)
    PROVE  CommandInv'
  <1> USE DEF workVars
  <1>1. /\ p \in Users /\ Attempt(p) /\ Losses(p) = lost[p] /\ Error(p) = err[p]
        /\ lost[p] \in Nat /\ asked[p] \in Nat /\ Limit(p) \in Nat
    BY CountTypes DEF CommandInv, Losses, Error, TypeOK
  <1>2. CASE CatchFinal(p) \/ CatchRefused(p)
    <2>1. /\ pc[p] = "caught" /\ err' = Raise(p, "none") /\ UNCHANGED <<chan, asked, lost>>
          /\ \E v \in {"failed", "backoff"} : /\ pc' = [pc EXCEPT ![p] = v]
                                              /\ v = "backoff" => err[p] = "refused"
      BY <1>2 DEF CatchFinal, CatchRefused
    <2>2. PICK v \in {"failed", "backoff"} : /\ pc' = [pc EXCEPT ![p] = v]
                                             /\ v = "backoff" => err[p] = "refused"
      BY <2>1
    <2>3. pc'[p] = v
      BY <2>2 DEF TypeOK
    <2>4. Attempt(p)'
      BY <1>1, <2>1, <2>2, <2>3, CountsStay
         DEF Attempt, MayRun, Limit, BeforeAt, CaughtAt, SettledAt
    <2> QED BY <1>1, <2>1, <2>2, <2>4, OneKeeps
  <1>3. CASE Retry(p)
    <2>1. /\ pc[p] = "backoff" /\ Acquire(p) /\ UNCHANGED <<chan, asked, lost>>
      BY <1>3 DEF Retry
    <2>2. chan[p] = "none" /\ asked[p] <= Losses(p) /\ Losses(p) < Limit(p)
      BY <1>1, <2>1 DEF Attempt, BeforeAt, SettledAt
    <2> QED BY <1>1, <2>1, <2>2, AcquireKeeps, CountsStay
  <1>4. CASE CatchLost(p)
    <2>1. /\ pc[p] = "caught" /\ err[p] \in {"lost", "closed"}
          /\ UNCHANGED <<chan, asked>> /\ lost' = [lost EXCEPT ![p] = @ + 1]
      BY <1>4 DEF CatchLost, ConnectionErrors
    <2>2. lost'[p] = lost[p] + 1 /\ \A q \in Execs : q # p => lost'[q] = lost[q]
      BY <2>1 DEF TypeOK
    <2>3. Losses(p)' = lost[p] + 1 /\ \A q \in Users : q # p => Losses(q)' = Losses(q)
      BY <2>2 DEF Losses
    <2>4. chan[p] = "none" /\ asked[p] <= lost[p] + 1 /\ asked[p] <= Limit(p)
      BY <1>1, <2>1 DEF Attempt, CaughtAt, SettledAt, MayRun
    <2>5. CASE MayRetry(p) /\ Acquire(p)
      <3>1. Losses(p)' < Limit(p)
        BY <2>3, <2>5 DEF MayRetry, Limit
      <3> QED BY <1>1, <2>1, <2>3, <2>4, <2>5, <3>1, AcquireKeeps
    <2>6. CASE pc' = [pc EXCEPT ![p] = "failed"] /\ err' = Raise(p, "none")
      <3>1. pc'[p] = "failed"
        BY <2>6 DEF TypeOK
      <3>2. chan'[p] = "none" /\ asked'[p] = asked[p] /\ Limit(p)' = Limit(p)
        BY <2>1, <2>4 DEF Limit
      <3>3. Attempt(p)'
        BY <2>4, <3>1, <3>2 DEF Attempt, MayRun, BeforeAt, CaughtAt, SettledAt
      <3> QED BY <1>1, <2>1, <2>6, <3>3, OneKeeps
    <2> QED BY <1>4, <2>5, <2>6 DEF CatchLost
  <1> QED BY <1>2, <1>3, <1>4 DEF ExecStep

\* A step that leaves the commands and their channels as they are.
LEMMA AllUntouched ==
    ASSUME CommandInv, \A q \in Users : Untouched(q)
    PROVE  CommandInv'
  BY UntouchedKeeps DEF CommandInv

\* A withSftp call has no command.
LEMMA SftpCommands ==
    ASSUME TypeOK, CommandInv, NEW p \in Sftps, CallSftp(p) \/ SftpStep(p) \/ SftpServerStep(p)
    PROVE  CommandInv'
  <1>1. UNCHANGED <<chan, asked, lost>>
    BY DEF SftpStep, SftpServerStep, CallSftp, RunSftp, OpenSftp, StoreSftp, SftpFails,
           SftpOpens, SftpDone, SessionCloses, SftpRefused, SftpOpFails, workVars
  <1>2. pc' = pc \/ \E v : pc' = [pc EXCEPT ![p] = v]
    BY DEF SftpStep, SftpServerStep, CallSftp, RunSftp, EnsureClient, OpenSftp, StoreSftp,
           SftpFails, SftpOpens, SftpDone, SessionCloses, SftpRefused, SftpOpFails
  <1>3. err' = err \/ \E e : err' = Raise(p, e)
    BY DEF SftpStep, SftpServerStep, CallSftp, RunSftp, EnsureClient, OpenSftp, StoreSftp,
           SftpFails, SftpOpens, SftpDone, SessionCloses, SftpRefused, SftpOpFails
  <1>4. ASSUME NEW q \in Users PROVE Untouched(q)
    <2>1. q # p
      BY CallersAssumption
    <2>2. pc'[q] = pc[q]
      BY <1>2, <2>1 DEF TypeOK
    <2>3. Error(q)' = Error(q)
      BY <1>3, <2>1 DEF Error, Raise, TypeOK
    <2> QED BY <1>1, <2>2, <2>3, CountsStay DEF Untouched, SameCounts
  <1> QED BY <1>4, AllUntouched

\* A reconnect settles: no one that waits for it has a channel.
LEMMA ConnectCommands ==
    ASSUME TypeOK, CommandInv, ConnectSettles
    PROVE  CommandInv'
  <1>1. UNCHANGED <<chan, asked, lost>>
    BY DEF ConnectSettles, Connected, ConnectFailed, workVars
  <1>2. \/ \E e \in {"closed", "lost", "other"} :
             pc' = Resolved(pc, "failing") /\ err' = Resolved(err, e)
        \/ pc' = Resolved(pc, "ready") /\ err' = err
    BY DEF ConnectSettles, Connected, ConnectFailed
  <1>3. ASSUME NEW q \in Users PROVE Attempt(q)'
    <2>1. Attempt(q)
      BY DEF CommandInv
    <2>2. CASE q \in Sharers
      <3>1. pc[q] = "connecting" /\ pc'[q] \in {"failing", "ready"}
        BY <1>2, <2>2 DEF Sharers, Resolved, TypeOK
      <3>2. pc'[q] = "failing" => Error(q)' # "refused"
        BY <1>2, <2>2, <3>1 DEF Resolved, Error, TypeOK
      <3> QED BY <1>1, <2>1, <3>1, <3>2, CountsStay
              DEF Attempt, MayRun, Limit, BeforeAt, CaughtAt, SettledAt
    <2>3. CASE q \notin Sharers
      <3>1. pc'[q] = pc[q] /\ Error(q)' = Error(q)
        BY <1>2, <2>3 DEF Resolved, Error, TypeOK
      <3> QED BY <1>1, <2>1, <3>1, CountsStay, UntouchedKeeps DEF Untouched, SameCounts
    <2> QED BY <2>2, <2>3
  <1> QED BY <1>3 DEF CommandInv

\* close() fails the waiters, and the end of a transport does.
LEMMA CloseCommands ==
    ASSUME TypeOK, SlotInv, CommandInv,
           Close \/ \E t \in Transports : TransportEnd(t) \/ TransportDies(t)
    PROVE  CommandInv'
  <1>1. UNCHANGED <<chan, asked, lost>>
    BY DEF Close, TransportEnd, TransportDies, workVars
  <1>2. CASE UNCHANGED <<pc, err>>
    <2>1. \A q \in Users : Untouched(q)
      BY <1>1, <1>2, CountsStay, ErrorsStay DEF Untouched, SameCounts
    <2> QED BY <2>1, AllUntouched
  <1>3. ASSUME NEW e \in {"gone", "closed"}, FailWaiters(pc, err, e)
        PROVE  CommandInv'
    <2>1. ASSUME NEW q \in Users, pc'[q] = pc[q], Error(q)' = (IF q \in Execs THEN err[q] ELSE "none")
          PROVE  Attempt(q)'
      <3>1. Error(q)' = Error(q)
        BY <2>1 DEF Error
      <3> QED BY <1>1, <2>1, <3>1, CountsStay, UntouchedKeeps DEF CommandInv, Untouched, SameCounts
    <2>2. UNCHANGED <<asked, lost>> /\ \A q \in Users : chan'[q] = chan[q]
      BY <1>1
    <2> QED BY <1>3, <2>1, <2>2, FailWaitersKeeps
  <1> QED BY <1>2, <1>3 DEF Close, TransportEnd, TransportDies, OnGone

\* The end of a transport takes the channels on it, and no command with them twice.
LEMMA TransportCommands ==
    ASSUME TypeOK, SlotInv, CommandInv, NEW t \in Transports, TransportClose(t)
    PROVE  CommandInv'
  <1> DEFINE hit(p) == p \in Users /\ on[p] = t /\ Live(p)
             mine(p) == p \in Sftps /\ on[p] = t
             woken(p) == CASE hit(p) /\ pc[p] = "waiting" /\ Opening(p) -> "failing"
                           [] hit(p) /\ pc[p] = "waiting" /\ ~ Opening(p) -> "finished"
                           [] mine(p) /\ pc[p] = "opening" -> "failing"
                           [] OTHER -> pc[p]
             ps == [p \in Callers |-> woken(p)]
             es == [p \in Execs |-> IF hit(p) /\ woken(p) = "failing" THEN "lost" ELSE err[p]]
  <1>1. /\ FailWaiters(ps, es, "gone") /\ UNCHANGED <<asked, lost>>
        /\ chan' = [p \in Users |-> IF hit(p) THEN "none" ELSE chan[p]]
    BY DEF TransportClose, OnGone
  <1>2. ASSUME NEW q \in Users, pc[q] = "queued" PROVE chan'[q] = chan[q]
    <2>1. chan[q] = "none"
      BY <1>2 DEF CommandInv, Attempt, BeforeAt
    <2> QED BY <1>1, <2>1
  <1>3. ASSUME NEW q \in Users, pc'[q] = ps[q],
               Error(q)' = (IF q \in Execs THEN es[q] ELSE "none")
        PROVE  Attempt(q)'
    <2>1. Attempt(q)
      BY DEF CommandInv
    <2>2. asked'[q] = asked[q] /\ Losses(q)' = Losses(q) /\ Limit(q)' = Limit(q)
      BY <1>1 DEF Losses, Limit
    <2>3. CASE hit(q)
      <3>1. chan'[q] = "none" /\ MayRun(q)' = asked[q]
        BY <1>1, <2>2, <2>3 DEF MayRun
      <3>2. CASE pc[q] = "waiting"
        <4>1. pc'[q] \in {"failing", "finished"}
          BY <1>3, <2>3, <3>2
        <4>2. pc'[q] = "failing" => Error(q)' # "refused"
          BY <1>3, <2>3
        <4> QED BY <2>1, <2>2, <3>1, <3>2, <4>1, <4>2, CountTypes
                DEF Attempt, BeforeAt, CaughtAt, SettledAt
      <3>3. CASE pc[q] # "waiting"
        <4>1. q \notin Sftps
          BY CallersAssumption
        <4>2. woken(q) = pc[q]
          BY <3>3, <4>1
        <4>3. pc'[q] = pc[q]
          BY <1>3, <4>2
        <4>4. Error(q)' = Error(q) \/ Error(q)' = "lost"
          BY <1>3 DEF Error
        <4> QED BY <2>1, <2>2, <3>1, <4>3, <4>4, CountTypes DEF Attempt
      <3> QED BY <3>2, <3>3
    <2>4. CASE ~ hit(q)
      <3>1. q \notin Sftps
        BY CallersAssumption
      <3>2. pc'[q] = pc[q] /\ Error(q)' = Error(q)
        <4> HIDE DEF hit
        <4>1. woken(q) = pc[q]
          BY <2>4, <3>1
        <4> QED BY <1>3, <2>4, <4>1 DEF Error
      <3>3. chan'[q] = chan[q]
        BY <1>1, <2>4
      <3> QED BY <2>1, <2>2, <3>2, <3>3, UntouchedKeeps DEF Untouched, SameCounts
    <2> QED BY <2>3, <2>4
  <1>4. \A q \in Users : Queued(q) => chan'[q] = chan[q]
    BY <1>2 DEF SlotInv, WaitersAreQueued
  <1> HIDE DEF ps, es
  <1> QED BY <1>1, <1>3, <1>4, FailWaitersKeeps

\* Every step.
LEMMA CommandStep ==
    ASSUME TypeOK, SlotInv, CommandInv, [Next]_vars
    PROVE  CommandInv'
  <1>1. CASE Terminating \/ UNCHANGED vars
    <2>1. \A q \in Users : Untouched(q)
      BY <1>1, CountsStay, ErrorsStay DEF Terminating, vars, workVars, Untouched, SameCounts
    <2> QED BY <2>1, AllUntouched
  <1>2. CASE \E p \in Users : Call(p) \/ UserStep(p) \/ ServerStep(p) \/ Timeout(p)
    BY <1>2, SlotCommands, ChannelCommands DEF UserStep
  <1>3. CASE \E t \in Transports : TransportStep(t)
    BY <1>3, CloseCommands, TransportCommands DEF TransportStep
  <1> QED
    BY <1>1, <1>2, <1>3, ExecCommands, SftpCommands, ConnectCommands, CloseCommands DEF Next

-----------------------------------------------------------------------------
(* The transports, step by step. *)

\* close() leaves no client behind, and ready calls and pending channels have a transport.
Owned == NoStrandedTransport /\ (closed => client = None)
AskedOn == \A p \in Users : pc[p] = "ready" \/ chan[p] = "opening" => on[p] \in Transports

\* dropTransport ends the transport it forgets.
LEMMA DropOwned ==
    ASSUME TypeOK, NoStrandedTransport, DropTransport
    PROVE  NoStrandedTransport' /\ client' = None
  BY DEF DropTransport, NoStrandedTransport, TypeOK

\* A transport that is gone is ended or forgotten; a new one is the client, or is ended.
LEMMA OwnedStep ==
    ASSUME TypeOK, Owned, [Next]_vars
    PROVE  Owned'
  <1>1. ASSUME NEW t \in Transports, Connected(t)
        PROVE  Owned'
    BY <1>1 DEF Connected, Owned, NoStrandedTransport, TypeOK
  <1>2. ASSUME NEW t \in Transports, TransportStep(t)
        PROVE  Owned'
    <2>1. /\ closed' = closed /\ client' \in {client, IF client = t THEN None ELSE client}
          /\ \E v \in {"dying", "half", "closing", "down"} : tstate' = [tstate EXCEPT ![t] = v]
          /\ client' # client => client = t
      BY <1>2 DEF TransportStep, TransportDies, TransportEnd, TransportClose, OnGone
    <2> QED BY <1>2, <2>1
            DEF Owned, NoStrandedTransport, TypeOK, TransportStep, TransportDies, TransportEnd, TransportClose
  <1>3. CASE Close \/ \E p \in Execs : CatchLost(p)
    <2>1. DropTransport
      BY <1>3 DEF Close, CatchLost
    <2> QED BY <2>1, DropOwned DEF Owned
  <1>4. CASE UNCHANGED <<closed, client, tstate>>
    BY <1>4 DEF Owned, NoStrandedTransport
  <1>5. ASSUME NEW p \in Users, Call(p) \/ UserStep(p) \/ ServerStep(p) \/ Timeout(p)
        PROVE  UNCHANGED <<closed, client, tstate>>
    BY <1>5 DEF Call, UserStep, ServerStep, Timeout, Resume, Fail, Finish, Ensure, StartExec,
                CommandAsked, StreamOpens, StreamErrs, ExecRefused, StreamCloses, linkVars
  <1>6. ASSUME NEW p \in Execs, CatchFinal(p) \/ CatchRefused(p) \/ Retry(p)
        PROVE  UNCHANGED <<closed, client, tstate>>
    BY <1>6 DEF CatchFinal, CatchRefused, Retry, linkVars
  <1>7. ASSUME NEW p \in Sftps, CallSftp(p) \/ SftpStep(p) \/ SftpServerStep(p)
        PROVE  UNCHANGED <<closed, client, tstate>>
    BY <1>7 DEF SftpStep, SftpServerStep, CallSftp, RunSftp, OpenSftp, StoreSftp, SftpFails,
                SftpOpens, SftpDone, SessionCloses, SftpRefused, SftpOpFails, linkVars
  <1>8. CASE Terminating \/ (\E e \in {"lost", "other"} : ConnectFailed(e)) \/ UNCHANGED vars
    BY <1>4, <1>8 DEF Terminating, ConnectFailed, vars, linkVars
  <1> QED BY <1>1, <1>2, <1>3, <1>4, <1>5, <1>6, <1>7, <1>8 DEF Next, ExecStep, ConnectSettles

\* Where the steps of one call leave the transports of the others.
LEMMA AskedKept ==
    ASSUME AskedOn, \A q \in Users : /\ pc'[q] = "ready" => pc[q] = "ready"
                                     /\ chan'[q] = "opening" => chan[q] = "opening"
                                     /\ on'[q] = on[q]
    PROVE  AskedOn'
  BY DEF AskedOn

\* A channel is asked for on the transport that ensureClient or a reconnect gave.
LEMMA AskedStep ==
    ASSUME TypeOK, SlotInv, CommandInv, AskedOn, [Next]_vars
    PROVE  AskedOn'
  <1> USE DEF workVars
  <1>1. ASSUME NEW p \in Users, Call(p) \/ UserStep(p) \/ ServerStep(p) \/ Timeout(p)
        PROVE  AskedOn'
    <2>1. CASE Call(p) \/ Resume(p) \/ Fail(p) \/ Finish(p)
      <3>1. UNCHANGED <<on, chan>>
        BY <2>1 DEF Call, Resume, Fail, Finish
      <3>2. \A u \in {"caught", "failed", "done"} :
               Release(p, u) => \A q \in Users : pc'[q] = "ready" => pc[q] = "ready"
        <4> SUFFICES ASSUME NEW u, u # "ready", Release(p, u)
                     PROVE  \A q \in Users : pc'[q] = "ready" => pc[q] = "ready"
          OBVIOUS
        <4>1. CASE waiters # <<>>
          <5>1. Head(waiters) \in Callers
            BY <4>1, QueueTypes
          <5>2. PICK w \in Callers : w = Head(waiters)
            BY <5>1
          <5>3. pc' = [pc EXCEPT ![p] = u, ![w] = "handed"]
            BY <4>1, <5>2 DEF Release
          <5> QED BY <5>3 DEF TypeOK
        <4>2. CASE waiters = <<>>
          <5>1. pc' = [pc EXCEPT ![p] = u]
            BY <4>2 DEF Release
          <5> QED BY <5>1 DEF TypeOK
        <4> QED BY <4>1, <4>2
      <3>3. \A q \in Users : pc'[q] = "ready" => pc[q] = "ready"
        <4>1. CASE Call(p)
          <5>1. \E v \in {"caught", "failed", "granted", "queued"} : pc' = [pc EXCEPT ![p] = v]
            BY <4>1 DEF Call, Acquire, Thrown
          <5> QED BY <5>1 DEF TypeOK
        <4>2. CASE Resume(p) /\ ~closed
          BY <4>2 DEF Resume, TypeOK
        <4> QED BY <2>1, <3>2, <4>1, <4>2 DEF Resume, Fail, Finish, Thrown
      <3> QED BY <3>1, <3>3, AskedKept
    <2>2. CASE Ensure(p)
      <3>1. \/ \E v \in {"failing", "connecting"} : pc' = [pc EXCEPT ![p] = v] /\ on' = on
            \/ /\ client \in Transports /\ pc' = [pc EXCEPT ![p] = "ready"]
               /\ on' = [on EXCEPT ![p] = client]
        BY <2>2 DEF Ensure, EnsureClient, TypeOK
      <3>2. chan' = chan
        BY <2>2 DEF Ensure
      <3> QED BY <3>1, <3>2 DEF AskedOn, TypeOK
    <2>3. CASE StartExec(p)
      <3>1. \/ /\ pc[p] = "ready" /\ pc' = [pc EXCEPT ![p] = "waiting"]
               /\ chan' = [chan EXCEPT ![p] = "opening"] /\ on' = on
            \/ /\ \E v \in {"leaked", "failing"} : pc' = [pc EXCEPT ![p] = v]
               /\ chan' = [chan EXCEPT ![p] = "none"] /\ on' = [on EXCEPT ![p] = None]
        BY <2>3 DEF StartExec, NoChannel
      <3> QED BY <3>1 DEF AskedOn, TypeOK
    <2>4. CASE ServerStep(p) \/ Timeout(p)
      <3>1. /\ pc' = pc \/ \E v \in {"failing", "finished"} : pc' = [pc EXCEPT ![p] = v]
            /\ \/ on' = on /\ \E v : chan' = [chan EXCEPT ![p] = v] /\ v \in {"asked", "open", "killed", chan[p]}
               \/ on' = [on EXCEPT ![p] = None] /\ chan' = [chan EXCEPT ![p] = "none"] /\ pc[p] # "ready"
        <4>1. chan[p] # "none" => pc[p] # "ready"
          BY DEF CommandInv, Attempt, BeforeAt
        <4>2. CASE CommandAsked(p)
          BY <4>2 DEF CommandAsked
        <4>3. CASE StreamOpens(p)
          BY <4>3 DEF StreamOpens
        <4>4. CASE Timeout(p)
          BY <4>4 DEF Timeout
        <4>5. CASE StreamErrs(p) \/ (\E e \in {"refused", "other"} : ExecRefused(p, e))
                   \/ \E how \in {"zero", "signal", "undefined"} : StreamCloses(p, how)
          BY <4>1, <4>5 DEF StreamErrs, ExecRefused, StreamCloses, NoChannel
        <4> QED BY <2>4, <4>2, <4>3, <4>4, <4>5 DEF ServerStep
      <3> QED BY <3>1 DEF AskedOn, TypeOK
    <2> QED BY <1>1, <2>1, <2>2, <2>3, <2>4 DEF UserStep
  <1>2. ASSUME NEW p \in Execs, ExecStep(p) \/ Retry(p)
        PROVE  AskedOn'
    <2>1. UNCHANGED <<on, chan>>
      BY <1>2 DEF ExecStep, Retry, CatchFinal, CatchRefused, CatchLost
    <2>2. \E v : pc' = [pc EXCEPT ![p] = v] /\ v # "ready"
      BY <1>2 DEF ExecStep, Retry, CatchFinal, CatchRefused, CatchLost, Acquire, Thrown
    <2>3. \A q \in Users : pc'[q] = "ready" => pc[q] = "ready"
      BY <2>2 DEF TypeOK
    <2> QED BY <2>1, <2>3, AskedKept
  <1>3. ASSUME NEW p \in Sftps, CallSftp(p) \/ SftpStep(p) \/ SftpServerStep(p)
        PROVE  AskedOn'
    <2>1. chan' = chan
      BY <1>3 DEF SftpStep, SftpServerStep, CallSftp, RunSftp, OpenSftp, StoreSftp, SftpFails,
             SftpOpens, SftpDone, SessionCloses, SftpRefused, SftpOpFails
    <2>2. pc' = pc \/ \E v : pc' = [pc EXCEPT ![p] = v]
      BY <1>3 DEF SftpStep, SftpServerStep, CallSftp, RunSftp, EnsureClient, OpenSftp, StoreSftp,
             SftpFails, SftpOpens, SftpDone, SessionCloses, SftpRefused, SftpOpFails
    <2>3. on' = on \/ \E v : on' = [on EXCEPT ![p] = v]
      BY <1>3 DEF SftpStep, SftpServerStep, CallSftp, RunSftp, EnsureClient, OpenSftp, StoreSftp,
             SftpFails, SftpOpens, SftpDone, SessionCloses, SftpRefused, SftpOpFails, NoSession
    <2>4. \A q \in Users : q # p
      BY CallersAssumption
    <2>5. \A q \in Users : pc'[q] = pc[q] /\ on'[q] = on[q]
      BY <2>2, <2>3, <2>4 DEF TypeOK
    <2> QED BY <2>1, <2>5, AskedKept
  <1>4. ASSUME NEW t \in Transports, TransportDies(t) \/ TransportEnd(t)
        PROVE  AskedOn'
    <2>1. UNCHANGED <<on, chan>>
      BY <1>4 DEF TransportDies, TransportEnd
    <2>2. pc' = pc \/ pc' = [p \in Callers |-> IF Queued(p) THEN Thrown(p) ELSE pc[p]]
      BY <1>4 DEF TransportDies, TransportEnd, OnGone, FailWaiters
    <2>3. \A q \in Users : pc'[q] = "ready" => pc[q] = "ready"
      BY <2>2 DEF Thrown
    <2> QED BY <2>1, <2>3, AskedKept
  <1>5. ASSUME NEW t \in Transports, TransportClose(t)
        PROVE  AskedOn'
    <2> SUFFICES ASSUME NEW q \in Users, pc'[q] = "ready" \/ chan'[q] = "opening"
                 PROVE  on'[q] \in Transports
      BY DEF AskedOn
    <2>1. on' = [p \in Callers |-> IF on[p] = t THEN None ELSE on[p]]
      BY <1>5 DEF TransportClose
    <2>2. pc'[q] # "ready"
      <3> DEFINE hit(p) == p \in Users /\ on[p] = t /\ Live(p)
                 mine(p) == p \in Sftps /\ on[p] = t
                 woken(p) == CASE hit(p) /\ pc[p] = "waiting" /\ Opening(p) -> "failing"
                               [] hit(p) /\ pc[p] = "waiting" /\ ~ Opening(p) -> "finished"
                               [] mine(p) /\ pc[p] = "opening" -> "failing"
                               [] OTHER -> pc[p]
      <3>1. pc'[q] = IF Queued(q) THEN Thrown(q) ELSE woken(q)
        BY <1>5 DEF TransportClose, OnGone, FailWaiters
      <3>2. pc[q] # "ready"
        BY <1>5 DEF TransportClose, Quiet, RunnableAt
      <3>3. woken(q) # "ready"
        BY <3>2
      <3> HIDE DEF woken
      <3> QED BY <3>1, <3>3 DEF Thrown
    <2>3. chan[q] = "opening" /\ on[q] # t
      <3>1. chan'[q] = IF on[q] = t /\ Live(q) THEN "none" ELSE chan[q]
        BY <1>5 DEF TransportClose
      <3> QED BY <2>2, <3>1 DEF Live
    <2> QED BY <2>1, <2>3 DEF AskedOn
  <1>6. CASE ConnectSettles
    <2>1. chan' = chan
      BY <1>6 DEF ConnectSettles, Connected, ConnectFailed
    <2>2. \/ \E t \in Transports : pc' = Resolved(pc, "ready") /\ on' = Resolved(on, t)
          \/ pc' = Resolved(pc, "failing") /\ on' = on
      BY <1>6 DEF ConnectSettles, Connected, ConnectFailed
    <2> QED BY <2>1, <2>2 DEF Resolved, AskedOn, TypeOK
  <1>7. CASE Close
    <2>1. UNCHANGED <<on, chan>> /\ pc' = [p \in Callers |-> IF Queued(p) THEN Thrown(p) ELSE pc[p]]
      BY <1>7 DEF Close, FailWaiters
    <2>2. \A q \in Users : pc'[q] = "ready" => pc[q] = "ready"
      BY <2>1 DEF Thrown
    <2> QED BY <2>1, <2>2, AskedKept
  <1>8. CASE Terminating \/ UNCHANGED vars
    BY <1>8, AskedKept DEF Terminating, vars
  <1> QED BY <1>1, <1>2, <1>3, <1>4, <1>5, <1>6, <1>7, <1>8 DEF Next, TransportStep

-----------------------------------------------------------------------------
(* The shared session, step by step. *)

\* Only a call that stored its session is shared, a call that opens one has a
\* transport for it, and nothing is shared while there is no client.
SessionCore ==
    /\ connecting => client = None
    /\ sharedSftp # None => /\ pc[sharedSftp] \in {"using", "done", "failed"}
                            /\ sess[sharedSftp] = "open"
    /\ \A p \in Sftps : /\ pc[p] \in {"ready", "opening", "opened"} => on[p] \in Transports
                        /\ pc[p] = "opening" => sess[p] = "opening"
                        /\ pc[p] = "opened" => sess[p] = "open"
    /\ SessionOnClient

\* Between the "opened" session and its storing, no reaction can lose the client:
\* there is no failure left to catch, and those who run next got that client.
OnClient(p) ==
    /\ client \in Transports /\ on[p] = client /\ tstate[client] = "up"
    /\ \A q \in Users : pc[q] \notin CaughtAt /\ (pc[q] = "ready" => on[q] = client)
\* A session that opened after its transport was dropped: nothing but an event ends that.
OnDropped(p) == on[p] \in Transports /\ tstate[on[p]] = "ending"
Opened(p) == pc[p] = "opened" /\ ~ closed => OnClient(p) \/ OnDropped(p)
OpenedInv == \A p \in Sftps : Opened(p)

\* What leaves the withSftp calls and their sessions alone.
SessionFrame ==
    /\ UNCHANGED <<closed, client, tstate, sharedSftp, sess>>
    /\ \A q \in Sftps : pc'[q] = pc[q] /\ on'[q] = on[q]
    /\ connecting' => connecting \/ client = None

LEMMA FrameKeeps ==
    ASSUME TypeOK, SessionCore, SessionFrame
    PROVE  SessionCore'
  <1>1. sharedSftp # None => sharedSftp \in Sftps
    BY DEF TypeOK
  <1> QED BY <1>1 DEF SessionCore, SessionFrame, SessionOnClient

\* A command hands its slot to a command.
LEMMA ReleaseFrame ==
    ASSUME TypeOK, NEW p \in Users, NEW next, Release(p, next)
    PROVE  \A q \in Sftps : pc'[q] = pc[q]
  <1>1. \A q \in Sftps : q \notin Users
    BY CallersAssumption
  <1>2. waiters # <<>> => Head(waiters) \in Users
    BY QueueTypes
  <1> QED BY <1>1, <1>2 DEF Release, TypeOK

\* Commands are no sessions.
LEMMA UserFrame ==
    ASSUME TypeOK, NEW p \in Users, Call(p) \/ UserStep(p) \/ ServerStep(p) \/ Timeout(p)
    PROVE  SessionFrame
  <1> USE DEF workVars, linkVars, sftpVars
  <1>1. \A q \in Sftps : q # p
    BY CallersAssumption
  <1>2. /\ UNCHANGED <<closed, client, tstate, sharedSftp, sess>>
        /\ connecting' => connecting \/ client = None
        /\ on' = on \/ \E t : on' = [on EXCEPT ![p] = t]
    BY DEF Call, UserStep, ServerStep, Timeout, Resume, Fail, Finish, Ensure, EnsureClient,
           StartExec, NoChannel, CommandAsked, StreamOpens, StreamErrs, ExecRefused, StreamCloses
  <1>3. pc' = pc \/ (\E v : pc' = [pc EXCEPT ![p] = v]) \/ (\E v : Release(p, v))
    BY DEF Call, Acquire, UserStep, ServerStep, Timeout, Resume, Fail, Finish, Ensure, EnsureClient,
           StartExec, CommandAsked, StreamOpens, StreamErrs, ExecRefused, StreamCloses
  <1>4. \A q \in Sftps : pc'[q] = pc[q]
    BY <1>1, <1>3, ReleaseFrame DEF TypeOK
  <1>5. \A q \in Sftps : on'[q] = on[q]
    BY <1>1, <1>2 DEF TypeOK
  <1> QED BY <1>2, <1>4, <1>5 DEF SessionFrame

LEMMA ExecFrame ==
    ASSUME TypeOK, NEW p \in Execs, CatchFinal(p) \/ CatchRefused(p) \/ Retry(p)
    PROVE  SessionFrame
  <1>1. \A q \in Sftps : q # p
    BY CallersAssumption
  <1>2. UNCHANGED <<closed, client, tstate, sharedSftp, sess, connecting, on>>
    BY DEF CatchFinal, CatchRefused, Retry, linkVars, sftpVars, workVars
  <1>3. \E v : pc' = [pc EXCEPT ![p] = v]
    BY DEF CatchFinal, CatchRefused, Retry, Acquire
  <1> QED BY <1>1, <1>2, <1>3 DEF SessionFrame, TypeOK

\* dropTransport shares nothing any more.
LEMMA LostSession ==
    ASSUME TypeOK, SessionCore, NEW p \in Execs, CatchLost(p)
    PROVE  SessionCore'
  <1>1. \A q \in Sftps : q # p
    BY CallersAssumption
  <1>2. \E v : pc' = [pc EXCEPT ![p] = v]
    BY DEF CatchLost, Acquire
  <1>3. \A q \in Sftps : pc'[q] = pc[q]
    BY <1>1, <1>2 DEF TypeOK
  <1>4. /\ client' = None /\ sharedSftp' = None /\ on' = on
        /\ \A q \in Sftps : q # sharedSftp => sess'[q] = sess[q]
    BY DEF CatchLost, DropTransport
  <1> QED BY <1>3, <1>4, CallersAssumption DEF SessionCore, SessionOnClient

LEMMA CloseSession ==
    ASSUME TypeOK, SessionCore, Close
    PROVE  SessionCore'
  <1>1. \A q \in Sftps : pc'[q] \in {pc[q], "failed"}
    BY CallersAssumption DEF Close, FailWaiters, Thrown
  <1>2. /\ client' = None /\ sharedSftp' = None /\ on' = on
        /\ \A q \in Sftps : q # sharedSftp => sess'[q] = sess[q]
    BY DEF Close, DropTransport, workVars
  <1> QED BY <1>1, <1>2, CallersAssumption DEF SessionCore, SessionOnClient

\* The steps of withSftp: StoreSftp shares a session that is open on the client.
LEMMA SftpSession ==
    ASSUME TypeOK, SftpSerialised, SessionCore, OpenedInv, NEW p \in Sftps,
           CallSftp(p) \/ SftpStep(p) \/ SftpServerStep(p)
    PROVE  SessionCore'
  <1> USE DEF workVars, linkVars
  <1>1. p # None /\ sharedSftp \in Sftps \cup {None}
    BY CallersAssumption DEF TypeOK
  <1>2. CASE CallSftp(p)
    <2>1. pc[p] = "idle" /\ pc' = [pc EXCEPT ![p] = "chained"]
          /\ UNCHANGED <<closed, client, connecting, tstate, sharedSftp, sess, on>>
      BY <1>2 DEF CallSftp
    <2> QED BY <1>1, <2>1 DEF SessionCore, SessionOnClient, TypeOK
  <1>3. CASE RunSftp(p)
    <2>1. pc[p] = "chained" /\ UNCHANGED <<closed, client, tstate, sharedSftp, sess>>
      BY <1>3 DEF RunSftp
    <2>2. \/ (\E v \in {"using", "failing"} : pc' = [pc EXCEPT ![p] = v])
             /\ on' = on /\ connecting' = connecting
          \/ /\ client \in Transports /\ pc' = [pc EXCEPT ![p] = "ready"]
             /\ on' = [on EXCEPT ![p] = client] /\ connecting' = connecting
          \/ /\ client = None /\ pc' = [pc EXCEPT ![p] = "connecting"] /\ on' = on
      BY <1>3 DEF RunSftp, EnsureClient, TypeOK
    <2>3. PICK v \in {"using", "failing", "ready", "connecting"} :
            /\ pc' = [pc EXCEPT ![p] = v]
            /\ v = "connecting" => client = None
            /\ v # "connecting" => connecting' = connecting
            /\ v = "ready" => client \in Transports /\ on' = [on EXCEPT ![p] = client]
            /\ v # "ready" => on' = on
      BY <2>2
    <2>4. /\ pc'[p] = v /\ (v = "ready" => on'[p] \in Transports)
          /\ \A q \in Sftps : q # p => pc'[q] = pc[q] /\ on'[q] = on[q]
      BY <2>3 DEF TypeOK
    <2>5. sharedSftp # p
      BY <1>1, <2>1 DEF SessionCore
    <2> QED BY <1>1, <2>1, <2>3, <2>4, <2>5 DEF SessionCore, SessionOnClient
  <1>4. CASE OpenSftp(p)
    <2>1. /\ pc[p] = "ready" /\ UNCHANGED <<closed, client, connecting, tstate, sharedSftp>>
          /\ \/ /\ pc' = [pc EXCEPT ![p] = "opening"] /\ on' = on
                /\ sess' = [sess EXCEPT ![p] = "opening"]
             \/ /\ pc' = [pc EXCEPT ![p] = "failing"] /\ on' = [on EXCEPT ![p] = None]
                /\ sess' = [sess EXCEPT ![p] = "none"]
      BY <1>4 DEF OpenSftp, NoSession
    <2>2. PICK v \in {"opening", "failing"} :
            /\ pc' = [pc EXCEPT ![p] = v]
            /\ on' = on \/ on' = [on EXCEPT ![p] = None]
            /\ sess' = [sess EXCEPT ![p] = IF v = "opening" THEN "opening" ELSE "none"]
            /\ v = "opening" => on' = on
      BY <2>1
    <2>3. /\ pc'[p] = v /\ sess'[p] = (IF v = "opening" THEN "opening" ELSE "none")
          /\ v = "opening" => on'[p] = on[p]
          /\ \A q \in Sftps : q # p => pc'[q] = pc[q] /\ on'[q] = on[q] /\ sess'[q] = sess[q]
      BY <2>2 DEF TypeOK
    <2> QED BY <1>1, <2>1, <2>2, <2>3 DEF SessionCore, SessionOnClient
  <1>5. CASE SftpOpens(p) \/ \E b \in BOOLEAN : SftpRefused(p, b)
    <2>1. /\ pc[p] = "opening" /\ UNCHANGED <<closed, client, connecting, tstate, sharedSftp>>
          /\ \/ /\ pc' = [pc EXCEPT ![p] = "opened"] /\ on' = on
                /\ sess' = [sess EXCEPT ![p] = "open"]
             \/ /\ pc' = [pc EXCEPT ![p] = "failing"] /\ on' = [on EXCEPT ![p] = None]
                /\ sess' = [sess EXCEPT ![p] = "none"]
      BY <1>5 DEF SftpOpens, SftpRefused, NoSession
    <2> QED BY <1>1, <2>1 DEF SessionCore, SessionOnClient, TypeOK
  <1>6. CASE StoreSftp(p)
    <2>1. /\ pc[p] = "opened" /\ pc' = [pc EXCEPT ![p] = "using"] /\ sharedSftp' = p
          /\ UNCHANGED <<closed, client, connecting, tstate, sess, on>>
      BY <1>6 DEF StoreSftp
    <2>2. ~ closed => \/ client # None /\ on[p] = client
                      \/ on[p] # None /\ tstate[on[p]] = "ending"
      BY <2>1, CallersAssumption DEF OpenedInv, Opened, OnClient, OnDropped
    <2> QED BY <1>1, <2>1, <2>2 DEF SessionCore, SessionOnClient, TypeOK
  <1>7. CASE SftpFails(p) \/ SftpDone(p) \/ \E b \in BOOLEAN : SftpOpFails(p, b)
    <2>1. /\ \E v \in {"done", "failed"} : pc' = [pc EXCEPT ![p] = v]
          /\ UNCHANGED <<closed, client, tstate, connecting, on>>
          /\ \/ UNCHANGED <<sharedSftp, sess>>
             \/ sharedSftp' = None /\ sess' = [sess EXCEPT ![held] = IF @ = "open" THEN "ending" ELSE @]
          /\ pc[p] \in {"failing", "using"}
          /\ SftpFails(p) \/ SftpDone(p) => UNCHANGED <<sharedSftp, sess>>
      BY <1>7 DEF SftpFails, SftpDone, SftpOpFails
    <2>2. \A q \in Sftps : pc[q] # "opened"
      BY <2>1 DEF SftpSerialised, IsTurn
    <2>3. \A q \in Sftps : sess[q] = "opening" => sess'[q] = "opening"
      BY <2>1 DEF TypeOK
    <2>4. \A q \in Sftps : pc'[q] = pc[q] \/ pc'[q] \in {"done", "failed"}
      BY <2>1 DEF TypeOK
    <2> QED BY <1>1, <2>1, <2>2, <2>3, <2>4 DEF SessionCore, SessionOnClient
  <1>8. CASE SessionCloses(p)
    <2>1. /\ sess[p] \in {"open", "ending"} /\ sharedSftp' = None
          /\ sess' = [sess EXCEPT ![p] = "none"] /\ on' = [on EXCEPT ![p] = None]
          /\ UNCHANGED <<closed, client, tstate, connecting, pc>>
      BY <1>8 DEF SessionCloses, NoSession
    <2>2. pc[p] \notin {"ready", "opening", "opened"}
      BY <1>8, <2>1 DEF SessionCloses, Quiet, RunnableAt, SessionCore
    <2> QED BY <1>1, <2>1, <2>2 DEF SessionCore, SessionOnClient, TypeOK
  <1> QED BY <1>2, <1>3, <1>4, <1>5, <1>6, <1>7, <1>8 DEF SftpStep, SftpServerStep

\* A transport that goes takes its session along; one that comes finds none.
LEMMA TransportSession ==
    ASSUME TypeOK, SessionCore, NEW t \in Transports, TransportStep(t) \/ Connected(t)
    PROVE  SessionCore'
  <1> USE DEF workVars, linkVars, sftpVars
  <1>1. \A q \in Sftps : q \notin Users
    BY CallersAssumption
  <1>2. t # None /\ sharedSftp \in Sftps \cup {None}
    BY CallersAssumption DEF TypeOK
  <1>3. CASE TransportDies(t)
    <2>1. /\ UNCHANGED <<closed, client, connecting, pc, on, sharedSftp, sess>>
          /\ tstate[t] = "up" /\ tstate' = [tstate EXCEPT ![t] = "dying"]
      BY <1>3 DEF TransportDies
    <2> QED BY <1>2, <2>1 DEF SessionCore, SessionOnClient, TypeOK
  <1>4. CASE TransportEnd(t)
    <2>1. /\ \A q \in Sftps : pc'[q] \in {pc[q], "failed"}
          /\ client' = IF client = t THEN None ELSE client
          /\ sharedSftp' = IF client = t THEN None ELSE sharedSftp
          /\ UNCHANGED <<closed, connecting, on, sess>>
          /\ tstate' = [tstate EXCEPT ![t] = IF @ = "up" THEN "half" ELSE "closing"]
      BY <1>1, <1>4 DEF TransportEnd, OnGone, FailWaiters, Thrown, SessionLeft
    <2> QED BY <1>2, <2>1 DEF SessionCore, SessionOnClient, TypeOK
  <1>5. CASE TransportClose(t)
    <2>1. /\ client' = IF client = t THEN None ELSE client
          /\ sharedSftp' \in {None, IF client = t THEN None ELSE sharedSftp}
          /\ \A q \in Sftps : on'[q] = IF on[q] = t THEN None ELSE on[q]
          /\ \A q \in Sftps : sess'[q] = IF on[q] = t THEN "none" ELSE sess[q]
          /\ UNCHANGED <<closed, connecting>>
          /\ tstate' = [tstate EXCEPT ![t] = "down"]
          /\ (\E q \in Sftps : on[q] = t /\ sess[q] = "open") => sharedSftp' = None
      BY <1>5 DEF TransportClose, OnGone, SessionLeft
    <2>2. ASSUME NEW q \in Sftps
          PROVE  \/ pc'[q] = "failed"
                 \/ on[q] = t /\ pc[q] = "opening" /\ pc'[q] = "failing"
                 \/ ~ (on[q] = t /\ pc[q] = "opening") /\ pc'[q] = pc[q]
      <3> DEFINE hit(x) == x \in Users /\ on[x] = t /\ Live(x)
                 mine(x) == x \in Sftps /\ on[x] = t
                 woken(x) == CASE hit(x) /\ pc[x] = "waiting" /\ Opening(x) -> "failing"
                               [] hit(x) /\ pc[x] = "waiting" /\ ~ Opening(x) -> "finished"
                               [] mine(x) /\ pc[x] = "opening" -> "failing"
                               [] OTHER -> pc[x]
      <3>1. pc'[q] = IF Queued(q) THEN Thrown(q) ELSE woken(q)
        BY <1>5 DEF TransportClose, OnGone, FailWaiters
      <3>2. Thrown(q) = "failed" /\ ~ hit(q)
        BY <1>1 DEF Thrown
      <3>3. woken(q) = IF on[q] = t /\ pc[q] = "opening" THEN "failing" ELSE pc[q]
        <4> HIDE DEF hit
        <4> QED BY <3>2
      <3> HIDE DEF woken
      <3> QED BY <3>1, <3>2, <3>3
    <2>3. \A q \in Sftps : pc[q] \notin {"ready", "opened"}
      BY <1>5 DEF TransportClose, Quiet, RunnableAt
    <2>4. /\ sharedSftp' # None => sharedSftp' = sharedSftp /\ client # t /\ on[sharedSftp] # t
          /\ \A u \in Transports : u # t => tstate'[u] = tstate[u]
          /\ \A q \in Sftps : on[q] \in Transports \cup {None}
      BY <1>2, <2>1 DEF SessionCore, TypeOK
    <2>5. SessionOnClient'
      BY <1>2, <2>1, <2>4 DEF SessionCore, SessionOnClient
    <2> QED BY <1>2, <2>1, <2>2, <2>3, <2>4, <2>5 DEF SessionCore
  <1>6. CASE Connected(t)
    <2>1. /\ connecting /\ ~ connecting' /\ UNCHANGED <<closed, sharedSftp, sess>>
          /\ \/ closed /\ pc' = Resolved(pc, "failing") /\ on' = on
             \/ ~ closed /\ client' = t /\ pc' = Resolved(pc, "ready") /\ on' = Resolved(on, t)
      BY <1>6 DEF Connected
    <2>2. ~ closed => /\ client = None /\ tstate[t] = "none"
                      /\ \A u \in Transports : u # t => tstate'[u] = tstate[u]
      BY <1>6, <2>1, CallersAssumption DEF Connected, SessionCore
    <2>3. \A q \in Sftps : \/ pc'[q] = pc[q] /\ on'[q] = on[q]
                           \/ pc[q] = "connecting" /\ pc'[q] = "failing" /\ on'[q] = on[q]
                           \/ pc[q] = "connecting" /\ pc'[q] = "ready" /\ on'[q] = t
      BY <2>1 DEF Resolved, Sharers, TypeOK
    <2>4. sharedSftp # None => pc'[sharedSftp] = pc[sharedSftp] /\ on'[sharedSftp] = on[sharedSftp]
      BY <1>2, <2>3 DEF SessionCore
    <2>5. SessionOnClient'
      BY <1>2, <2>1, <2>2, <2>4 DEF SessionCore, SessionOnClient, TypeOK
    <2> QED BY <1>2, <2>1, <2>3, <2>4, <2>5 DEF SessionCore
  <1> QED BY <1>3, <1>4, <1>5, <1>6 DEF TransportStep

LEMMA ConnectFailedFrame ==
    ASSUME TypeOK, SessionCore, NEW e, ConnectFailed(e)
    PROVE  SessionCore'
  <1>1. /\ ~ connecting' /\ UNCHANGED <<closed, client, tstate, sharedSftp, sess, on>>
        /\ pc' = Resolved(pc, "failing")
    BY DEF ConnectFailed, sftpVars, workVars
  <1>2. \A q \in Sftps : pc'[q] = pc[q] \/ (pc[q] = "connecting" /\ pc'[q] = "failing")
    BY <1>1 DEF Resolved, Sharers, TypeOK
  <1>3. sharedSftp \in Sftps \cup {None}
    BY DEF TypeOK
  <1> QED BY <1>1, <1>2, <1>3 DEF SessionCore, SessionOnClient

\* Every step.
LEMMA SessionStep ==
    ASSUME TypeOK, SftpSerialised, SessionCore, OpenedInv, [Next]_vars
    PROVE  SessionCore'
  <1>1. ASSUME NEW p \in Users, Call(p) \/ UserStep(p) \/ ServerStep(p) \/ Timeout(p)
        PROVE  SessionCore'
    BY <1>1, UserFrame, FrameKeeps
  <1>2. ASSUME NEW p \in Execs, ExecStep(p) \/ Retry(p)
        PROVE  SessionCore'
    BY <1>2, ExecFrame, FrameKeeps, LostSession DEF ExecStep
  <1>3. CASE Terminating \/ UNCHANGED vars
    <2>1. SessionFrame
      BY <1>3 DEF Terminating, vars, linkVars, sftpVars, workVars, SessionFrame
    <2> QED BY <2>1, FrameKeeps
  <1>4. CASE ConnectSettles
    BY <1>4, TransportSession, ConnectFailedFrame DEF ConnectSettles
  <1> QED BY <1>1, <1>2, <1>3, <1>4, SftpSession, TransportSession, CloseSession DEF Next

\* A session is opened only by the event that opens it.
LEMMA OpenedBefore ==
    ASSUME TypeOK, [Next]_vars, NEW p \in Sftps, ~ SftpOpens(p), pc'[p] = "opened"
    PROVE  pc[p] = "opened"
  <1>1. ASSUME NEW q \in Users, Call(q) \/ UserStep(q) \/ ServerStep(q) \/ Timeout(q)
        PROVE  pc[p] = "opened"
    BY <1>1, UserFrame DEF SessionFrame
  <1>2. ASSUME NEW q \in Execs, ExecStep(q) \/ Retry(q)
        PROVE  pc[p] = "opened"
    <2>1. q # p
      BY CallersAssumption
    <2>2. \E v : pc' = [pc EXCEPT ![q] = v]
      BY <1>2 DEF ExecStep, CatchFinal, CatchRefused, CatchLost, Retry, Acquire
    <2> QED BY <2>1, <2>2 DEF TypeOK
  <1>3. ASSUME NEW q \in Sftps, CallSftp(q) \/ SftpStep(q) \/ SftpServerStep(q)
        PROVE  pc[p] = "opened"
    <2>1. CASE SftpOpens(q)
      <3>1. q # p /\ pc' = [pc EXCEPT ![q] = "opened"]
        BY <2>1 DEF SftpOpens
      <3> QED BY <3>1 DEF TypeOK
    <2>2. CASE ~ SftpOpens(q)
      <3>1. pc' = pc \/ \E v : v # "opened" /\ pc' = [pc EXCEPT ![q] = v]
        BY <1>3, <2>2 DEF SftpStep, SftpServerStep, CallSftp, RunSftp, EnsureClient, OpenSftp,
           StoreSftp, SftpFails, SftpDone, SessionCloses, SftpRefused, SftpOpFails
      <3> QED BY <3>1 DEF TypeOK
    <2> QED BY <2>1, <2>2
  <1>4. CASE Close \/ \E t \in Transports : TransportDies(t) \/ TransportEnd(t)
    <2>1. pc' = pc \/ pc' = [x \in Callers |-> IF Queued(x) THEN Thrown(x) ELSE pc[x]]
      BY <1>4 DEF Close, TransportDies, TransportEnd, OnGone, FailWaiters
    <2> QED BY <2>1 DEF Thrown
  <1>5. ASSUME NEW t \in Transports, TransportClose(t)
        PROVE  pc[p] = "opened"
    <2> DEFINE hit(x) == x \in Users /\ on[x] = t /\ Live(x)
               mine(x) == x \in Sftps /\ on[x] = t
               woken(x) == CASE hit(x) /\ pc[x] = "waiting" /\ Opening(x) -> "failing"
                             [] hit(x) /\ pc[x] = "waiting" /\ ~ Opening(x) -> "finished"
                             [] mine(x) /\ pc[x] = "opening" -> "failing"
                             [] OTHER -> pc[x]
    <2>1. pc'[p] = IF Queued(p) THEN Thrown(p) ELSE woken(p)
      BY <1>5 DEF TransportClose, OnGone, FailWaiters
    <2>2. woken(p) = "opened" => pc[p] = "opened"
      OBVIOUS
    <2> HIDE DEF woken
    <2> QED BY <2>1, <2>2 DEF Thrown
  <1>6. CASE ConnectSettles
    <2>1. \E v \in {"failing", "ready"} : pc' = Resolved(pc, v)
      BY <1>6 DEF ConnectSettles, Connected, ConnectFailed
    <2> QED BY <2>1 DEF Resolved, TypeOK
  <1>7. CASE Terminating \/ UNCHANGED vars
    BY <1>7 DEF Terminating, vars
  <1> QED BY <1>1, <1>2, <1>3, <1>4, <1>5, <1>6, <1>7 DEF Next, TransportStep

\* While a session waits to be stored, the commands that run next fail nothing.
LEMMA OpenedCommands ==
    ASSUME TypeOK, NEW p \in Sftps, pc[p] = "opened", ~ closed, OnClient(p), NEW q \in Users,
           Call(q) \/ UserStep(q) \/ ServerStep(q) \/ Timeout(q)
    PROVE  OnClient(p)'
  <1> USE DEF linkVars, workVars
  <1>1. /\ client \in Transports /\ on[p] = client /\ tstate[client] = "up"
        /\ \A r \in Users : pc[r] \notin CaughtAt /\ (pc[r] = "ready" => on[r] = client)
    BY DEF OnClient
  <1>2. ~ Quiet
    BY DEF Quiet, RunnableAt
  <1>3. on'[p] = on[p] /\ UNCHANGED <<client, tstate>>
    <2>1. on'[p] = on[p] /\ client' = client
      BY UserFrame DEF SessionFrame
    <2> QED BY <2>1 DEF Call, UserStep, ServerStep, Timeout, Resume, Fail, Finish, Ensure, StartExec,
                CommandAsked, StreamOpens, StreamErrs, ExecRefused, StreamCloses
  <1>4. \A r \in Users : pc'[r] \notin CaughtAt /\ (pc'[r] = "ready" => on'[r] = client)
    <2>1. CASE Call(q) \/ Resume(q) \/ Finish(q)
      <3>1. on' = on
        BY <2>1 DEF Call, Resume, Finish
      <3>2. \/ \E v \in {"granted", "queued", "done"} : pc' = [pc EXCEPT ![q] = v]
            \/ \E w \in Users : pc' = [pc EXCEPT ![q] = "done", ![w] = "handed"]
        BY <2>1, QueueTypes DEF Call, Acquire, Resume, Finish, Release
      <3> QED BY <1>1, <3>1, <3>2 DEF CaughtAt, TypeOK
    <2>2. CASE Ensure(q)
      <3>1. pc' = [pc EXCEPT ![q] = "ready"] /\ on' = [on EXCEPT ![q] = client]
        BY <1>1, <2>2, CallersAssumption DEF Ensure, EnsureClient
      <3> QED BY <1>1, <3>1 DEF CaughtAt, TypeOK
    <2>3. CASE StartExec(q)
      <3>1. Writable(on[q])
        BY <1>1, <2>3 DEF StartExec, Writable
      <3>2. pc' = [pc EXCEPT ![q] = "waiting"] /\ on' = on
        BY <2>3, <3>1 DEF StartExec
      <3> QED BY <1>1, <3>2 DEF CaughtAt, TypeOK
    <2>4. ~ Fail(q)
      BY <1>1 DEF Fail, CaughtAt
    <2>5. ~ ServerStep(q) /\ ~ Timeout(q)
      BY <1>2 DEF ServerStep, Timeout, CommandAsked, StreamOpens, StreamErrs, ExecRefused, StreamCloses
    <2> QED BY <2>1, <2>2, <2>3, <2>4, <2>5 DEF UserStep
  <1> QED BY <1>1, <1>3, <1>4 DEF OnClient

\* close() is for good.
LEMMA ClosedStays ==
    ASSUME TypeOK, closed, [Next]_vars
    PROVE  closed'
  <1> USE DEF linkVars, workVars
  <1>1. ASSUME NEW p \in Users, Call(p) \/ UserStep(p) \/ ServerStep(p) \/ Timeout(p)
        PROVE  closed'
    BY <1>1, UserFrame DEF SessionFrame
  <1>2. ASSUME NEW p \in Execs, ExecStep(p) \/ Retry(p)
        PROVE  closed'
    BY <1>2 DEF ExecStep, CatchFinal, CatchRefused, CatchLost, Retry
  <1>3. ASSUME NEW p \in Sftps, CallSftp(p) \/ SftpStep(p) \/ SftpServerStep(p)
        PROVE  closed'
    BY <1>3 DEF SftpStep, SftpServerStep, CallSftp, RunSftp, OpenSftp, StoreSftp, SftpFails,
           SftpOpens, SftpDone, SessionCloses, SftpRefused, SftpOpFails
  <1>4. CASE ConnectSettles \/ Close \/ \E t \in Transports : TransportStep(t)
    BY <1>4 DEF ConnectSettles, Connected, ConnectFailed, Close, TransportStep,
           TransportDies, TransportEnd, TransportClose
  <1>5. CASE Terminating \/ UNCHANGED vars
    BY <1>5 DEF Terminating, vars
  <1> QED BY <1>1, <1>2, <1>3, <1>4, <1>5 DEF Next

\* The session is opened with every reaction done, and stored before the next event.
LEMMA OpenedStep ==
    ASSUME TypeOK, SftpSerialised, Owned, SessionCore, OpenedInv, [Next]_vars
    PROVE  OpenedInv'
  <1> SUFFICES ASSUME NEW p \in Sftps, pc'[p] = "opened", ~ closed'
               PROVE  Opened(p)'
    BY DEF OpenedInv, Opened
  <1> USE DEF linkVars, workVars
  <1>1. CASE SftpOpens(p)
    <2>1. /\ Quiet /\ pc[p] = "opening" /\ tstate[on[p]] \in {"up", "ending"}
          /\ pc' = [pc EXCEPT ![p] = "opened"]
          /\ UNCHANGED <<client, tstate, on>>
      BY <1>1 DEF SftpOpens, Readable
    <2>2. on[p] \in Transports /\ (tstate[on[p]] = "up" => on[p] = client)
      BY <2>1 DEF SessionCore, Owned, NoStrandedTransport
    <2>3. \A q \in Users : pc[q] \notin CaughtAt /\ pc[q] # "ready" /\ pc'[q] = pc[q]
      BY <2>1, CallersAssumption DEF Quiet, RunnableAt, CaughtAt, TypeOK
    <2> QED BY <2>1, <2>2, <2>3 DEF Opened, OnClient, OnDropped
  <1>2. CASE ~ SftpOpens(p)
    <2>1. pc[p] = "opened"
      BY <1>2, OpenedBefore
    <2>2. ~ Quiet
      BY <2>1 DEF Quiet, RunnableAt
    <2>3. \A q \in Sftps : pc[q] \in InTurnAt => q = p
      BY <2>1 DEF SftpSerialised, IsTurn, InTurnAt
    <2>4. CASE closed
      BY <2>4, ClosedStays
    <2>5. CASE ~ closed /\ OnClient(p)
      <3>1. /\ client \in Transports /\ on[p] = client /\ tstate[client] = "up"
            /\ \A r \in Users : pc[r] \notin CaughtAt /\ (pc[r] = "ready" => on[r] = client)
        BY <2>5 DEF OnClient
      <3>2. ASSUME NEW q \in Users, Call(q) \/ UserStep(q) \/ ServerStep(q) \/ Timeout(q)
            PROVE  Opened(p)'
        BY <2>1, <2>5, <3>2, OpenedCommands DEF Opened
      <3>3. ASSUME NEW q \in Execs
            PROVE  ~ ExecStep(q) /\ ~ Retry(q)
        <4>1. q \in Users /\ pc[q] # "caught"
          BY <3>1 DEF CaughtAt
        <4> QED BY <2>2, <4>1 DEF ExecStep, Retry, CatchFinal, CatchRefused, CatchLost
      <3>4. ASSUME NEW q \in Sftps, CallSftp(q) \/ SftpStep(q) \/ SftpServerStep(q)
            PROVE  Opened(p)'
        <4>1. ~ SftpServerStep(q)
          BY <2>2 DEF SftpServerStep, SftpOpens, SftpDone, SessionCloses, SftpRefused, SftpOpFails
        <4>2. ~ OpenSftp(q) /\ ~ SftpFails(q)
          BY <2>1, <2>3 DEF OpenSftp, SftpFails, InTurnAt
        <4>3. ~ StoreSftp(q)
          <5>1. StoreSftp(q) => q = p /\ pc'[q] = "using"
            BY <2>3 DEF StoreSftp, InTurnAt, TypeOK
          <5> QED BY <5>1
        <4>4. ~ RunSftp(q)
          <5>1. IsTurn(p)
            BY <2>1 DEF SftpSerialised
          <5> QED BY <2>1, <5>1 DEF RunSftp, IsTurn
        <4>5. /\ pc' = [pc EXCEPT ![q] = "chained"]
              /\ UNCHANGED <<client, tstate, on>>
          BY <3>4, <4>1, <4>2, <4>3, <4>4 DEF SftpStep, CallSftp
        <4>6. \A r \in Users : pc'[r] = pc[r]
          BY <4>5, CallersAssumption DEF TypeOK
        <4> QED BY <3>1, <4>5, <4>6 DEF Opened, OnClient
      <3>5. ~ ConnectSettles /\ \A t \in Transports : ~ TransportStep(t)
        BY <2>2 DEF ConnectSettles, Connected, ConnectFailed, TransportStep,
                    TransportDies, TransportEnd, TransportClose
      <3>6. ~ Close
        BY DEF Close
      <3>7. CASE Terminating \/ UNCHANGED vars
        BY <3>1, <3>7 DEF Terminating, vars, Opened, OnClient
      <3> QED BY <3>2, <3>3, <3>4, <3>5, <3>6, <3>7 DEF Next
    <2>6. CASE ~ closed /\ OnDropped(p)
      <3>1. ~ ConnectSettles /\ \A t \in Transports : ~ TransportStep(t)
        BY <2>2 DEF ConnectSettles, Connected, ConnectFailed, TransportStep,
                    TransportDies, TransportEnd, TransportClose
      <3>2. on'[p] = on[p]
        <4>1. ASSUME NEW q \in Users, Call(q) \/ UserStep(q) \/ ServerStep(q) \/ Timeout(q)
              PROVE  on'[p] = on[p]
          BY <4>1, UserFrame DEF SessionFrame
        <4>2. ASSUME NEW q \in Execs, ExecStep(q) \/ Retry(q)
              PROVE  on'[p] = on[p]
          BY <4>2 DEF ExecStep, CatchFinal, CatchRefused, CatchLost, Retry
        <4>3. ASSUME NEW q \in Sftps, CallSftp(q) \/ SftpStep(q) \/ SftpServerStep(q)
              PROVE  on'[p] = on[p]
          <5>1. ~ SftpServerStep(q)
            BY <2>2 DEF SftpServerStep, SftpOpens, SftpDone, SessionCloses, SftpRefused, SftpOpFails
          <5>2. ~ OpenSftp(q) /\ (RunSftp(q) => q = p)
            BY <2>1, <2>3 DEF OpenSftp, RunSftp, IsTurn, InTurnAt, SftpSerialised
          <5> QED BY <2>1, <4>3, <5>1, <5>2 DEF SftpStep, CallSftp, RunSftp, StoreSftp, SftpFails
        <4>4. CASE Close \/ Terminating \/ UNCHANGED vars
          BY <4>4 DEF Close, Terminating, vars
        <4> QED BY <3>1, <4>1, <4>2, <4>3, <4>4 DEF Next
      <3>3. tstate'[on[p]] = "ending"
        <4>1. ASSUME NEW q \in Users, Call(q) \/ UserStep(q) \/ ServerStep(q) \/ Timeout(q)
              PROVE  tstate' = tstate
          BY <4>1, UserFrame DEF SessionFrame
        <4>2. ASSUME NEW q \in Execs, CatchFinal(q) \/ CatchRefused(q) \/ Retry(q)
              PROVE  tstate' = tstate
          BY <4>2, ExecFrame DEF SessionFrame
        <4>3. ASSUME NEW q \in Sftps, CallSftp(q) \/ SftpStep(q) \/ SftpServerStep(q)
              PROVE  tstate' = tstate
          BY <4>3 DEF SftpStep, SftpServerStep, CallSftp, RunSftp, OpenSftp, StoreSftp, SftpFails,
                 SftpOpens, SftpDone, SessionCloses, SftpRefused, SftpOpFails
        <4>4. CASE DropTransport
          BY <2>6, <4>4 DEF DropTransport, OnDropped
        <4>5. CASE Terminating \/ UNCHANGED vars
          BY <2>6, <4>5 DEF Terminating, vars, OnDropped
        <4> QED BY <2>6, <3>1, <4>1, <4>2, <4>3, <4>4, <4>5
                DEF Next, ExecStep, CatchLost, Close, OnDropped
      <3> QED BY <2>6, <3>2, <3>3 DEF Opened, OnDropped
    <2> QED BY <2>1, <2>4, <2>5, <2>6 DEF OpenedInv, Opened
  <1> QED BY <1>1, <1>2

-----------------------------------------------------------------------------
(* The theorems. *)

\* Nothing has run, and the transport is the client.
LEMMA CommandInit ==
    ASSUME Init
    PROVE  CommandInv /\ Owned /\ AskedOn /\ SessionCore /\ OpenedInv
  <1>1. \A p \in Users : Limit(p) >= 1 /\ Limit(p) \in Nat
    BY BoundsAssumption DEF Limit
  <1>2. CommandInv
    BY <1>1 DEF Init, CommandInv, Attempt, MayRun, Losses, BeforeAt, CaughtAt, SettledAt
  <1>3. Owned /\ AskedOn
    BY DEF Init, Owned, NoStrandedTransport, AskedOn
  <1>4. SessionCore /\ OpenedInv
    BY DEF Init, SessionCore, SessionOnClient, OpenedInv, Opened
  <1> QED BY <1>2, <1>3, <1>4

\* The invariant holds in every behaviour.
CommandIndInv == IndInv /\ CommandInv /\ Owned /\ AskedOn /\ SessionCore /\ OpenedInv

LEMMA CommandInductive == Spec => []CommandIndInv
  <1>1. Init => CommandIndInv
    BY InitInd, CommandInit DEF CommandIndInv
  <1>2. CommandIndInv /\ [Next]_vars => CommandIndInv'
    BY IndStep, CommandStep, OwnedStep, AskedStep, SessionStep, OpenedStep DEF CommandIndInv, IndInv
  <1> QED BY <1>1, <1>2, PTL DEF Spec

\* execWithRetry: a command that is not declared idempotent is asked of the server once at
\* most, and any other once per connection attempt, whatever is lost, refused or late.
THEOREM RunsBounded == Spec => []BoundedExecution
  <1>1. CommandIndInv => BoundedExecution
    <2> SUFFICES ASSUME CommandIndInv, NEW p \in Users
                 PROVE  asked[p] <= IF p \in Retryable THEN MaxConnectionAttempts ELSE 1
      BY DEF BoundedExecution
    <2>1. asked[p] <= MayRun(p) /\ MayRun(p) <= Limit(p)
          /\ asked[p] \in Nat /\ MayRun(p) \in Nat /\ Limit(p) \in Nat
      BY CountTypes DEF CommandIndInv, IndInv, CommandInv, Attempt
    <2> QED BY <2>1 DEF Limit
  <1> QED BY <1>1, CommandInductive, PTL

\* execOnChannel and execStream: no channel is left open without its call.
THEOREM ChannelsOwned == Spec => []NoOrphanChannel
  <1>1. CommandIndInv => NoOrphanChannel
    BY DEF CommandIndInv, CommandInv, Attempt, NoOrphanChannel
  <1> QED BY <1>1, CommandInductive, PTL

\* connect, onGone and dropTransport: a transport that works is the client.
THEOREM TransportsOwned == Spec => []NoStrandedTransport
  <1>1. CommandIndInv => NoStrandedTransport
    BY DEF CommandIndInv, Owned
  <1> QED BY <1>1, CommandInductive, PTL

\* close(): no command is asked of the server once it has returned, since no transport
\* stays or becomes writable, not even one that connects late.
THEOREM ClosedForGood == Spec => NothingAskedAfterClose
  <1>1. CommandIndInv /\ [Next]_vars => [closed => asked' = asked]_vars
    <2> SUFFICES ASSUME CommandIndInv, Next, closed PROVE asked' = asked
      OBVIOUS
    <2>1. ASSUME NEW p \in Users, CommandAsked(p) PROVE FALSE
      <3>1. on[p] \in Transports
        BY <2>1 DEF CommandAsked, CommandIndInv, AskedOn
      <3>2. client = None /\ on[p] # client
        BY <3>1, CallersAssumption DEF CommandIndInv, Owned
      <3> QED BY <2>1, <3>1, <3>2 DEF CommandAsked, Writable, CommandIndInv, Owned, NoStrandedTransport
    <2>2. ASSUME NEW p \in Users, Call(p) \/ UserStep(p) \/ ServerStep(p) \/ Timeout(p)
          PROVE  asked' = asked
      BY <2>1, <2>2 DEF Call, UserStep, ServerStep, Timeout, Resume, Fail, Finish, Ensure, StartExec,
                StreamOpens, StreamErrs, ExecRefused, StreamCloses, workVars
    <2>3. ASSUME NEW p \in Execs, ExecStep(p) \/ Retry(p)
          PROVE  asked' = asked
      BY <2>3 DEF ExecStep, CatchFinal, CatchRefused, CatchLost, Retry, workVars
    <2>4. ASSUME NEW p \in Sftps, CallSftp(p) \/ SftpStep(p) \/ SftpServerStep(p)
          PROVE  asked' = asked
      BY <2>4 DEF SftpStep, SftpServerStep, CallSftp, RunSftp, OpenSftp, StoreSftp, SftpFails,
             SftpOpens, SftpDone, SessionCloses, SftpRefused, SftpOpFails, workVars
    <2>5. CASE ConnectSettles \/ Close \/ Terminating \/ \E t \in Transports : TransportStep(t)
      BY <2>5 DEF ConnectSettles, Connected, ConnectFailed, Close, Terminating, TransportStep,
             TransportDies, TransportEnd, TransportClose, workVars, vars
    <2> QED BY <2>2, <2>3, <2>4, <2>5 DEF Next
  <1> QED BY <1>1, CommandInductive, PTL DEF Spec, NothingAskedAfterClose

\* getSftp, adopt and dropTransport: until close(), the session that calls share is one
\* of the transport in use, or it opened after its transport was dropped, which is closing.
THEOREM SessionOwned == Spec => []SessionOnClient
  <1>1. CommandIndInv => SessionOnClient
    BY DEF CommandIndInv, SessionCore
  <1> QED BY <1>1, CommandInductive, PTL

=============================================================================
