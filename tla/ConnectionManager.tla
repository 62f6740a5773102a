-------------------------- MODULE ConnectionManager --------------------------
(***************************************************************************)
(* The targets of the server (src/src/connection-manager.ts,               *)
(* requireConnection of tool-utils.ts, shutdown of index.ts): all are      *)
(* dialed at startup; one that is offline is dialed again by a tool call   *)
(* that names it, at most once per cooldown, and the calls that come       *)
(* meanwhile join that attempt.                                            *)
(*                                                                         *)
(* An attempt is known by its target and by who started it, as is the pool *)
(* it opens.  Connecting wipes the target's mirror, where the calls of a   *)
(* connected target stage their files.                                     *)
(***************************************************************************)
EXTENDS Naturals

CONSTANTS Targets, Calls,
          Main,          \* who dials at startup
          MirrorOf,      \* the mirror directory of a target
          Cooldown,      \* RETRY_COOLDOWN_MS
          SaveFails,     \* saving a manifest may throw
          MaxTime,       \* bound on the clock
          None

Starters == Calls \cup {Main}
Mirrors == {MirrorOf[t] : t \in Targets}

ASSUME ManagerAssumption ==
    /\ Main \notin Calls /\ None \notin Targets \cup Starters \cup Nat
    /\ Cooldown \in Nat \ {0} /\ MaxTime \in Nat /\ SaveFails \in BOOLEAN

VARIABLES
    phase,        \* of the server
    now,
    attempts,     \* the connection attempts under way
    open,         \* the pools that are open
    connections,  \* who made the connection of a target
    failed,       \* failedTargets: when a target was last tried
    retry,        \* retryInFlight: who started it
    holds,        \* the targets whose staged files each mirror holds
    pc, target,   \* of each call
    joined,       \* who started the retry that a call awaits
    endedAt       \* history: when the last attempt on a target failed

mapVars == <<connections, failed, retry>>
callVars == <<pc, target, joined>>
vars == <<phase, now, attempts, open, mapVars, holds, callVars, endedAt>>

Stages == {"dialing", "dialed", "probing"}
Attempt(t, s, stage) == [target |-> t, by |-> s, stage |-> stage]
On(t) == {a \in attempts : a.target = t}
ShuttingDown == phase \in {"closing", "signalled"}
Serving == phase \in {"serving", "closed"} \/ ShuttingDown
Ended(c) == pc[c] \in {"answered", "refused"}

TypeOK ==
    /\ phase \in {"starting", "serving", "closing", "signalled", "closed", "exited"}
    /\ now \in 1..(MaxTime + 1)
    /\ attempts \subseteq [target : Targets, by : Starters, stage : Stages]
    /\ open \subseteq Targets \X Starters
    /\ connections \in [Targets -> Starters \cup {None}]
    /\ failed \in [Targets -> Nat \cup {None}]
    /\ retry \in [Targets -> Calls \cup {None}]
    /\ holds \in [Mirrors -> SUBSET Targets]
    /\ pc \in [Calls -> {"idle", "waiting", "using", "staged", "answered", "refused"}]
    /\ target \in [Calls -> Targets \cup {None}]
    /\ joined \in [Calls -> Calls \cup {None}]
    /\ \A c \in Calls : pc[c] = "waiting" <=> joined[c] # None
    /\ endedAt \in [Targets -> Nat]

\* connectAll starts an attempt on every target.
Init ==
    /\ phase = "starting" /\ now = 1
    /\ attempts = {Attempt(t, Main, "dialing") : t \in Targets}
    /\ open = {}
    /\ connections = [t \in Targets |-> None]
    /\ failed = [t \in Targets |-> None]
    /\ retry = [t \in Targets |-> None]
    /\ holds = [m \in Mirrors |-> {}]
    /\ pc = [c \in Calls |-> "idle"]
    /\ target = [c \in Calls |-> None]
    /\ joined = [c \in Calls |-> None]
    /\ endedAt = [t \in Targets |-> 0]

-----------------------------------------------------------------------------
(* connectStartup and finishConnect. *)

\* createSSHConnection resolves: the transport is up.
Dialed(a) ==
    /\ a.stage = "dialing"
    /\ attempts' = (attempts \ {a}) \cup {[a EXCEPT !.stage = "dialed"]}
    /\ open' = open \cup {<<a.target, a.by>>}
    /\ UNCHANGED <<phase, now, mapVars, holds, callVars, endedAt>>

\* The mirror is deleted and made anew, the manifest starts empty.
Wipe(a) ==
    /\ a.stage = "dialed"
    /\ attempts' = (attempts \ {a}) \cup {[a EXCEPT !.stage = "probing"]}
    /\ holds' = [holds EXCEPT ![MirrorOf[a.target]] = {}]
    /\ UNCHANGED <<phase, now, open, mapVars, callVars, endedAt>>

\* Mutant: the calls that joined a retry are forgotten.
ResumeStarterOnly(a, outcome) ==
    /\ pc' = [c \in Calls |-> IF c = a.by THEN outcome ELSE pc[c]]
    /\ joined' = [c \in Calls |-> IF c = a.by THEN None ELSE joined[c]]
    /\ retry' = IF retry[a.target] = a.by THEN [retry EXCEPT ![a.target] = None] ELSE retry
    /\ UNCHANGED target

\* Mutant: the entry of an ended retry stays.
ResumeKeepsEntry(a, outcome) ==
    /\ pc' = [c \in Calls |-> IF target[c] = a.target /\ joined[c] = a.by
                              THEN outcome ELSE pc[c]]
    /\ joined' = [c \in Calls |-> IF target[c] = a.target /\ joined[c] = a.by
                                  THEN None ELSE joined[c]]
    /\ UNCHANGED <<retry, target>>

\* The retry ends: its entry goes, and the calls that joined it resume.
Resume(a, outcome) ==
    /\ pc' = [c \in Calls |-> IF target[c] = a.target /\ joined[c] = a.by
                              THEN outcome ELSE pc[c]]
    /\ joined' = [c \in Calls |-> IF target[c] = a.target /\ joined[c] = a.by
                                  THEN None ELSE joined[c]]
    /\ retry' = IF retry[a.target] = a.by THEN [retry EXCEPT ![a.target] = None] ELSE retry
    /\ UNCHANGED target

\* The probes of the platform end, well or not.
Connected(a) ==
    /\ a.stage = "probing"
    /\ attempts' = attempts \ {a}
    /\ connections' = [connections EXCEPT ![a.target] = a.by]
    /\ failed' = [failed EXCEPT ![a.target] = None]
    /\ Resume(a, "using")
    /\ UNCHANGED <<phase, now, open, holds, endedAt>>

\* Mutant: a failure keeps the time its attempt began.
RecordKeepsStart(t) == UNCHANGED failed

RecordFailure(t) == failed' = [failed EXCEPT ![t] = now]

\* A retry that fails is recorded at once, a target that fails at startup when
\* connectAll has them all.
DialFails(a) ==
    /\ a.stage = "dialing"
    /\ attempts' = attempts \ {a}
    /\ endedAt' = [endedAt EXCEPT ![a.target] = now]
    /\ IF a.by = Main THEN UNCHANGED failed ELSE RecordFailure(a.target)
    /\ Resume(a, "refused")
    /\ UNCHANGED <<phase, now, open, connections, holds>>

\* connectAll: no target at all ends the server.
ConnectedAll ==
    /\ phase = "starting" /\ attempts = {}
    /\ failed' = [t \in Targets |-> IF connections[t] = None THEN now ELSE None]
    /\ phase' = IF \A t \in Targets : connections[t] = None THEN "exited" ELSE "serving"
    /\ UNCHANGED <<now, attempts, open, connections, retry, holds, callVars, endedAt>>

-----------------------------------------------------------------------------
(* requireConnection, get and retryFailed. *)

Asks(c, t) ==
    /\ Serving /\ pc[c] = "idle"
    /\ target' = [target EXCEPT ![c] = t]

\* get: the target named, or the only one connected.
Use(c, t) ==
    /\ Asks(c, t)
    /\ connections[t] # None
    /\ pc' = [pc EXCEPT ![c] = "using"]
    /\ UNCHANGED <<phase, now, attempts, open, mapVars, holds, joined, endedAt>>

\* Without a target, only when one target alone is connected.
RefuseUnnamed(c) ==
    /\ Asks(c, None)
    /\ ~ \E t \in Targets : {u \in Targets : connections[u] # None} = {t}
    /\ pc' = [pc EXCEPT ![c] = "refused"]
    /\ UNCHANGED <<phase, now, attempts, open, mapVars, holds, joined, endedAt>>

\* A target that close() has forgotten, too.
RefuseUnknown(c, t) ==
    /\ Asks(c, t)
    /\ connections[t] = None /\ failed[t] = None
    /\ pc' = [pc EXCEPT ![c] = "refused"]
    /\ UNCHANGED <<phase, now, attempts, open, mapVars, holds, joined, endedAt>>

Join(c, t) ==
    /\ Asks(c, t)
    /\ connections[t] = None /\ failed[t] # None
    /\ retry[t] # None
    /\ pc' = [pc EXCEPT ![c] = "waiting"]
    /\ joined' = [joined EXCEPT ![c] = retry[t]]
    /\ UNCHANGED <<phase, now, attempts, open, mapVars, holds, endedAt>>

\* Still offline: not due yet.
Throttled(c, t) ==
    /\ Asks(c, t)
    /\ connections[t] = None /\ failed[t] # None
    /\ retry[t] = None /\ now < failed[t] + Cooldown
    /\ pc' = [pc EXCEPT ![c] = "refused"]
    /\ UNCHANGED <<phase, now, attempts, open, mapVars, holds, joined, endedAt>>

\* Mutant: a retry under way is not looked for.
RetryUnshared(c, t) ==
    /\ Asks(c, t)
    /\ connections[t] = None /\ failed[t] # None
    /\ now >= failed[t] + Cooldown
    /\ failed' = [failed EXCEPT ![t] = now]
    /\ attempts' = attempts \cup {Attempt(t, c, "dialing")}
    /\ retry' = [retry EXCEPT ![t] = c]
    /\ pc' = [pc EXCEPT ![c] = "waiting"]
    /\ joined' = [joined EXCEPT ![c] = c]
    /\ UNCHANGED <<phase, now, open, connections, holds, endedAt>>

\* doRetryFailed: the time is noted before the dialing.
Retry(c, t) ==
    /\ Asks(c, t)
    /\ connections[t] = None /\ failed[t] # None
    /\ retry[t] = None /\ now >= failed[t] + Cooldown
    /\ failed' = [failed EXCEPT ![t] = now]
    /\ attempts' = attempts \cup {Attempt(t, c, "dialing")}
    /\ retry' = [retry EXCEPT ![t] = c]
    /\ pc' = [pc EXCEPT ![c] = "waiting"]
    /\ joined' = [joined EXCEPT ![c] = c]
    /\ UNCHANGED <<phase, now, open, connections, holds, endedAt>>

-----------------------------------------------------------------------------
(* What a call does with its connection (see SyncEngine). *)

Stage(c) ==
    /\ Serving /\ pc[c] = "using"
    /\ holds' = [holds EXCEPT ![MirrorOf[target[c]]] = @ \cup {target[c]}]
    /\ pc' = [pc EXCEPT ![c] = "staged"]
    /\ UNCHANGED <<phase, now, attempts, open, mapVars, target, joined, endedAt>>

AnswerCall(c) ==
    /\ Serving /\ pc[c] = "staged"
    /\ pc' = [pc EXCEPT ![c] = "answered"]
    /\ UNCHANGED <<phase, now, attempts, open, mapVars, holds, target, joined, endedAt>>

-----------------------------------------------------------------------------
(* shutdown: the connections are closed one by one, and the process exits. *)

\* By a signal, or by an error that nobody handles.
Shutdown(cause) ==
    /\ phase = "serving"
    /\ phase' = cause
    /\ UNCHANGED <<now, attempts, open, mapVars, holds, callVars, endedAt>>

ClosePool(t) ==
    /\ ShuttingDown
    /\ connections[t] # None /\ <<t, connections[t]>> \in open
    /\ open' = open \ {<<t, connections[t]>>}
    /\ UNCHANGED <<phase, now, attempts, mapVars, holds, callVars, endedAt>>

AllClosed == \A t \in Targets : connections[t] # None => <<t, connections[t]>> \notin open

\* All are closed, or saving a manifest has thrown.
Exit ==
    /\ phase = "closing"
    /\ SaveFails \/ AllClosed
    /\ phase' = "exited"
    /\ UNCHANGED <<now, attempts, open, mapVars, holds, callVars, endedAt>>

\* A signal's listener gets its name, which process.exit refuses as an exit code;
\* the rejection calls shutdown, which has begun already: the process goes on.
ExitRefused ==
    /\ phase = "signalled"
    /\ \/ /\ AllClosed
          /\ connections' = [t \in Targets |-> None]
          /\ failed' = [t \in Targets |-> None]
          /\ retry' = [t \in Targets |-> None]
       \/ SaveFails /\ UNCHANGED mapVars
    /\ phase' = "closed"
    /\ UNCHANGED <<now, attempts, open, holds, callVars, endedAt>>

Tick ==
    /\ phase # "exited" /\ now <= MaxTime
    /\ now' = now + 1
    /\ UNCHANGED <<phase, attempts, open, mapVars, holds, callVars, endedAt>>

-----------------------------------------------------------------------------
Progress(a) == phase # "exited" /\ a \in attempts /\ (Dialed(a) \/ Wipe(a) \/ Connected(a))
Terminating == (phase = "exited" \/ \A c \in Calls : Ended(c)) /\ UNCHANGED vars

AllAttempts == [target : Targets, by : Starters, stage : Stages]

Next ==
    \/ \E a \in AllAttempts : Progress(a)
    \/ \E a \in attempts : phase # "exited" /\ DialFails(a)
    \/ ConnectedAll
    \/ \E c \in Calls, t \in Targets :
          Use(c, t) \/ RefuseUnknown(c, t) \/ Join(c, t) \/ Throttled(c, t) \/ Retry(c, t)
    \/ \E c \in Calls : RefuseUnnamed(c) \/ Stage(c) \/ AnswerCall(c)
    \/ \E cause \in {"closing", "signalled"} : Shutdown(cause)
    \/ Exit \/ ExitRefused
    \/ \E t \in Targets : ClosePool(t)
    \/ Tick
    \/ Terminating

Spec == Init /\ [][Next]_vars

\* A dial ends, by its own timeout; the probes have one each.  Closing a pool
\* and saving a manifest end, too.
FairSpec ==
    /\ Spec
    /\ \A t \in Targets, s \in Starters :
         WF_vars(phase # "exited" /\ \E a \in attempts :
                   /\ a.target = t /\ a.by = s
                   /\ Dialed(a) \/ DialFails(a) \/ Wipe(a) \/ Connected(a))
    /\ \A c \in Calls : WF_vars(Stage(c) \/ AnswerCall(c))
    /\ WF_vars(Exit \/ ExitRefused \/ \E t \in Targets : ClosePool(t))

-----------------------------------------------------------------------------
(* Properties. *)

\* One attempt on a target at a time, whoever calls and however slow it is, and
\* none on a target that is connected ("should not exist", doRetryFailed).
Unshared ==
    \A t \in Targets :
      /\ \A a, b \in On(t) : a = b
      /\ On(t) # {} => connections[t] = None

\* An open pool is the one a connection uses or one an attempt is making: none
\* is left behind by another that took its place.
NoStrayPool ==
    \A p \in open : connections[p[1]] = p[2] \/ \E a \in On(p[1]) : a.by = p[2]

\* Attempts do not get in each other's way: one at a time on a target, and no pool
\* of an earlier one is left open.
OneAttempt == Unshared /\ NoStrayPool

\* An entry of retryInFlight is that of an attempt still under way, so that an
\* offline target is never refused a retry for one that is over.
RetryIsLive == \A t \in Targets : retry[t] # None => \E a \in On(t) : a.by = retry[t]

\* "Minimum time between reconnect attempts": counted from the end of the last
\* one, which may have been dialing for longer than the cooldown.
CooldownKept ==
    [][\A a \in attempts' : a.target \notin {b.target : b \in attempts}
          => now >= endedAt[a.target] + Cooldown]_vars

\* A call that joins a retry is answered.
JoinersAnswered == \A c \in Calls : pc[c] = "waiting" ~> pc[c] # "waiting" \/ phase = "exited"

-----------------------------------------------------------------------------
(* What is said of the code and it does not keep: README, section Deviations. *)

\* What a call staged is still in the mirror when it goes on with it.
StagedStays ==
    \A c \in Calls : pc[c] = "staged" => target[c] \in holds[MirrorOf[target[c]]]

\* The server's own shutdown leaves no transport to the operating system.
ShutdownClosesAll == phase = "exited" => open = {}

\* A server that shuts down exits, whatever made it shut down.
ShutdownEnds == ShuttingDown ~> phase = "exited"

=============================================================================
