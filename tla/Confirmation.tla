---------------------------- MODULE Confirmation ----------------------------
(***************************************************************************)
(* The two-step gate of remote_bash, remote_pull and remote_push           *)
(* (src/src/confirmation.ts, elicitation.ts and the three handlers): a     *)
(* guarded operation is preflighted by one call and run by a second one    *)
(* with force, within ten minutes.  remote_bash also asks the user where   *)
(* the target's elicitation is on; then the user's answer alone decides.   *)
(*                                                                         *)
(* An operation stands for what its confirmation key holds: the command    *)
(* and directory, or both paths with the type and sizes of a transfer.     *)
(* Only operations that need the gate are modelled: commands outside the   *)
(* root and large transfers.                                               *)
(***************************************************************************)
EXTENDS Naturals

CONSTANTS Calls, Targets,
          Commands, Transfers,   \* the operations
          Prompting,     \* the targets whose user is asked
          TTL,           \* CONFIRMATION_TTL_MS
          MaxTime,       \* bound on the clock
          None

Operations == Commands \cup Transfers

ASSUME GateAssumption ==
    /\ Prompting \subseteq Targets
    /\ Commands \cap Transfers = {}
    /\ TTL \in Nat \ {0} /\ MaxTime \in Nat
    /\ None \notin Targets \cup Operations \cup Nat

VARIABLES
    now,
    expires,       \* pendingConfirmations: when each operation's expires
    target, op, force,   \* what each call asked for
    pc,
    preflights,    \* history: how often an operation was left pending,
    preflightOn,   \* when that was last done, and for which target,
    spent          \* and how often it ran on an acknowledgement alone

requestVars == <<target, op, force>>
historyVars == <<preflights, preflightOn, spent>>
vars == <<now, expires, requestVars, pc, historyVars>>

Pcs == {"idle", "asking", "asking_acked", "ran", "approved", "stopped", "declined", "errored"}
Ended(c) == pc[c] \in {"ran", "approved", "stopped", "declined", "errored"}
Never == [time |-> 0, target |-> None]

TypeOK ==
    /\ now \in 1..(MaxTime + 1)
    /\ expires \in [Operations -> Nat \cup {None}]
    /\ target \in [Calls -> Targets \cup {None}]
    /\ op \in [Calls -> Operations \cup {None}]
    /\ force \in [Calls -> BOOLEAN]
    /\ pc \in [Calls -> Pcs]
    /\ \A c \in Calls : pc[c] # "idle" => target[c] \in Targets /\ op[c] \in Operations
    /\ preflights \in [Operations -> Nat] /\ spent \in [Operations -> Nat]
    /\ preflightOn \in [Operations -> [time : Nat, target : Targets \cup {None}]]

Init ==
    /\ now = 1
    /\ expires = [o \in Operations |-> None]
    /\ target = [c \in Calls |-> None] /\ op = [c \in Calls |-> None]
    /\ force = [c \in Calls |-> FALSE]
    /\ pc = [c \in Calls |-> "idle"]
    /\ preflights = [o \in Operations |-> 0] /\ spent = [o \in Operations |-> 0]
    /\ preflightOn = [o \in Operations |-> Never]

-----------------------------------------------------------------------------
(* checkConfirmation, for an operation that needs it. *)

\* Mutant: an entry never expires.
FreshForever(o) == expires[o] # None

\* hasFreshConfirmation; an expired entry is deleted, which a request undoes.
Fresh(o) == expires[o] # None /\ expires[o] > now

Preflight(o, t) ==
    /\ ~ Fresh(o)
    /\ expires' = [expires EXCEPT ![o] = now + TTL]
    /\ preflights' = [preflights EXCEPT ![o] = @ + 1]
    /\ preflightOn' = [preflightOn EXCEPT ![o] = [time |-> now, target |-> t]]

\* Without force, a fresh entry stays.
NeedsForce(o, f) == Fresh(o) /\ ~ f /\ UNCHANGED <<expires, preflights, preflightOn>>

\* Mutant: the entry is left for the next call.
ConsumeNothing(o, f) == Fresh(o) /\ f /\ UNCHANGED <<expires, preflights, preflightOn>>

Consume(o, f) ==
    /\ Fresh(o) /\ f
    /\ expires' = [expires EXCEPT ![o] = None]
    /\ UNCHANGED <<preflights, preflightOn>>

-----------------------------------------------------------------------------
(* A call. *)

\* Mutant: what a call asked for is not noted.
AskedForgets(c, t, o, f) ==
    /\ pc[c] = "idle"
    /\ UNCHANGED <<now, requestVars>>

Asked(c, t, o, f) ==
    /\ pc[c] = "idle"
    /\ target' = [target EXCEPT ![c] = t]
    /\ op' = [op EXCEPT ![c] = o]
    /\ force' = [force EXCEPT ![c] = f]
    /\ UNCHANGED now

\* The first of the two calls, or a second one without force.
Stopped(c, o, f) ==
    /\ Preflight(o, target'[c]) \/ NeedsForce(o, f)
    /\ pc' = [pc EXCEPT ![c] = "stopped"]
    /\ UNCHANGED spent

\* The second call: it runs on the acknowledgement.
Acknowledged(c, o, f) ==
    /\ Consume(o, f)
    /\ pc' = [pc EXCEPT ![c] = "ran"]
    /\ spent' = [spent EXCEPT ![o] = @ + 1]

\* remote_pull, and remote_push alike.
TransferCall(c, t, o, f) ==
    /\ o \in Transfers
    /\ Asked(c, t, o, f)
    /\ Stopped(c, o, f) \/ Acknowledged(c, o, f)

\* remote_bash where the user cannot be asked.
BashCall(c, t, o, f) ==
    /\ o \in Commands /\ t \notin Prompting
    /\ Asked(c, t, o, f)
    /\ Stopped(c, o, f) \/ Acknowledged(c, o, f)

\* Where the user is asked, the gate comes first and its outcome is kept.
BashAsks(c, t, o, f) ==
    /\ o \in Commands /\ t \in Prompting
    /\ Asked(c, t, o, f)
    /\ \/ /\ Preflight(o, t) \/ NeedsForce(o, f)
          /\ pc' = [pc EXCEPT ![c] = "asking"]
       \/ /\ Consume(o, f)
          /\ pc' = [pc EXCEPT ![c] = "asking_acked"]
    /\ UNCHANGED spent

\* Mutant: an acknowledged call goes on when the prompt fails.
AnswerFallsThrough(c, answer) ==
    /\ pc[c] \in {"asking", "asking_acked"}
    /\ pc' = [pc EXCEPT ![c] =
                IF answer = "errored" /\ pc[c] = "asking_acked" THEN "ran" ELSE answer]
    /\ UNCHANGED <<now, expires, requestVars, historyVars>>

\* confirmWithUser: accepted with a yes, declined or answered no, or an error.
Answer(c, answer) ==
    /\ pc[c] \in {"asking", "asking_acked"}
    /\ pc' = [pc EXCEPT ![c] = answer]
    /\ UNCHANGED <<now, expires, requestVars, historyVars>>

Tick ==
    /\ now <= MaxTime
    /\ now' = now + 1
    /\ UNCHANGED <<expires, requestVars, pc, historyVars>>

Terminating == (\A c \in Calls : Ended(c)) /\ UNCHANGED vars

Next ==
    \/ \E c \in Calls, t \in Targets, o \in Operations, f \in BOOLEAN :
          TransferCall(c, t, o, f) \/ BashCall(c, t, o, f) \/ BashAsks(c, t, o, f)
    \/ \E c \in Calls, answer \in {"approved", "declined", "errored"} : Answer(c, answer)
    \/ Tick
    \/ Terminating

Spec == Init /\ [][Next]_vars

-----------------------------------------------------------------------------
(* Properties. *)

\* Each preflight lets its operation run once at most without the user's yes,
\* however the calls overlap.
OneRunPerPreflight == \A o \in Operations : spent[o] <= preflights[o]

\* An operation that runs on an acknowledgement was preflighted by an earlier
\* call less than the ten minutes ago.
RunsWhileFresh ==
    [][\A o \in Operations : spent'[o] # spent[o]
          => preflights[o] > 0 /\ now < preflightOn[o].time + TTL]_vars

\* Where the user is asked, only a yes runs the command: an acknowledgement
\* given before does not, nor does a prompt that failed.
OnlyTheUserDecides ==
    \A c \in Calls : target[c] \in Prompting /\ op[c] \in Commands => pc[c] # "ran"

-----------------------------------------------------------------------------
(* What is said of the code and it does not keep: README, section Deviations. *)

\* "Two-step confirmation": an operation runs on a target on an acknowledgement
\* only after a first call for that target.
TwoStepsPerTarget ==
    [][\A c \in Calls : pc[c] # "ran" /\ pc'[c] = "ran"
          => preflightOn[op'[c]].target = target'[c]]_vars

=============================================================================
