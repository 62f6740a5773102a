------------------------- MODULE ConfirmationProofs -------------------------
(***************************************************************************)
(* Proofs about Confirmation, for any calls, targets, operations and TTL.  *)
(***************************************************************************)
EXTENDS Confirmation, TLAPS

\* An entry that is there has not been spent yet.
Unspent ==
    \A o \in Operations :
      spent[o] + (IF expires[o] = None THEN 0 ELSE 1) <= preflights[o]

\* An entry expires TTL after its operation was last left pending.
EntryDated ==
    \A o \in Operations : expires[o] # None => expires[o] = preflightOn[o].time + TTL

IndInv == TypeOK /\ Unspent /\ EntryDated /\ OnlyTheUserDecides

\* The invariant of the gate, and that of the calls.
GateInv ==
    /\ expires \in [Operations -> Nat \cup {None}]
    /\ preflights \in [Operations -> Nat] /\ spent \in [Operations -> Nat]
    /\ preflightOn \in [Operations -> [time : Nat, target : Targets \cup {None}]]
    /\ Unspent /\ EntryDated

CallInv ==
    /\ now \in 1..(MaxTime + 1)
    /\ target \in [Calls -> Targets \cup {None}]
    /\ op \in [Calls -> Operations \cup {None}]
    /\ force \in [Calls -> BOOLEAN]
    /\ pc \in [Calls -> Pcs]
    /\ \A d \in Calls : pc[d] # "idle" => target[d] \in Targets /\ op[d] \in Operations
    /\ OnlyTheUserDecides

\* Together they are the invariant.
LEMMA Halves == GateInv' /\ CallInv' => IndInv'
  BY DEF GateInv, CallInv, IndInv, TypeOK

-----------------------------------------------------------------------------
(* The first state. *)

\* Nothing is pending and nobody has called.
LEMMA InitInd == Init => IndInv
  BY GateAssumption
     DEF Init, IndInv, TypeOK, Unspent, EntryDated, OnlyTheUserDecides, Pcs, Never

-----------------------------------------------------------------------------
(* The pieces of a call. *)

\* What the gate does to the entries keeps their types, and leaves every
\* operation with no more runs than preflights.
LEMMA GateKeeps ==
    ASSUME TypeOK, Unspent, EntryDated,
           NEW t \in Targets, NEW o \in Operations, NEW f \in BOOLEAN,
           \/ (Preflight(o, t) \/ NeedsForce(o, f)) /\ UNCHANGED spent
           \/ Consume(o, f) /\ spent' = [spent EXCEPT ![o] = @ + 1]
           \/ Consume(o, f) /\ UNCHANGED spent
    PROVE  GateInv'
  <1>1. CASE Preflight(o, t) /\ UNCHANGED spent
    <2>1. now + TTL \in Nat
      BY GateAssumption DEF TypeOK
    <2>2. now + TTL # None
      BY <2>1, GateAssumption
    <2>3. expires' \in [Operations -> Nat \cup {None}] /\ preflights' \in [Operations -> Nat]
      BY <1>1, <2>1 DEF Preflight, TypeOK
    <2>4. preflightOn' \in [Operations -> [time : Nat, target : Targets \cup {None}]]
      BY <1>1, GateAssumption DEF Preflight, TypeOK
    <2>5. Unspent'
      BY <1>1, <2>2, GateAssumption DEF Preflight, Unspent, TypeOK
    <2>6. EntryDated'
      BY <1>1, <2>1, GateAssumption DEF Preflight, EntryDated, TypeOK
    <2> QED BY <1>1, <2>3, <2>4, <2>5, <2>6 DEF TypeOK, GateInv
  <1>2. CASE NeedsForce(o, f) /\ UNCHANGED spent
    BY <1>2 DEF NeedsForce, Unspent, EntryDated, TypeOK, GateInv
  <1>3. CASE Consume(o, f) /\ spent' = [spent EXCEPT ![o] = @ + 1]
    <2>1. expires' \in [Operations -> Nat \cup {None}] /\ spent' \in [Operations -> Nat]
      BY <1>3 DEF Consume, TypeOK
    <2>2. Unspent'
      BY <1>3 DEF Consume, Fresh, Unspent, TypeOK
    <2>3. EntryDated'
      BY <1>3 DEF Consume, EntryDated, TypeOK
    <2> QED BY <1>3, <2>1, <2>2, <2>3 DEF Consume, TypeOK, GateInv
  <1>4. CASE Consume(o, f) /\ UNCHANGED spent
    <2>1. expires' \in [Operations -> Nat \cup {None}]
      BY <1>4 DEF Consume, TypeOK
    <2>2. Unspent'
      BY <1>4 DEF Consume, Fresh, Unspent, TypeOK
    <2>3. EntryDated'
      BY <1>4 DEF Consume, EntryDated, TypeOK
    <2> QED BY <1>4, <2>1, <2>2, <2>3 DEF Consume, TypeOK, GateInv
  <1> QED BY <1>1, <1>2, <1>3, <1>4

\* A call that notes what it asked for and goes on at a counter which is "ran"
\* only where the user is not asked.
LEMMA AskedKeeps ==
    ASSUME TypeOK, OnlyTheUserDecides,
           NEW c \in Calls, NEW t \in Targets, NEW o \in Operations, NEW f \in BOOLEAN,
           NEW next \in Pcs, next = "ran" => t \notin Prompting \/ o \in Transfers,
           Asked(c, t, o, f), pc' = [pc EXCEPT ![c] = next]
    PROVE  CallInv'
  <1>1. /\ target' \in [Calls -> Targets \cup {None}] /\ op' \in [Calls -> Operations \cup {None}]
        /\ force' \in [Calls -> BOOLEAN] /\ pc' \in [Calls -> Pcs]
        /\ now' = now
    BY DEF Asked, TypeOK
  <1>2. ASSUME NEW d \in Calls
        PROVE  /\ pc'[d] # "idle" => target'[d] \in Targets /\ op'[d] \in Operations
               /\ target'[d] \in Prompting /\ op'[d] \in Commands => pc'[d] # "ran"
    <2>1. CASE d = c
      BY <2>1, GateAssumption DEF Asked, TypeOK
    <2>2. CASE d # c
      BY <2>2 DEF Asked, TypeOK, OnlyTheUserDecides
    <2> QED BY <2>1, <2>2
  <1> QED BY <1>1, <1>2 DEF OnlyTheUserDecides, TypeOK, CallInv

-----------------------------------------------------------------------------
(* Every step. *)

\* A call that is told to come back with force.
LEMMA StoppedKeeps ==
    ASSUME IndInv, NEW c \in Calls, NEW t \in Targets, NEW o \in Operations,
           NEW f \in BOOLEAN, Asked(c, t, o, f), Stopped(c, o, f)
    PROVE  IndInv'
  <1>1. target'[c] = t
    BY DEF Asked, IndInv, TypeOK
  <1>2. (Preflight(o, t) \/ NeedsForce(o, f)) /\ UNCHANGED spent
    BY <1>1 DEF Stopped
  <1>3. pc' = [pc EXCEPT ![c] = "stopped"] /\ "stopped" \in Pcs
    BY DEF Stopped, Pcs
  <1>4. TypeOK /\ Unspent /\ EntryDated /\ OnlyTheUserDecides
    BY DEF IndInv
  <1>5. GateInv'
    BY <1>2, <1>4, GateKeeps
  <1>6. CallInv'
    BY <1>3, <1>4, AskedKeeps
  <1> QED BY <1>5, <1>6, Halves

\* A call that runs on its acknowledgement.
LEMMA AcknowledgedKeeps ==
    ASSUME IndInv, NEW c \in Calls, NEW t \in Targets, NEW o \in Operations,
           NEW f \in BOOLEAN, t \notin Prompting \/ o \in Transfers,
           Asked(c, t, o, f), Acknowledged(c, o, f)
    PROVE  IndInv'
  <1>1. Consume(o, f) /\ spent' = [spent EXCEPT ![o] = @ + 1]
    BY DEF Acknowledged
  <1>2. pc' = [pc EXCEPT ![c] = "ran"] /\ "ran" \in Pcs
    BY DEF Acknowledged, Pcs
  <1>4. TypeOK /\ Unspent /\ EntryDated /\ OnlyTheUserDecides
    BY DEF IndInv
  <1>5. GateInv'
    BY <1>1, <1>4, GateKeeps
  <1>6. CallInv'
    BY <1>2, <1>4, AskedKeeps
  <1> QED BY <1>5, <1>6, Halves

\* A command whose user is asked.
LEMMA BashAsksKeeps ==
    ASSUME IndInv, NEW c \in Calls, NEW t \in Targets, NEW o \in Operations,
           NEW f \in BOOLEAN, BashAsks(c, t, o, f)
    PROVE  IndInv'
  <1>1. PICK next \in {"asking", "asking_acked"} :
          /\ pc' = [pc EXCEPT ![c] = next]
          /\ Preflight(o, t) \/ NeedsForce(o, f) \/ Consume(o, f)
          /\ UNCHANGED spent
    BY DEF BashAsks
  <1>2. next \in Pcs /\ next # "ran" /\ Asked(c, t, o, f)
    BY DEF Pcs, BashAsks
  <1>4. TypeOK /\ Unspent /\ EntryDated /\ OnlyTheUserDecides
    BY DEF IndInv
  <1>5. GateInv'
    BY <1>1, <1>4, GateKeeps
  <1>6. CallInv'
    BY <1>1, <1>2, <1>4, AskedKeeps
  <1> QED BY <1>5, <1>6, Halves

\* The user's answer.
LEMMA AnswerKeeps ==
    ASSUME IndInv, NEW c \in Calls, NEW answer \in {"approved", "declined", "errored"},
           Answer(c, answer)
    PROVE  IndInv'
  <1>1. pc' \in [Calls -> Pcs]
    BY DEF Answer, IndInv, TypeOK, Pcs
  <1>2. \A d \in Calls : (pc'[d] = "idle" => pc[d] = "idle") /\ (pc'[d] = "ran" => pc[d] = "ran")
    BY DEF Answer, IndInv, TypeOK
  <1> QED BY <1>1, <1>2
          DEF Answer, requestVars, historyVars, IndInv, TypeOK, Unspent, EntryDated, OnlyTheUserDecides

\* One case per action.
LEMMA NextInd == IndInv /\ [Next]_vars => IndInv'
  <1> SUFFICES ASSUME IndInv, [Next]_vars PROVE IndInv'
    OBVIOUS
  <1>1. ASSUME NEW c \in Calls, NEW t \in Targets, NEW o \in Operations, NEW f \in BOOLEAN,
               TransferCall(c, t, o, f)
        PROVE  IndInv'
    BY <1>1, StoppedKeeps, AcknowledgedKeeps DEF TransferCall
  <1>2. ASSUME NEW c \in Calls, NEW t \in Targets, NEW o \in Operations, NEW f \in BOOLEAN,
               BashCall(c, t, o, f)
        PROVE  IndInv'
    BY <1>2, StoppedKeeps, AcknowledgedKeeps DEF BashCall
  <1>3. ASSUME NEW c \in Calls, NEW t \in Targets, NEW o \in Operations, NEW f \in BOOLEAN,
               BashAsks(c, t, o, f)
        PROVE  IndInv'
    BY <1>3, BashAsksKeeps
  <1>4. ASSUME NEW c \in Calls, NEW answer \in {"approved", "declined", "errored"},
               Answer(c, answer)
        PROVE  IndInv'
    BY <1>4, AnswerKeeps
  <1>5. CASE Tick
    BY <1>5, GateAssumption
       DEF Tick, requestVars, historyVars, IndInv, TypeOK, Unspent, EntryDated, OnlyTheUserDecides
  <1>6. CASE UNCHANGED vars
    BY <1>6 DEF vars, requestVars, historyVars, IndInv, TypeOK, Unspent, EntryDated, OnlyTheUserDecides
  <1> QED BY <1>1, <1>2, <1>3, <1>4, <1>5, <1>6 DEF Next, Terminating

\* The invariant holds in every behaviour.
LEMMA Inductive == Spec => []IndInv
  BY InitInd, NextInd, PTL DEF Spec

-----------------------------------------------------------------------------

\* The state of the gate keeps its type, for any number of calls.
THEOREM GateTypeCorrect == Spec => []TypeOK
  <1>1. IndInv => TypeOK
    BY DEF IndInv
  <1> QED BY Inductive, <1>1, PTL

\* checkConfirmation: each preflight lets its operation run once at most
\* without the user's yes, however many calls overlap.
THEOREM RunsOnce == Spec => []OneRunPerPreflight
  <1>1. IndInv => OneRunPerPreflight
    BY DEF IndInv, TypeOK, Unspent, OneRunPerPreflight
  <1> QED BY Inductive, <1>1, PTL

\* hasFreshConfirmation: an operation runs on an acknowledgement only while the
\* entry its preflight made is fresh.
THEOREM RunsInTime == Spec => RunsWhileFresh
  <1>1. ASSUME IndInv, [Next]_vars, NEW o \in Operations, spent'[o] # spent[o]
        PROVE  preflights[o] > 0 /\ now < preflightOn[o].time + TTL
    <2>1. PICK c \in Calls, t \in Targets, p \in Operations, f \in BOOLEAN :
            Consume(p, f) /\ spent' = [spent EXCEPT ![p] = @ + 1]
      BY <1>1 DEF Next, TransferCall, BashCall, BashAsks, Stopped, Acknowledged, Answer, Tick,
                  Terminating, historyVars, vars
    <2>2. p = o
      BY <1>1, <2>1 DEF IndInv, TypeOK
    <2>3. Fresh(o)
      BY <2>1, <2>2 DEF Consume
    <2>4. expires[o] # None /\ expires[o] > now
      BY <2>3 DEF Fresh
    <2>5. now < preflightOn[o].time + TTL
      BY <1>1, <2>4 DEF IndInv, EntryDated
    <2>6. preflights[o] > 0
      BY <1>1, <2>4 DEF IndInv, TypeOK, Unspent
    <2> QED BY <2>5, <2>6
  <1>2. IndInv /\ [Next]_vars
          => [\A o \in Operations : spent'[o] # spent[o]
                => preflights[o] > 0 /\ now < preflightOn[o].time + TTL]_vars
    BY <1>1
  <1> QED BY Inductive, <1>2, PTL DEF Spec, RunsWhileFresh

\* handleRemoteBash: where the user is asked, no acknowledgement runs a command.
THEOREM UserDecides == Spec => []OnlyTheUserDecides
  <1>1. IndInv => OnlyTheUserDecides
    BY DEF IndInv
  <1> QED BY Inductive, <1>1, PTL

=============================================================================
