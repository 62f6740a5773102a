----------------------- MODULE ConnectionManagerProofs -----------------------
(***************************************************************************)
(* Proofs about ConnectionManager, for any targets, mirrors, calls and     *)
(* cooldown.                                                               *)
(***************************************************************************)
EXTENDS ConnectionManager, TLAPS

\* The types of what the manager keeps, and of what its calls keep.
ManagerTypes ==
    /\ phase \in {"starting", "serving", "closing", "signalled", "closed", "exited"}
    /\ now \in 1..(MaxTime + 1)
    /\ attempts \subseteq AllAttempts
    /\ open \subseteq Targets \X Starters
    /\ connections \in [Targets -> Starters \cup {None}]
    /\ failed \in [Targets -> Nat \cup {None}]
    /\ retry \in [Targets -> Calls \cup {None}]
    /\ endedAt \in [Targets -> Nat]

CallTypes ==
    /\ holds \in [Mirrors -> SUBSET Targets]
    /\ pc \in [Calls -> {"idle", "waiting", "using", "staged", "answered", "refused"}]
    /\ target \in [Calls -> Targets \cup {None}]
    /\ joined \in [Calls -> Calls \cup {None}]
    /\ \A c \in Calls : pc[c] = "waiting" <=> joined[c] # None

\* connectAll dials before there is any failure to retry.
StartupAlone ==
    /\ phase = "starting" => \A t \in Targets : failed[t] = None /\ retry[t] = None
    /\ \A a \in attempts : a.by = Main <=> phase = "starting"

\* Once it serves, an attempt on a target that counts as failed is the retry of
\* its entry, so that a call finds it and joins.
Tracked ==
    phase # "starting" =>
        \A a \in attempts : failed[a.target] # None => retry[a.target] = a.by

\* A target is recorded as failed no earlier than its last attempt ended.
Dated ==
    \A t \in Targets :
      /\ endedAt[t] <= now
      /\ failed[t] # None => endedAt[t] <= failed[t]

\* A dial that has not succeeded has opened no pool that it would leave behind.
NoPoolYet == \A a \in attempts : a.stage = "dialing" => <<a.target, a.by>> \notin open

ManagerInv ==
    /\ ManagerTypes
    /\ Unshared /\ NoStrayPool /\ RetryIsLive
    /\ StartupAlone /\ Tracked /\ Dated /\ NoPoolYet

\* What a call stages goes to the mirror of a target.
CallInv == CallTypes /\ \A c \in Calls : pc[c] \in {"using", "staged"} => target[c] \in Targets

IndInv == ManagerInv /\ CallInv

-----------------------------------------------------------------------------
(* The first state. *)

\* Every target is dialed and nothing else has happened.
LEMMA InitInd == Init => IndInv
  <1> SUFFICES ASSUME Init PROVE IndInv
    OBVIOUS
  <1>1. ManagerTypes
    BY ManagerAssumption DEF Init, ManagerTypes, AllAttempts, Attempt, Stages, Starters
  <1>2. Unshared /\ NoStrayPool /\ RetryIsLive
    BY DEF Init, Unshared, NoStrayPool, RetryIsLive, On, Attempt
  <1>3. StartupAlone /\ Tracked /\ Dated /\ NoPoolYet
    BY DEF Init, StartupAlone, Tracked, Dated, NoPoolYet, Attempt
  <1>4. CallInv
    BY DEF Init, CallInv, CallTypes
  <1> QED BY <1>1, <1>2, <1>3, <1>4 DEF IndInv, ManagerInv

-----------------------------------------------------------------------------
(* The attempts. *)

\* An attempt that goes on in another stage, and may have opened its pool.
LEMMA StageKeeps ==
    ASSUME ManagerInv, NEW a \in attempts, NEW stage \in Stages, stage # "dialing",
           attempts' = (attempts \ {a}) \cup {[a EXCEPT !.stage = stage]},
           open' = open \/ open' = open \cup {<<a.target, a.by>>},
           UNCHANGED <<phase, now, mapVars, endedAt>>
    PROVE  ManagerInv'
  <1> DEFINE b == [a EXCEPT !.stage = stage]
  <1>1. /\ a \in AllAttempts /\ b \in AllAttempts
        /\ b.target = a.target /\ b.by = a.by
    BY DEF ManagerInv, ManagerTypes, AllAttempts
  <1>2. ManagerTypes'
    BY <1>1 DEF ManagerInv, ManagerTypes, AllAttempts, mapVars
  <1>3. Unshared'
    <2> SUFFICES ASSUME NEW t \in Targets
                 PROVE  /\ \A x, y \in On(t)' : x = y
                        /\ On(t)' # {} => connections'[t] = None
      BY DEF Unshared
    <2>1. CASE t = a.target
      <3>1. \A x \in On(t) : x = a
        BY <2>1 DEF ManagerInv, Unshared, On
      <3>2. \A x \in On(t)' : x = b
        BY <3>1 DEF On
      <3>3. connections[t] = None
        BY <2>1 DEF ManagerInv, Unshared, On
      <3> QED BY <3>2, <3>3 DEF mapVars
    <2>2. CASE t # a.target
      <3>1. On(t)' = On(t)
        BY <2>2, <1>1 DEF On
      <3> QED BY <3>1 DEF ManagerInv, Unshared, mapVars
    <2> QED BY <2>1, <2>2
  <1>4. NoStrayPool'
    <2> SUFFICES ASSUME NEW p \in open'
                 PROVE  connections'[p[1]] = p[2] \/ \E x \in On(p[1])' : x.by = p[2]
      BY DEF NoStrayPool
    <2>1. b \in On(a.target)'
      BY <1>1 DEF On
    <2>2. CASE p = <<a.target, a.by>>
      BY <2>1, <2>2, <1>1
    <2>3. CASE p \in open
      <3>1. CASE connections[p[1]] = p[2]
        BY <3>1 DEF mapVars
      <3>2. CASE \E x \in On(p[1]) : x.by = p[2]
        BY <3>2, <2>1, <1>1 DEF On
      <3> QED BY <2>3, <3>1, <3>2 DEF ManagerInv, NoStrayPool
    <2> QED BY <2>2, <2>3
  <1>5. RetryIsLive'
    BY <1>1 DEF ManagerInv, RetryIsLive, On, mapVars
  <1>6. StartupAlone' /\ Tracked'
    BY <1>1 DEF ManagerInv, StartupAlone, Tracked, mapVars
  <1>7. Dated'
    BY DEF ManagerInv, Dated, mapVars
  <1>8. NoPoolYet'
    <2> SUFFICES ASSUME NEW x \in attempts', x.stage = "dialing"
                 PROVE  <<x.target, x.by>> \notin open'
      BY DEF NoPoolYet
    <2>1. x \in attempts /\ x # a /\ x.target \in Targets
      BY DEF ManagerInv, ManagerTypes, AllAttempts
    <2>2. x.target # a.target
      BY <2>1 DEF ManagerInv, Unshared, On
    <2>3. <<x.target, x.by>> \notin open
      BY <2>1 DEF ManagerInv, NoPoolYet
    <2> QED BY <2>2, <2>3
  <1> QED BY <1>2, <1>3, <1>4, <1>5, <1>6, <1>7, <1>8 DEF ManagerInv

\* An attempt that ends leaves its target without an attempt and without an entry.
LEMMA EndedAlone ==
    ASSUME ManagerInv, NEW a \in attempts, attempts' = attempts \ {a},
           retry' = IF retry[a.target] = a.by THEN [retry EXCEPT ![a.target] = None] ELSE retry
    PROVE  /\ a.target \in Targets /\ a.by \in Starters
           /\ On(a.target)' = {} /\ retry'[a.target] = None
           /\ retry' \in [Targets -> Calls \cup {None}]
           /\ \A t \in Targets : t # a.target => On(t)' = On(t) /\ retry'[t] = retry[t]
  <1>1. a \in AllAttempts /\ a.target \in Targets /\ a.by \in Starters
    BY DEF ManagerInv, ManagerTypes, AllAttempts
  <1>2. \A x \in On(a.target) : x = a
    BY <1>1 DEF ManagerInv, Unshared, On
  <1>3. On(a.target)' = {}
    BY <1>2 DEF On
  <1>4. retry[a.target] # None => retry[a.target] = a.by
    BY <1>1, <1>2 DEF ManagerInv, RetryIsLive
  <1>5. retry \in [Targets -> Calls \cup {None}]
    BY DEF ManagerInv, ManagerTypes
  <1>6. retry'[a.target] = None /\ retry' \in [Targets -> Calls \cup {None}]
    BY <1>1, <1>4, <1>5
  <1>7. \A t \in Targets : t # a.target => On(t)' = On(t) /\ retry'[t] = retry[t]
    BY <1>1, <1>5 DEF On
  <1> QED BY <1>1, <1>3, <1>6, <1>7

\* The probes end: the target has its connection.
LEMMA ConnectedKeeps ==
    ASSUME ManagerInv, NEW a \in attempts, Connected(a)
    PROVE  ManagerInv'
  <1> DEFINE t == a.target
  <1>1. /\ attempts' = attempts \ {a}
        /\ retry' = IF retry[a.target] = a.by THEN [retry EXCEPT ![a.target] = None] ELSE retry
        /\ connections' = [connections EXCEPT ![t] = a.by]
        /\ failed' = [failed EXCEPT ![t] = None]
        /\ UNCHANGED <<phase, now, open, endedAt>>
    BY DEF Connected, Resume
  <1>2. /\ t \in Targets /\ a.by \in Starters
        /\ On(t)' = {} /\ retry'[t] = None
        /\ retry' \in [Targets -> Calls \cup {None}]
        /\ \A u \in Targets : u # t => On(u)' = On(u) /\ retry'[u] = retry[u]
    BY <1>1, EndedAlone
  <1>3. ManagerTypes'
    BY <1>1, <1>2 DEF ManagerInv, ManagerTypes
  <1>4. \A u \in Targets : u # t => connections'[u] = connections[u] /\ failed'[u] = failed[u]
    BY <1>1 DEF ManagerInv, ManagerTypes
  <1>5. connections'[t] = a.by /\ failed'[t] = None
    BY <1>1, <1>2 DEF ManagerInv, ManagerTypes
  <1>6. Unshared'
    BY <1>2, <1>4 DEF ManagerInv, Unshared
  <1>7. NoStrayPool'
    <2> SUFFICES ASSUME NEW p \in open
                 PROVE  connections'[p[1]] = p[2] \/ \E x \in On(p[1])' : x.by = p[2]
      BY <1>1 DEF NoStrayPool
    <2>1. p[1] \in Targets /\ p[2] \in Starters
      BY DEF ManagerInv, ManagerTypes
    <2>2. CASE p[1] = t
      <3>1. connections[t] = None /\ \A x \in On(t) : x = a
        BY <1>2 DEF ManagerInv, Unshared, On
      <3>2. p[2] # None
        BY <2>1, ManagerAssumption
      <3>3. p[2] = a.by
        BY <2>2, <3>1, <3>2 DEF ManagerInv, NoStrayPool
      <3> QED BY <2>2, <3>3, <1>5
    <2>3. CASE p[1] # t
      BY <2>1, <2>3, <1>2, <1>4 DEF ManagerInv, NoStrayPool
    <2> QED BY <2>2, <2>3
  <1>8. RetryIsLive'
    BY <1>2 DEF ManagerInv, RetryIsLive
  <1>9. StartupAlone'
    BY <1>1, <1>2, <1>4, <1>5 DEF ManagerInv, StartupAlone
  <1>10. Tracked'
    <2> SUFFICES ASSUME phase # "starting", NEW x \in attempts', failed'[x.target] # None
                 PROVE  retry'[x.target] = x.by
      BY <1>1 DEF Tracked
    <2>1. x \in attempts /\ x.target \in Targets
      BY <1>1 DEF ManagerInv, ManagerTypes, AllAttempts
    <2>2. x.target # t
      BY <1>5
    <2> QED BY <2>1, <2>2, <1>2, <1>4 DEF ManagerInv, Tracked
  <1>11. Dated'
    BY <1>1, <1>4, <1>5 DEF ManagerInv, Dated
  <1>12. NoPoolYet'
    BY <1>1 DEF ManagerInv, NoPoolYet
  <1> QED BY <1>3, <1>6, <1>7, <1>8, <1>9, <1>10, <1>11, <1>12 DEF ManagerInv

\* A dial fails: at startup the failure is recorded later, with all the others.
LEMMA DialFailsKeeps ==
    ASSUME ManagerInv, NEW a \in attempts, DialFails(a)
    PROVE  ManagerInv'
  <1> DEFINE t == a.target
  <1>1. /\ attempts' = attempts \ {a}
        /\ retry' = IF retry[a.target] = a.by THEN [retry EXCEPT ![a.target] = None] ELSE retry
        /\ endedAt' = [endedAt EXCEPT ![t] = now]
        /\ failed' = IF a.by = Main THEN failed ELSE [failed EXCEPT ![t] = now]
        /\ UNCHANGED <<phase, now, open, connections>>
    BY DEF DialFails, Resume, RecordFailure
  <1>2. /\ t \in Targets /\ a.by \in Starters
        /\ On(t)' = {} /\ retry'[t] = None
        /\ retry' \in [Targets -> Calls \cup {None}]
        /\ \A u \in Targets : u # t => On(u)' = On(u) /\ retry'[u] = retry[u]
    BY <1>1, EndedAlone
  <1>3. now \in Nat /\ now # None
    BY ManagerAssumption DEF ManagerInv, ManagerTypes
  <1>4. ManagerTypes'
    BY <1>1, <1>2, <1>3 DEF ManagerInv, ManagerTypes
  <1>5. \A u \in Targets : u # t => failed'[u] = failed[u] /\ endedAt'[u] = endedAt[u]
    BY <1>1 DEF ManagerInv, ManagerTypes
  <1>6. /\ endedAt'[t] = now
        /\ failed'[t] = IF a.by = Main THEN failed[t] ELSE now
    BY <1>1, <1>2 DEF ManagerInv, ManagerTypes
  <1>7. Unshared'
    BY <1>1, <1>2 DEF ManagerInv, Unshared
  <1>8. NoStrayPool'
    <2> SUFFICES ASSUME NEW p \in open
                 PROVE  connections[p[1]] = p[2] \/ \E x \in On(p[1])' : x.by = p[2]
      BY <1>1 DEF NoStrayPool
    <2>1. p[1] \in Targets /\ p[2] \in Starters /\ p = <<p[1], p[2]>>
      BY DEF ManagerInv, ManagerTypes
    <2>2. CASE p[1] = t
      <3>1. \A x \in On(t) : x = a
        BY <1>2 DEF ManagerInv, Unshared, On
      <3>2. p[2] # a.by
        BY <2>1, <2>2 DEF DialFails, ManagerInv, NoPoolYet
      <3> QED BY <2>2, <3>1, <3>2 DEF ManagerInv, NoStrayPool
    <2>3. CASE p[1] # t
      BY <2>1, <2>3, <1>2 DEF ManagerInv, NoStrayPool
    <2> QED BY <2>2, <2>3
  <1>9. RetryIsLive'
    BY <1>2 DEF ManagerInv, RetryIsLive
  <1>10. StartupAlone'
    <2>1. CASE a.by = Main
      BY <2>1, <1>1, <1>2 DEF ManagerInv, StartupAlone
    <2>2. CASE a.by # Main
      BY <2>2, <1>1 DEF ManagerInv, StartupAlone
    <2> QED BY <2>1, <2>2
  <1>11. Tracked'
    <2> SUFFICES ASSUME phase # "starting", NEW x \in attempts', failed'[x.target] # None
                 PROVE  retry'[x.target] = x.by
      BY <1>1 DEF Tracked
    <2>1. x \in attempts /\ x.target \in Targets /\ x \in On(x.target)'
      BY <1>1 DEF ManagerInv, ManagerTypes, AllAttempts, On
    <2>2. x.target # t
      BY <2>1, <1>2
    <2> QED BY <2>1, <2>2, <1>2, <1>5 DEF ManagerInv, Tracked
  <1>12. Dated'
    <2>1. CASE a.by = Main
      <3>1. failed[t] = None
        BY <2>1, <1>2 DEF ManagerInv, StartupAlone
      <3> QED BY <2>1, <3>1, <1>1, <1>3, <1>5, <1>6 DEF ManagerInv, Dated
    <2>2. CASE a.by # Main
      BY <2>2, <1>1, <1>3, <1>5, <1>6 DEF ManagerInv, Dated
    <2> QED BY <2>1, <2>2
  <1>13. NoPoolYet'
    BY <1>1 DEF ManagerInv, NoPoolYet
  <1> QED BY <1>4, <1>7, <1>8, <1>9, <1>10, <1>11, <1>12, <1>13 DEF ManagerInv

\* connectAll ends with no attempt left.
LEMMA ConnectedAllKeeps ==
    ASSUME ManagerInv, ConnectedAll
    PROVE  ManagerInv'
  <1>1. now \in Nat
    BY ManagerAssumption DEF ManagerInv, ManagerTypes
  <1>2. ManagerTypes'
    BY <1>1 DEF ConnectedAll, ManagerInv, ManagerTypes
  <1>3. Unshared' /\ NoStrayPool' /\ RetryIsLive'
    BY DEF ConnectedAll, ManagerInv, Unshared, NoStrayPool, RetryIsLive, On
  <1>4. StartupAlone' /\ Tracked' /\ NoPoolYet'
    BY DEF ConnectedAll, StartupAlone, Tracked, NoPoolYet
  <1>5. Dated'
    BY <1>1 DEF ConnectedAll, ManagerInv, ManagerTypes, Dated
  <1> QED BY <1>2, <1>3, <1>4, <1>5 DEF ManagerInv

\* A target that failed and has no entry is not being dialed, and has no pool.
LEMMA RetryAlone ==
    ASSUME ManagerInv, Serving, NEW t \in Targets,
           connections[t] = None, failed[t] # None, retry[t] = None
    PROVE  On(t) = {} /\ \A p \in open : p[1] # t
  <1>1. phase # "starting"
    BY DEF Serving, ShuttingDown
  <1>2. On(t) = {}
    <2> SUFFICES ASSUME NEW a \in On(t) PROVE FALSE
      OBVIOUS
    <2>1. a \in attempts /\ a.target = t /\ a.by \in Starters
      BY DEF On, ManagerInv, ManagerTypes, AllAttempts
    <2>2. retry[t] = a.by
      BY <1>1, <2>1 DEF ManagerInv, Tracked
    <2> QED BY <2>1, <2>2, ManagerAssumption
  <1>3. \A p \in open : p[2] # None
    BY ManagerAssumption DEF ManagerInv, ManagerTypes
  <1> QED BY <1>2, <1>3 DEF ManagerInv, NoStrayPool

\* A retry begins: its entry is made before it dials.
LEMMA RetryKeeps ==
    ASSUME ManagerInv, NEW c \in Calls, NEW t \in Targets, Retry(c, t)
    PROVE  ManagerInv'
  <1> DEFINE a == Attempt(t, c, "dialing")
  <1>1. /\ Serving /\ connections[t] = None /\ failed[t] # None /\ retry[t] = None
        /\ now >= failed[t] + Cooldown
        /\ failed' = [failed EXCEPT ![t] = now]
        /\ attempts' = attempts \cup {a}
        /\ retry' = [retry EXCEPT ![t] = c]
        /\ UNCHANGED <<phase, now, open, connections, endedAt>>
    BY DEF Retry, Asks
  <1>2. On(t) = {} /\ \A p \in open : p[1] # t
    BY <1>1, RetryAlone
  <1>3. a \in AllAttempts /\ a.target = t /\ a.by = c /\ c # Main /\ c # None
    BY ManagerAssumption DEF AllAttempts, Attempt, Stages, Starters
  <1>4. now \in Nat
    BY ManagerAssumption DEF ManagerInv, ManagerTypes
  <1>5. ManagerTypes'
    BY <1>1, <1>3, <1>4 DEF ManagerInv, ManagerTypes
  <1>6. On(t)' = {a} /\ \A u \in Targets : u # t => On(u)' = On(u)
    BY <1>1, <1>2, <1>3 DEF On
  <1>7. /\ failed'[t] = now /\ retry'[t] = c
        /\ \A u \in Targets : u # t => failed'[u] = failed[u] /\ retry'[u] = retry[u]
    BY <1>1 DEF ManagerInv, ManagerTypes
  <1>8. Unshared'
    BY <1>1, <1>6 DEF ManagerInv, Unshared
  <1>9. NoStrayPool'
    <2> SUFFICES ASSUME NEW p \in open
                 PROVE  connections[p[1]] = p[2] \/ \E x \in On(p[1])' : x.by = p[2]
      BY <1>1 DEF NoStrayPool
    <2>1. p[1] \in Targets /\ p[1] # t
      BY <1>2 DEF ManagerInv, ManagerTypes
    <2> QED BY <2>1, <1>6 DEF ManagerInv, NoStrayPool
  <1>10. RetryIsLive'
    BY <1>3, <1>6, <1>7 DEF ManagerInv, RetryIsLive
  <1>11. StartupAlone'
    BY <1>1, <1>3 DEF ManagerInv, StartupAlone, Serving, ShuttingDown
  <1>12. Tracked'
    <2> SUFFICES ASSUME NEW x \in attempts', failed'[x.target] # None
                 PROVE  retry'[x.target] = x.by
      BY <1>1 DEF Tracked
    <2>1. x \in AllAttempts /\ x.target \in Targets /\ x \in On(x.target)'
      BY <1>5 DEF ManagerTypes, AllAttempts, On
    <2>2. CASE x.target = t
      BY <2>1, <2>2, <1>3, <1>6, <1>7
    <2>3. CASE x.target # t
      <3>1. x \in attempts
        BY <2>1, <2>3, <1>6 DEF On
      <3> QED BY <2>1, <2>3, <3>1, <1>1, <1>7 DEF ManagerInv, Tracked, Serving, ShuttingDown
    <2> QED BY <2>2, <2>3
  <1>13. Dated'
    BY <1>1, <1>4, <1>7 DEF ManagerInv, Dated
  <1>14. NoPoolYet'
    BY <1>1, <1>2, <1>3 DEF ManagerInv, NoPoolYet
  <1> QED BY <1>5, <1>8, <1>9, <1>10, <1>11, <1>12, <1>13, <1>14 DEF ManagerInv

-----------------------------------------------------------------------------
(* The other steps of the manager. *)

\* Between serving and the exit nothing is dialed at startup again.
LEMMA ShutdownKeeps ==
    ASSUME ManagerInv, phase # "starting",
           phase' \in {"closing", "signalled", "closed", "exited"},
           UNCHANGED <<now, attempts, open, mapVars, endedAt>>
    PROVE  ManagerInv'
  <1>1. ManagerTypes'
    BY DEF ManagerInv, ManagerTypes, mapVars
  <1>2. Unshared' /\ NoStrayPool' /\ RetryIsLive'
    BY DEF ManagerInv, Unshared, NoStrayPool, RetryIsLive, On, mapVars
  <1>3. StartupAlone' /\ Tracked' /\ Dated' /\ NoPoolYet'
    BY DEF ManagerInv, StartupAlone, Tracked, Dated, NoPoolYet, mapVars
  <1> QED BY <1>1, <1>2, <1>3 DEF ManagerInv

\* close(): the maps are emptied, and what is still open is of an attempt.
LEMMA ExitRefusedKeeps ==
    ASSUME ManagerInv, ExitRefused
    PROVE  ManagerInv'
  <1>1. CASE UNCHANGED mapVars
    BY <1>1, ShutdownKeeps DEF ExitRefused
  <1>2. CASE /\ AllClosed
             /\ connections' = [t \in Targets |-> None]
             /\ failed' = [t \in Targets |-> None]
             /\ retry' = [t \in Targets |-> None]
    <2>1. phase = "signalled" /\ phase' = "closed" /\ UNCHANGED <<now, attempts, open, endedAt>>
      BY DEF ExitRefused
    <2>2. ManagerTypes'
      BY <1>2, <2>1 DEF ManagerInv, ManagerTypes
    <2>3. Unshared' /\ RetryIsLive'
      BY <1>2, <2>1 DEF ManagerInv, Unshared, RetryIsLive, On
    <2>4. NoStrayPool'
      <3> SUFFICES ASSUME NEW p \in open PROVE \E x \in On(p[1]) : x.by = p[2]
        BY <2>1 DEF NoStrayPool, On
      <3>1. p[1] \in Targets /\ p[2] \in Starters /\ p = <<p[1], p[2]>> /\ p[2] # None
        BY ManagerAssumption DEF ManagerInv, ManagerTypes
      <3>2. connections[p[1]] # p[2]
        BY <1>2, <3>1 DEF AllClosed
      <3> QED BY <3>2 DEF ManagerInv, NoStrayPool
    <2>5. StartupAlone' /\ Tracked' /\ Dated' /\ NoPoolYet'
      BY <1>2, <2>1
         DEF ManagerInv, ManagerTypes, AllAttempts, StartupAlone, Tracked, Dated, NoPoolYet
    <2> QED BY <2>2, <2>3, <2>4, <2>5 DEF ManagerInv
  <1> QED BY <1>1, <1>2 DEF ExitRefused

\* A pool is closed.
LEMMA ClosePoolKeeps ==
    ASSUME ManagerInv, NEW t \in Targets, ClosePool(t)
    PROVE  ManagerInv'
  <1>1. open' \subseteq open /\ UNCHANGED <<phase, now, attempts, mapVars, endedAt>>
    BY DEF ClosePool
  <1>2. ManagerTypes'
    BY <1>1 DEF ManagerInv, ManagerTypes, mapVars
  <1>3. Unshared' /\ NoStrayPool' /\ RetryIsLive'
    BY <1>1 DEF ManagerInv, Unshared, NoStrayPool, RetryIsLive, On, mapVars
  <1>4. StartupAlone' /\ Tracked' /\ Dated' /\ NoPoolYet'
    BY <1>1 DEF ManagerInv, StartupAlone, Tracked, Dated, NoPoolYet, mapVars
  <1> QED BY <1>2, <1>3, <1>4 DEF ManagerInv

\* Time passes, or a call does what the manager does not notice.
LEMMA QuietKeeps ==
    ASSUME ManagerInv, UNCHANGED <<phase, attempts, open, mapVars, endedAt>>,
           now' = now \/ (now <= MaxTime /\ now' = now + 1)
    PROVE  ManagerInv'
  <1>1. now \in Nat /\ MaxTime \in Nat /\ now' >= now /\ now' \in 1..(MaxTime + 1)
    BY ManagerAssumption DEF ManagerInv, ManagerTypes
  <1>2. ManagerTypes'
    BY <1>1 DEF ManagerInv, ManagerTypes, mapVars
  <1>3. Unshared' /\ NoStrayPool' /\ RetryIsLive'
    BY DEF ManagerInv, Unshared, NoStrayPool, RetryIsLive, On, mapVars
  <1>4. StartupAlone' /\ Tracked' /\ NoPoolYet'
    BY DEF ManagerInv, StartupAlone, Tracked, NoPoolYet, mapVars
  <1>5. Dated'
    BY <1>1 DEF ManagerInv, ManagerTypes, Dated, mapVars
  <1> QED BY <1>2, <1>3, <1>4, <1>5 DEF ManagerInv

-----------------------------------------------------------------------------
(* The calls. *)

\* The calls that joined an attempt go on with what came of it.
LEMMA ResumeKeeps ==
    ASSUME IndInv, NEW a \in attempts, NEW outcome \in {"using", "refused"}, Resume(a, outcome),
           UNCHANGED holds
    PROVE  CallInv'
  <1>1. a.target \in Targets /\ a.by # None
    BY ManagerAssumption DEF IndInv, ManagerInv, ManagerTypes, AllAttempts
  <1>2. /\ pc' \in [Calls -> {"idle", "waiting", "using", "staged", "answered", "refused"}]
        /\ target' = target
        /\ joined' \in [Calls -> Calls \cup {None}]
    BY DEF Resume, IndInv, CallInv, CallTypes
  <1>3. ASSUME NEW c \in Calls
        PROVE  /\ pc'[c] = "waiting" <=> joined'[c] # None
               /\ pc'[c] \in {"using", "staged"} => target'[c] \in Targets
    <2>1. CASE target[c] = a.target /\ joined[c] = a.by
      BY <2>1, <1>1 DEF Resume
    <2>2. CASE ~ (target[c] = a.target /\ joined[c] = a.by)
      BY <2>2 DEF Resume, IndInv, CallInv, CallTypes
    <2> QED BY <2>1, <2>2
  <1> QED BY <1>2, <1>3 DEF IndInv, CallInv, CallTypes

\* A call asks for a target, and goes on at once or waits for the retry it joins.
LEMMA AskKeeps ==
    ASSUME CallInv, NEW c \in Calls, NEW t \in Targets \cup {None}, Asks(c, t),
           NEW next \in {"using", "waiting", "refused"}, next = "using" => t \in Targets,
           pc' = [pc EXCEPT ![c] = next],
           NEW starter \in Calls, starter # None,
           joined' = IF next = "waiting" THEN [joined EXCEPT ![c] = starter] ELSE joined,
           UNCHANGED holds
    PROVE  CallInv'
  <1>1. CallTypes' /\ joined[c] = None
    <2>1. joined[c] = None
      BY DEF Asks, CallInv, CallTypes
    <2>2. /\ pc' \in [Calls -> {"idle", "waiting", "using", "staged", "answered", "refused"}]
          /\ target' \in [Calls -> Targets \cup {None}]
          /\ joined' \in [Calls -> Calls \cup {None}]
      BY DEF Asks, CallInv, CallTypes
    <2>3. \A d \in Calls : pc'[d] = "waiting" <=> joined'[d] # None
      BY <2>1 DEF CallInv, CallTypes
    <2> QED BY <2>1, <2>2, <2>3 DEF CallInv, CallTypes
  <1>2. \A d \in Calls : pc'[d] \in {"using", "staged"} => target'[d] \in Targets
    BY DEF Asks, CallInv, CallTypes
  <1> QED BY <1>1, <1>2 DEF CallInv

\* A call stages its files and answers.
LEMMA WorkKeeps ==
    ASSUME CallInv, NEW c \in Calls, Stage(c) \/ AnswerCall(c)
    PROVE  CallInv'
  <1>1. CASE Stage(c)
    <2>1. target[c] \in Targets /\ MirrorOf[target[c]] \in Mirrors
      BY <1>1 DEF Stage, CallInv, Mirrors
    <2>2. holds' \in [Mirrors -> SUBSET Targets]
      BY <1>1, <2>1 DEF Stage, CallInv, CallTypes
    <2> QED BY <1>1, <2>2 DEF Stage, CallInv, CallTypes
  <1>2. CASE AnswerCall(c)
    BY <1>2 DEF AnswerCall, CallInv, CallTypes
  <1> QED BY <1>1, <1>2

-----------------------------------------------------------------------------
(* Every step. *)

\* An attempt goes on.
LEMMA ProgressKeeps ==
    ASSUME IndInv, NEW a \in attempts, Dialed(a) \/ Wipe(a) \/ Connected(a) \/ DialFails(a)
    PROVE  IndInv'
  <1>1. ManagerInv
    BY DEF IndInv
  <1>2. CASE Dialed(a)
    <2>1. ManagerInv'
      BY <1>1, <1>2, StageKeeps DEF Dialed, Stages
    <2>2. CallInv'
      BY <1>2 DEF Dialed, callVars, IndInv, CallInv, CallTypes
    <2> QED BY <2>1, <2>2 DEF IndInv
  <1>3. CASE Wipe(a)
    <2>1. ManagerInv'
      BY <1>1, <1>3, StageKeeps DEF Wipe, Stages
    <2>2. CallInv'
      BY <1>3 DEF Wipe, callVars, IndInv, CallInv, CallTypes
    <2> QED BY <2>1, <2>2 DEF IndInv
  <1>4. CASE Connected(a)
    BY <1>1, <1>4, ConnectedKeeps, ResumeKeeps DEF Connected, IndInv
  <1>5. CASE DialFails(a)
    BY <1>1, <1>5, DialFailsKeeps, ResumeKeeps DEF DialFails, IndInv
  <1> QED BY <1>2, <1>3, <1>4, <1>5

\* A call asks for a target.
LEMMA AskedKeeps ==
    ASSUME IndInv, NEW c \in Calls, NEW t \in Targets,
           Use(c, t) \/ RefuseUnknown(c, t) \/ Join(c, t) \/ Throttled(c, t) \/ Retry(c, t)
    PROVE  IndInv'
  <1>1. ManagerInv /\ CallInv /\ c # None
    BY ManagerAssumption DEF IndInv, Starters
  <1>2. CASE Use(c, t)
    BY <1>1, <1>2, AskKeeps, QuietKeeps DEF Use, IndInv
  <1>3. CASE RefuseUnknown(c, t)
    BY <1>1, <1>3, AskKeeps, QuietKeeps DEF RefuseUnknown, IndInv
  <1>4. CASE Throttled(c, t)
    BY <1>1, <1>4, AskKeeps, QuietKeeps DEF Throttled, IndInv
  <1>5. CASE Join(c, t)
    <2>1. retry[t] \in Calls /\ retry[t] # None
      BY <1>1, <1>5 DEF Join, ManagerInv, ManagerTypes
    <2> QED BY <1>1, <1>5, <2>1, AskKeeps, QuietKeeps DEF Join, IndInv
  <1>6. CASE Retry(c, t)
    BY <1>1, <1>6, AskKeeps, RetryKeeps DEF Retry, IndInv
  <1> QED BY <1>2, <1>3, <1>4, <1>5, <1>6

\* One case per action.
LEMMA NextInd == IndInv /\ [Next]_vars => IndInv'
  <1> SUFFICES ASSUME IndInv, [Next]_vars PROVE IndInv'
    OBVIOUS
  <1>1. ManagerInv /\ CallInv
    BY DEF IndInv
  <1>2. ASSUME NEW a \in AllAttempts, Progress(a)
        PROVE  IndInv'
    BY <1>2, ProgressKeeps DEF Progress
  <1>3. ASSUME NEW a \in attempts, DialFails(a)
        PROVE  IndInv'
    BY <1>3, ProgressKeeps
  <1>4. ASSUME CallInv, UNCHANGED <<holds, callVars>>
        PROVE  CallInv'
    BY <1>4 DEF callVars, CallInv, CallTypes
  <1>5. CASE ConnectedAll
    BY <1>1, <1>4, <1>5, ConnectedAllKeeps DEF ConnectedAll, IndInv
  <1>6. ASSUME NEW c \in Calls, NEW t \in Targets,
               Use(c, t) \/ RefuseUnknown(c, t) \/ Join(c, t) \/ Throttled(c, t) \/ Retry(c, t)
        PROVE  IndInv'
    BY <1>6, AskedKeeps
  <1>7. ASSUME NEW c \in Calls, RefuseUnnamed(c)
        PROVE  IndInv'
    <2>1. c # None
      BY ManagerAssumption DEF Starters
    <2> QED BY <1>1, <1>7, <2>1, AskKeeps, QuietKeeps DEF RefuseUnnamed, IndInv
  <1>8. ASSUME NEW c \in Calls, Stage(c) \/ AnswerCall(c)
        PROVE  IndInv'
    BY <1>1, <1>8, WorkKeeps, QuietKeeps DEF Stage, AnswerCall, IndInv
  <1>9. ASSUME NEW cause \in {"closing", "signalled"}, Shutdown(cause)
        PROVE  IndInv'
    BY <1>1, <1>4, <1>9, ShutdownKeeps DEF Shutdown, IndInv
  <1>10. CASE Exit
    BY <1>1, <1>4, <1>10, ShutdownKeeps DEF Exit, IndInv
  <1>11. CASE ExitRefused
    BY <1>1, <1>4, <1>11, ExitRefusedKeeps DEF ExitRefused, IndInv
  <1>12. ASSUME NEW t \in Targets, ClosePool(t)
         PROVE  IndInv'
    BY <1>1, <1>4, <1>12, ClosePoolKeeps DEF ClosePool, IndInv
  <1>13. CASE Tick
    BY <1>1, <1>4, <1>13, QuietKeeps DEF Tick, IndInv
  <1>14. CASE UNCHANGED vars
    BY <1>1, <1>4, <1>14, QuietKeeps DEF vars, IndInv
  <1> QED BY <1>2, <1>3, <1>5, <1>6, <1>7, <1>8, <1>9, <1>10, <1>11, <1>12, <1>13, <1>14
          DEF Next, Terminating

\* The invariant holds in every behaviour.
LEMMA Inductive == Spec => []IndInv
  BY InitInd, NextInd, PTL DEF Spec

-----------------------------------------------------------------------------

\* The state of the manager keeps its type, for any targets, calls and mirrors.
THEOREM ManagerTypeCorrect == Spec => []TypeOK
  <1>1. IndInv => TypeOK
    BY DEF IndInv, ManagerInv, ManagerTypes, CallInv, CallTypes, TypeOK, AllAttempts
  <1> QED BY Inductive, <1>1, PTL

\* doRetryFailed and finishConnect: however many calls name a target that is offline,
\* one attempt on it is under way at a time, and no pool of an earlier one stays open.
THEOREM AttemptsAlone == Spec => []OneAttempt
  <1>1. IndInv => OneAttempt
    BY DEF IndInv, ManagerInv, OneAttempt
  <1> QED BY Inductive, <1>1, PTL

\* retryFailed: an entry of retryInFlight never outlives its attempt.
THEOREM EntryIsLive == Spec => []RetryIsLive
  <1>1. IndInv => RetryIsLive
    BY DEF IndInv, ManagerInv
  <1> QED BY Inductive, <1>1, PTL

\* RETRY_COOLDOWN_MS: a target is not dialed again before the cooldown has passed
\* since its last attempt ended, however long that attempt was.
THEOREM CooldownHolds == Spec => CooldownKept
  <1>1. ASSUME IndInv, [Next]_vars, NEW a \in attempts',
               a.target \notin {b.target : b \in attempts}
        PROVE  now >= endedAt[a.target] + Cooldown
    <2>1. ManagerInv
      BY <1>1 DEF IndInv
    <2>2. PICK c \in Calls, t \in Targets : Retry(c, t) /\ a = Attempt(t, c, "dialing")
      <3>1. a \notin attempts
        BY <1>1
      <3>2. ASSUME NEW b \in attempts, Dialed(b) \/ Wipe(b)
            PROVE  FALSE
        <4>1. a.target = b.target
          BY <2>1, <3>1, <3>2 DEF Dialed, Wipe, ManagerInv, ManagerTypes, AllAttempts
        <4> QED BY <1>1, <4>1
      <3>3. ASSUME NEW b \in attempts, Connected(b) \/ DialFails(b)
            PROVE  FALSE
        BY <3>1, <3>3 DEF Connected, DialFails
      <3>4. PICK c \in Calls, t \in Targets : Retry(c, t)
        BY <1>1, <3>1, <3>2, <3>3
           DEF Next, Progress, ConnectedAll, Use, RefuseUnknown, Join, Throttled, RefuseUnnamed,
               Stage, AnswerCall, Shutdown, Exit, ExitRefused, ClosePool, Tick, Terminating, vars
      <3> QED BY <3>1, <3>4 DEF Retry
    <2>3. a.target = t
      BY <2>2 DEF Attempt
    <2>4. failed[t] # None /\ now >= failed[t] + Cooldown
      BY <2>2 DEF Retry
    <2>5. /\ now \in Nat /\ failed[t] \in Nat /\ endedAt[t] \in Nat /\ Cooldown \in Nat
          /\ endedAt[t] <= failed[t]
      BY <2>1, <2>4, ManagerAssumption DEF ManagerInv, ManagerTypes, Dated
    <2> QED BY <2>3, <2>4, <2>5
  <1>2. IndInv /\ [Next]_vars
          => [\A a \in attempts' : a.target \notin {b.target : b \in attempts}
                => now >= endedAt[a.target] + Cooldown]_vars
    BY <1>1
  <1> QED BY Inductive, <1>2, PTL DEF Spec, CooldownKept

=============================================================================
