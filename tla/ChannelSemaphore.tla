-------------------------- MODULE ChannelSemaphore --------------------------
(***************************************************************************)
(* What the channel slots of a connection promise: at most Cap clients hold *)
(* a slot, a freed slot goes to the client that waited longest, the queue  *)
(* may be failed as a whole, and after a shutdown slots are only returned. *)
(***************************************************************************)
EXTENDS Naturals, Sequences, FiniteSets

CONSTANTS Clients, Cap
VARIABLES holders, queue, shut

semVars == <<holders, queue, shut>>

Init == holders = {} /\ queue = <<>> /\ shut = FALSE

Waits(p) == \E i \in DOMAIN queue : queue[i] = p

Take(p) ==
    /\ ~ shut /\ queue = <<>> /\ p \notin holders
    /\ Cardinality(holders) < Cap
    /\ holders' = holders \cup {p}
    /\ UNCHANGED <<queue, shut>>

Wait(p) ==
    /\ ~ shut /\ p \notin holders /\ ~ Waits(p)
    /\ Cardinality(holders) = Cap
    /\ queue' = Append(queue, p)
    /\ UNCHANGED <<holders, shut>>

Give(p) ==
    /\ p \in holders /\ queue # <<>>
    /\ holders' = (holders \ {p}) \cup {Head(queue)}
    /\ queue' = Tail(queue)
    /\ UNCHANGED shut

Return(p) ==
    /\ p \in holders /\ queue = <<>>
    /\ holders' = holders \ {p}
    /\ UNCHANGED <<queue, shut>>

FailQueue == queue' = <<>> /\ UNCHANGED <<holders, shut>>

Shut == shut' = TRUE /\ queue' = <<>> /\ UNCHANGED holders

Next ==
    \/ \E p \in Clients : Take(p) \/ Wait(p) \/ Give(p) \/ Return(p)
    \/ FailQueue
    \/ Shut

Spec == Init /\ [][Next]_semVars
=============================================================================
