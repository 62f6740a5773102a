----------------------------- MODULE MCTransfers -----------------------------
(***************************************************************************)
(* The transfers side by side: a behaviour is one of remote_pull's or of   *)
(* remote_push's, and the variables of the other stay as they are.         *)
(***************************************************************************)
EXTENDS DirectoryPull, TLC

CONSTANTS f1, f2, f3, base, sub, above, None

VARIABLES
    subject,                                              \* pull or push
    remoteTree, localFiles, pushPc, pushAnswer, pushCalls, pushForce, pushPending,
    pushShown, scanned, pushLeft, making, put, edits, theirs   \* of RemotePush

pushVars == <<remoteTree, localFiles, pushPc, pushAnswer, pushCalls, pushForce, pushPending,
              pushShown, scanned, pushLeft, making, put, edits, theirs>>

Push == INSTANCE RemotePush
            WITH Files <- {f1, f2}, Dirs <- <<base, sub>>, Above <- above,
                 Parent <- (base :> above) @@ (sub :> base) @@ (f1 :> base) @@ (f2 :> sub),
                 MaxEdits <- 2, remote <- remoteTree, local <- localFiles, pc <- pushPc,
                 answer <- pushAnswer, calls <- pushCalls, force <- pushForce,
                 pending <- pushPending, shown <- pushShown, listed <- scanned, left <- pushLeft

ASSUME TransfersAssumption == PullConstants /\ Push!PushConstants

\* The push's variables have no value in a behaviour of the pull.
PushAsleep ==
    /\ remoteTree = None /\ localFiles = None /\ pushPc = None /\ pushAnswer = None
    /\ pushCalls = None /\ pushForce = None /\ pushPending = None /\ pushShown = None
    /\ scanned = None /\ pushLeft = None /\ making = None /\ put = None
    /\ edits = None /\ theirs = None

InitEither == \/ subject = "pull" /\ Init /\ PushAsleep
              \/ subject = "push" /\ Push!Init /\ Init /\ remote = {}

TransferEither == \/ subject = "pull" /\ Transfer /\ UNCHANGED <<subject, pushVars>>
                  \/ subject = "push" /\ Push!Transfer /\ UNCHANGED <<subject, vars>>
NextEither == /\ \/ subject = "pull" /\ Next /\ UNCHANGED pushVars
                 \/ subject = "push" /\ Push!Next /\ UNCHANGED vars
              /\ UNCHANGED subject

FairSpec == InitEither /\ [][NextEither]_<<subject, vars, pushVars>>
                       /\ WF_<<subject, vars, pushVars>>(TransferEither)

\* A push keeps its promises: what it reports as put is there, and it was announced
\* when it was large.
PushKept == subject = "push" => Push!SuccessMeansPushed /\ Push!ShownBeforeLarge

\* Every transfer ends, also when the server never answers the close of a stream.
Busy == IF subject = "pull" THEN pc # "idle" ELSE pushPc # "idle"
EveryTransferEnds == Busy ~> ~ Busy

=============================================================================
