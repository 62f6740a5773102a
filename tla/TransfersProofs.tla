-------------------------- MODULE TransfersProofs --------------------------
(***************************************************************************)
(* Proofs about DirectoryPull, for any files, thresholds and calls: no     *)
(* pull goes on with its channel held open, and, where find prints the     *)
(* whole directory and nobody adds to it meanwhile, success means that the *)
(* files were fetched and size that it was shown.                          *)
(*                                                                         *)
(* The last section carries these, and what RemotePushProofs shows of any  *)
(* push, over to the behaviours in which the two stand side by side.       *)
(***************************************************************************)
EXTENDS MCTransfers, FiniteSetTheorems, TLAPS

\* find prints the whole directory, to which nobody adds a file while a call runs.
WholeListing == "list cut" \notin Faults /\ ~ AddsMeanwhile

-----------------------------------------------------------------------------
(* The invariants. *)

Streaming == {"opening", "piping", "waiting", "abandoned"}
Transferring == Streaming \cup {"probing", "copying"}

\* The channel is open just as long as the archive is piped.
ChannelInv == (channel = "open") <=> (pc = "piping")

\* The local tar runs in a stream only, and does not end well before the archive does.
TarInv ==
    /\ localTar = "running" => pc \in {"piping", "waiting"}
    /\ pc = "piping" => localTar # "zero"

\* Before the stream nothing has been sent or fetched.
Untouched ==
    /\ channel = "none" /\ sent = {} /\ localTar = "none" /\ remoteExit = "none"
    /\ \A f \in Files : local[f] = "old"

\* What there is to fetch is what was listed; nothing but the listed is sent or fetched.
ListedInv ==
    /\ pc \in {"stat", "listing"} => Untouched /\ listed = {}
    /\ pc \in {"probing", "opening"} => Untouched
    /\ pc \in Transferring => steady \subseteq listed
    /\ pc \in Transferring \ {"copying"} => left = listed /\ remote \subseteq listed
    /\ sent \subseteq listed
    /\ \A f \in Files : local[f] # "old" => f \in listed

\* Where the files are, in the stream and then one by one.
FetchedInv ==
    /\ pc \in Streaming => \A f \in Files : local[f] # "old" => f \in sent
    /\ pc = "waiting" /\ remoteExit = "zero" /\ ~ cut => steady \subseteq sent
    /\ pc = "waiting" /\ localTar = "zero" => \A f \in sent : local[f] = "whole"
    /\ pc = "copying" => \A f \in listed \ left : local[f] # "old"

\* A call that has answered is over.
AnswerInv == answer # "none" => pc = "idle"

WholeInv == ListedInv /\ FetchedInv /\ AnswerInv /\ SuccessMeansWhole

\* What is listed, or is about to be, was shown.
ShownInv ==
    /\ pc = "listing" /\ Cardinality(remote) > WarnFiles => \E n \in shown : Cardinality(remote) <= n
    /\ ShownBeforeLarge

-----------------------------------------------------------------------------
(* Types. *)

LEMMA ConstantFacts == PullConstants => IsFiniteSet(Files) /\ MaxCalls \in Nat /\ WarnFiles \in Nat
  BY DEF PullConstants

LEMMA CountFacts ==
    ASSUME PullConstants, NEW S, S \subseteq Files
    PROVE  /\ IsFiniteSet(S) /\ Cardinality(S) \in 0..Cardinality(Files)
           /\ \A T \in SUBSET S : Cardinality(T) \in Nat /\ Cardinality(T) <= Cardinality(S)
  <1>1. IsFiniteSet(S) /\ Cardinality(S) <= Cardinality(Files)
    BY FS_Subset, ConstantFacts
  <1>2. Cardinality(S) \in Nat /\ Cardinality(Files) \in Nat
    BY <1>1, FS_CardinalityType, ConstantFacts
  <1>3. ASSUME NEW T \in SUBSET S
        PROVE  Cardinality(T) \in Nat /\ Cardinality(T) <= Cardinality(S)
    BY <1>1, FS_Subset, FS_CardinalityType
  <1> QED BY <1>1, <1>2, <1>3

LEMMA TypeStep ==
    ASSUME PullConstants, TypeOK, [Next]_vars
    PROVE  TypeOK'
  <1> USE DEF TypeOK, Pcs, Codes, streamVars
  <1>1. ASSUME NEW f \in Files, ListFile(f) \/ CopyStart(f) \/ CopyEnd(f)
        PROVE  TypeOK'
    <2>1. CASE ListFile(f)
      BY <2>1 DEF ListFile
    <2>2. CASE CopyStart(f)
      BY <2>2 DEF CopyStart
    <2>3. CASE CopyEnd(f)
      BY <2>3 DEF CopyEnd
    <2> QED BY <1>1, <2>1, <2>2, <2>3
  <1>2. ASSUME NEW f \in Files, ExtractStart(f) \/ ExtractEnd(f) \/ Send(f)
        PROVE  TypeOK'
    <2>1. CASE ExtractStart(f)
      BY <2>1 DEF ExtractStart
    <2>2. CASE ExtractEnd(f)
      BY <2>2 DEF ExtractEnd
    <2>3. CASE Send(f)
      BY <2>3 DEF Send
    <2> QED BY <1>2, <2>1, <2>2, <2>3
  <1>3. ASSUME NEW code \in Codes, StreamEnds(code) \/ LocalTarEnds(code)
        PROVE  TypeOK'
    BY <1>3 DEF StreamEnds, LocalTarEnds
  <1>4. ASSUME NEW yes \in BOOLEAN, HasTar(yes)
        PROVE  TypeOK'
    BY <1>4 DEF HasTar
  <1>5. CASE Stat
    <2>1. Cardinality(remote) \in 0..Cardinality(Files)
      BY CountFacts
    <2> QED BY <1>5, <2>1 DEF Stat, Answer
  <1>6. CASE List
    <2>1. PICK found \in Listings : listed' = found /\ left' = found
      BY <1>6 DEF List
    <2>2. found \subseteq Files
      BY DEF Listings
    <2> QED BY <1>6, <2>1, <2>2 DEF List
  <1>7. CASE Refused \/ Throw \/ OpenStream \/ TransportLost \/ LocalTarKilled
    <2>1. CASE Refused \/ Throw
      BY <2>1 DEF Refused, Throw, Answer
    <2>2. CASE OpenStream
      BY <2>2 DEF OpenStream
    <2>3. CASE TransportLost
      BY <2>3 DEF TransportLost
    <2>4. CASE LocalTarKilled
      BY <2>4 DEF LocalTarKilled
    <2> QED BY <1>7, <2>1, <2>2, <2>3, <2>4
  <1>8. CASE Abandon \/ TornDown \/ Judge \/ Copied
    <2>1. CASE Abandon
      BY <2>1 DEF Abandon
    <2>2. CASE TornDown
      BY <2>2 DEF TornDown, Answer
    <2>3. CASE Judge
      BY <2>3 DEF Judge, Answer
    <2>4. CASE Copied
      BY <2>4 DEF Copied, Answer
    <2> QED BY <1>8, <2>1, <2>2, <2>3, <2>4
  <1>9. ASSUME NEW f \in Files, OthersAdd(f) \/ OthersRemove(f)
        PROVE  TypeOK'
    <2>1. CASE OthersAdd(f)
      BY <2>1 DEF OthersAdd
    <2>2. CASE OthersRemove(f)
      BY <2>2 DEF OthersRemove
    <2> QED BY <1>9, <2>1, <2>2
  <1>10. ASSUME NEW files \in pending, Expire(files)
         PROVE  TypeOK'
    BY <1>10 DEF Expire
  <1>11. CASE ServerCloses
    BY <1>11 DEF ServerCloses
  <1>12. ASSUME NEW f \in BOOLEAN, Call(f)
         PROVE  TypeOK'
    <2>1. calls' \in 0..MaxCalls
      BY <1>12, ConstantFacts DEF Call
    <2> QED BY <1>12, <2>1 DEF Call
  <1>13. CASE UNCHANGED vars
    BY <1>13 DEF vars
  <1> QED BY <1>1, <1>2, <1>3, <1>4, <1>5, <1>6, <1>7, <1>8, <1>9, <1>10, <1>11, <1>12, <1>13
          DEF Next, Transfer, Others

LEMMA InitTypes == PullConstants /\ Init => TypeOK
  <1> SUFFICES ASSUME PullConstants, Init PROVE TypeOK
    OBVIOUS
  <1>1. calls \in 0..MaxCalls
    BY ConstantFacts DEF Init
  <1>2. shown \subseteq 0..Cardinality(Files) /\ pending \subseteq shown /\ local \in [Files -> {"old", "part", "whole"}]
    BY DEF Init
  <1> QED BY <1>1, <1>2 DEF Init, TypeOK, Pcs, Codes

\* The state of a pull keeps its type, whatever is transferred and however it fails.
THEOREM PullTypeCorrect ==
    ASSUME PullConstants
    PROVE  Spec => []TypeOK
  BY InitTypes, TypeStep, PTL DEF Spec

-----------------------------------------------------------------------------
(* The channel and the tar at its end. *)

LEMMA ChannelStep ==
    ASSUME TypeOK, ChannelInv, TarInv, [Next]_vars
    PROVE  ChannelInv' /\ TarInv'
  <1> USE DEF ChannelInv, TarInv, streamVars, Answer
  <1>1. CASE UNCHANGED <<pc, channel, localTar>>
    BY <1>1
  <1>2. ASSUME NEW f \in Files,
               \/ CopyStart(f) \/ CopyEnd(f) \/ ExtractStart(f) \/ ExtractEnd(f) \/ Send(f)
               \/ OthersAdd(f) \/ OthersRemove(f)
        PROVE  UNCHANGED <<pc, channel, localTar>>
    BY <1>2 DEF CopyStart, CopyEnd, ExtractStart, ExtractEnd, Send, OthersAdd, OthersRemove
  <1>3. ASSUME NEW f \in Files, ListFile(f)
        PROVE  ChannelInv' /\ TarInv'
    BY <1>3 DEF ListFile
  <1>4. ASSUME NEW code \in Codes, StreamEnds(code) \/ LocalTarEnds(code)
        PROVE  ChannelInv' /\ TarInv'
    BY <1>4 DEF StreamEnds, LocalTarEnds, Codes
  <1>5. ASSUME NEW yes \in BOOLEAN, HasTar(yes)
        PROVE  ChannelInv' /\ TarInv'
    BY <1>5 DEF HasTar
  <1>6. CASE Refused \/ Stat \/ List \/ Throw \/ OpenStream \/ TransportLost \/ LocalTarKilled
    BY <1>6 DEF Refused, Stat, List, Throw, OpenStream, TransportLost, LocalTarKilled
  <1>7. CASE Abandon \/ TornDown \/ Judge \/ Copied \/ ServerCloses
    BY <1>7 DEF Abandon, TornDown, Judge, Copied, ServerCloses
  <1>8. ASSUME NEW f \in BOOLEAN, Call(f)
        PROVE  ChannelInv' /\ TarInv'
    BY <1>8 DEF Call
  <1>9. CASE UNCHANGED vars \/ \E files \in pending : Expire(files)
    BY <1>1, <1>9 DEF vars, Expire
  <1> QED BY <1>1, <1>2, <1>3, <1>4, <1>5, <1>6, <1>7, <1>8, <1>9 DEF Next, Transfer, Others

LEMMA ChannelInductive ==
    ASSUME PullConstants
    PROVE  Spec => [](TypeOK /\ ChannelInv /\ TarInv)
  <1>1. Init => ChannelInv /\ TarInv
    BY DEF Init, ChannelInv, TarInv
  <1> QED BY <1>1, InitTypes, TypeStep, ChannelStep, PTL DEF Spec

\* abandonTransfer: by the time the pull copies files, or answers, its channel is closed
\* or closing.
THEOREM NoChannelHeld ==
    ASSUME PullConstants
    PROVE  Spec => []NoHeldChannel
  <1>1. ChannelInv => NoHeldChannel
    BY DEF ChannelInv, NoHeldChannel
  <1> QED BY <1>1, ChannelInductive, PTL

-----------------------------------------------------------------------------
(* Success means the whole directory. *)

LEMMA ListedStep ==
    ASSUME TypeOK, WholeListing, ChannelInv, TarInv, ListedInv, [Next]_vars
    PROVE  ListedInv'
  <1> USE DEF TypeOK, TarInv, ListedInv, Untouched, Streaming, Transferring, streamVars, Answer
  <1>1. ASSUME NEW f \in Files, ListFile(f) \/ CopyStart(f) \/ CopyEnd(f)
        PROVE  ListedInv'
    BY <1>1 DEF ListFile, CopyStart, CopyEnd
  <1>2. ASSUME NEW f \in Files, ExtractStart(f) \/ ExtractEnd(f) \/ Send(f)
        PROVE  ListedInv'
    BY <1>2 DEF ExtractStart, ExtractEnd, Send
  <1>3. ASSUME NEW code \in Codes, StreamEnds(code) \/ LocalTarEnds(code)
        PROVE  ListedInv'
    BY <1>3 DEF StreamEnds, LocalTarEnds
  <1>4. ASSUME NEW yes \in BOOLEAN, HasTar(yes)
        PROVE  ListedInv'
    BY <1>4 DEF HasTar
  <1>5. CASE Refused \/ Stat \/ Throw \/ OpenStream \/ TransportLost \/ LocalTarKilled
    BY <1>5 DEF Refused, Stat, Throw, OpenStream, TransportLost, LocalTarKilled
  <1>6. CASE List
    BY <1>6 DEF List, Listings, WholeListing
  <1>7. CASE Abandon \/ TornDown \/ Judge \/ Copied \/ ServerCloses
    BY <1>7 DEF Abandon, TornDown, Judge, Copied, ServerCloses
  <1>8. ASSUME NEW f \in Files, OthersAdd(f) \/ OthersRemove(f)
        PROVE  ListedInv'
    BY <1>8 DEF OthersAdd, OthersRemove, WholeListing
  <1>9. ASSUME NEW f \in BOOLEAN, Call(f)
        PROVE  ListedInv'
    BY <1>9 DEF Call
  <1>10. CASE UNCHANGED vars \/ \E files \in pending : Expire(files)
    BY <1>10 DEF vars, Expire
  <1> QED BY <1>1, <1>2, <1>3, <1>4, <1>5, <1>6, <1>7, <1>8, <1>9, <1>10 DEF Next, Transfer, Others

LEMMA FetchedStep ==
    ASSUME TypeOK, ChannelInv, TarInv, ListedInv, FetchedInv, [Next]_vars
    PROVE  FetchedInv'
  <1> USE DEF TypeOK, ChannelInv, TarInv, ListedInv, Untouched, FetchedInv, Streaming, Transferring,
              streamVars, Answer
  <1>1. ASSUME NEW f \in Files, ListFile(f) \/ CopyStart(f) \/ CopyEnd(f)
        PROVE  FetchedInv'
    BY <1>1 DEF ListFile, CopyStart, CopyEnd
  <1>2. ASSUME NEW f \in Files, ExtractStart(f) \/ ExtractEnd(f) \/ Send(f)
        PROVE  FetchedInv'
    BY <1>2 DEF ExtractStart, ExtractEnd, Send
  <1>3. ASSUME NEW code \in Codes, StreamEnds(code) \/ LocalTarEnds(code)
        PROVE  FetchedInv'
    BY <1>3 DEF StreamEnds, LocalTarEnds
  <1>4. ASSUME NEW yes \in BOOLEAN, HasTar(yes)
        PROVE  FetchedInv'
    BY <1>4 DEF HasTar
  <1>5. CASE Refused \/ Stat \/ Throw \/ OpenStream \/ TransportLost \/ LocalTarKilled
    BY <1>5 DEF Refused, Stat, Throw, OpenStream, TransportLost, LocalTarKilled
  <1>6. CASE List
    BY <1>6 DEF List
  <1>7. CASE Abandon \/ TornDown \/ Judge \/ Copied \/ ServerCloses
    BY <1>7 DEF Abandon, TornDown, Judge, Copied, ServerCloses
  <1>8. ASSUME NEW f \in Files, OthersAdd(f) \/ OthersRemove(f)
        PROVE  FetchedInv'
    BY <1>8 DEF OthersAdd, OthersRemove
  <1>9. ASSUME NEW f \in BOOLEAN, Call(f)
        PROVE  FetchedInv'
    BY <1>9 DEF Call
  <1>10. CASE UNCHANGED vars \/ \E files \in pending : Expire(files)
    BY <1>10 DEF vars, Expire
  <1> QED BY <1>1, <1>2, <1>3, <1>4, <1>5, <1>6, <1>7, <1>8, <1>9, <1>10 DEF Next, Transfer, Others

LEMMA AnswerStep ==
    ASSUME TypeOK, TarInv, ListedInv, FetchedInv, AnswerInv, SuccessMeansWhole, [Next]_vars
    PROVE  AnswerInv' /\ SuccessMeansWhole'
  <1> USE DEF TypeOK, TarInv, AnswerInv, streamVars
  <1>1. CASE answer' = "none"
    BY <1>1 DEF SuccessMeansWhole
  <1>2. CASE /\ answer' = answer /\ pc' = pc /\ answer # "none" /\ UNCHANGED <<local, left, cut, localTar>>
             /\ steady' \subseteq steady
    BY <1>2 DEF SuccessMeansWhole, Misread
  <1>3. CASE Answer("asked") \/ Answer("failed")
    BY <1>3 DEF Answer, SuccessMeansWhole
  <1>4. CASE pc # "idle" /\ answer' = answer
    BY <1>1, <1>4
  <1>5. CASE Judge /\ Succeeded
    <2>1. /\ pc = "waiting" /\ remoteExit = "zero" /\ localTar \in {"zero", "killed"}
          /\ pc' = "idle" /\ UNCHANGED <<local, left, cut, localTar, steady>>
      BY <1>5 DEF Judge, Succeeded, Answer
    <2>2. left = listed /\ steady \subseteq listed /\ sent \subseteq listed
      BY <2>1 DEF ListedInv, Transferring, Streaming
    <2>3. \A f \in Files : local[f] # "old" => f \in sent
      BY <2>1 DEF FetchedInv, Streaming
    <2>4. CASE left = {}
      BY <2>1, <2>2, <2>3, <2>4 DEF SuccessMeansWhole
    <2>5. CASE ~ cut /\ localTar = "zero"
      <3>1. steady \subseteq sent /\ \A f \in sent : local[f] = "whole"
        BY <2>1, <2>5 DEF FetchedInv
      <3> QED BY <2>1, <2>3, <3>1 DEF SuccessMeansWhole
    <2>6. CASE left # {} /\ (cut \/ localTar = "killed")
      BY <2>1, <2>6 DEF SuccessMeansWhole, Misread
    <2> QED BY <2>1, <2>4, <2>5, <2>6
  <1>6. CASE Copied
    <2>1. /\ pc = "copying" /\ left = {} /\ \A f \in listed : local[f] # "part"
          /\ pc' = "idle" /\ UNCHANGED <<local, left, cut, localTar, steady>>
      BY <1>6 DEF Copied, Answer
    <2>2. steady \subseteq listed /\ \A f \in Files : local[f] # "old" <=> f \in listed
      BY <2>1 DEF ListedInv, Transferring, FetchedInv
    <2> QED BY <2>1, <2>2 DEF SuccessMeansWhole
  <1>7. ASSUME NEW f \in Files,
               \/ ListFile(f) \/ CopyStart(f) \/ CopyEnd(f) \/ ExtractStart(f) \/ ExtractEnd(f) \/ Send(f)
        PROVE  AnswerInv' /\ SuccessMeansWhole'
    BY <1>4, <1>7 DEF ListFile, CopyStart, CopyEnd, ExtractStart, ExtractEnd, Send
  <1>8. ASSUME NEW code \in Codes, StreamEnds(code) \/ LocalTarEnds(code)
        PROVE  AnswerInv' /\ SuccessMeansWhole'
    BY <1>4, <1>8 DEF StreamEnds, LocalTarEnds
  <1>9. ASSUME NEW yes \in BOOLEAN, HasTar(yes)
        PROVE  AnswerInv' /\ SuccessMeansWhole'
    BY <1>4, <1>9 DEF HasTar
  <1>10. CASE List \/ OpenStream \/ TransportLost \/ LocalTarKilled \/ Abandon \/ TornDown
              \/ (Judge /\ ~ Succeeded)
    BY <1>4, <1>10 DEF List, OpenStream, TransportLost, LocalTarKilled, Abandon, TornDown, Judge
  <1>11. CASE Refused \/ Stat \/ Throw
    BY <1>3, <1>4, <1>11 DEF Refused, Stat, Throw
  <1>12. ASSUME answer' = answer, pc' = pc, UNCHANGED <<local, left, cut, localTar>>, steady' \subseteq steady
         PROVE  AnswerInv' /\ SuccessMeansWhole'
    BY <1>1, <1>2, <1>12
  <1>13. CASE ServerCloses \/ UNCHANGED vars \/ \E files \in pending : Expire(files)
    BY <1>12, <1>13 DEF ServerCloses, vars, Expire
  <1>14. ASSUME NEW f \in Files, OthersAdd(f) \/ OthersRemove(f)
         PROVE  AnswerInv' /\ SuccessMeansWhole'
    BY <1>12, <1>14 DEF OthersAdd, OthersRemove
  <1>15. ASSUME NEW f \in BOOLEAN, Call(f)
         PROVE  AnswerInv' /\ SuccessMeansWhole'
    BY <1>1, <1>15 DEF Call
  <1> QED BY <1>5, <1>6, <1>7, <1>8, <1>9, <1>10, <1>11, <1>13, <1>14, <1>15 DEF Next, Transfer, Others

\* pullDirectory: a pull that reports success has fetched whole every file that was there
\* all along, by the stream, file by file, or the one after the other has failed; but for
\* a stream that the exit codes misread.
THEOREM DoneMeansFetched ==
    ASSUME PullConstants, WholeListing
    PROVE  Spec => []SuccessMeansWhole
  <1> DEFINE PullInv == TypeOK /\ ChannelInv /\ TarInv /\ WholeInv
  <1>1. Init => PullInv
    BY InitTypes DEF Init, ChannelInv, TarInv, WholeInv, ListedInv, FetchedInv, AnswerInv, SuccessMeansWhole,
                     Streaming, Transferring
  <1>2. PullInv /\ [Next]_vars => PullInv'
    BY TypeStep, ChannelStep, ListedStep, FetchedStep, AnswerStep DEF WholeInv
  <1>3. PullInv => SuccessMeansWhole
    BY DEF WholeInv
  <1> QED BY <1>1, <1>2, <1>3, PTL DEF Spec

-----------------------------------------------------------------------------
(* What is transferred was shown. *)

LEMMA ShownStep ==
    ASSUME PullConstants, WholeListing, TypeOK, ShownInv, [Next]_vars
    PROVE  ShownInv'
  <1> DEFINE Large(s, shownTo) == Cardinality(s) > WarnFiles => \E n \in shownTo : Cardinality(s) <= n
  <1>1. ASSUME NEW S \in SUBSET Files, NEW T \in SUBSET S, Large(S, shown)
        PROVE  Large(T, shown)
    <2>1. Cardinality(T) \in Nat /\ Cardinality(S) \in Nat /\ Cardinality(T) <= Cardinality(S)
      BY CountFacts
    <2>2. WarnFiles \in Nat /\ \A n \in shown : n \in Nat
      BY FS_CardinalityType, ConstantFacts DEF TypeOK
    <2> QED BY <1>1, <2>1, <2>2
  <1>2. pc = "listing" => Large(remote, shown)
    BY DEF ShownInv
  <1>3. pc \in Transferring => Large(listed, shown)
    BY DEF ShownInv, ShownBeforeLarge, Transferring, Streaming
  <1>4. ASSUME pc' = "listing" => Large(remote', shown'), pc' \in Transferring => Large(listed', shown')
        PROVE  ShownInv'
    BY <1>4 DEF ShownInv, ShownBeforeLarge, Transferring, Streaming
  <1> USE DEF Transferring, Streaming, streamVars
  <1>5. CASE /\ shown \subseteq shown' /\ listed' = listed /\ pc' # "listing"
             /\ pc' \in Transferring => pc \in Transferring
    BY <1>3, <1>4, <1>5
  <1>6. CASE UNCHANGED <<pc, shown, listed>> /\ remote' \subseteq remote
    BY <1>1, <1>2, <1>3, <1>4, <1>6 DEF TypeOK
  <1>7. CASE List \/ \E f \in Files : ListFile(f)
    <2>1. pc = "listing" /\ listed' \subseteq remote /\ shown' = shown /\ pc' # "listing"
      BY <1>7 DEF List, Listings, ListFile
    <2> QED BY <1>1, <1>2, <1>4, <2>1 DEF TypeOK
  <1>8. CASE Stat
    <2>1. CASE pc' = "listing"
      <3>1. Cardinality(remote) > WarnFiles => Cardinality(remote) \in shown
        BY <1>8, <2>1 DEF Stat, Known, Answer, TypeOK
      <3>2. Cardinality(remote) \in Nat
        BY CountFacts DEF TypeOK
      <3>3. shown' = shown /\ remote' = remote
        BY <1>8, <2>1 DEF Stat, Answer
      <3> QED BY <1>4, <2>1, <3>1, <3>2, <3>3
    <2>2. CASE pc' = "idle"
      BY <1>4, <2>2
    <2> QED BY <1>8, <2>1, <2>2 DEF Stat, Answer
  <1>9. ASSUME NEW f \in Files, CopyStart(f) \/ CopyEnd(f) \/ ExtractStart(f) \/ ExtractEnd(f) \/ Send(f)
        PROVE  ShownInv'
    BY <1>6, <1>9 DEF CopyStart, CopyEnd, ExtractStart, ExtractEnd, Send
  <1>10. ASSUME NEW code \in Codes, StreamEnds(code) \/ LocalTarEnds(code)
         PROVE  ShownInv'
    BY <1>5, <1>6, <1>10 DEF StreamEnds, LocalTarEnds
  <1>11. ASSUME NEW yes \in BOOLEAN, HasTar(yes)
         PROVE  ShownInv'
    BY <1>5, <1>11 DEF HasTar
  <1>12. CASE Refused \/ Throw \/ OpenStream \/ TransportLost \/ Abandon \/ TornDown \/ Judge \/ Copied
    BY <1>5, <1>12 DEF Refused, Throw, OpenStream, TransportLost, Abandon, TornDown, Judge, Copied, Answer
  <1>13. CASE LocalTarKilled \/ ServerCloses \/ UNCHANGED vars \/ \E files \in pending : Expire(files)
    BY <1>6, <1>13 DEF LocalTarKilled, ServerCloses, vars, Expire
  <1>14. ASSUME NEW f \in Files, OthersAdd(f)
         PROVE  ShownInv'
    BY <1>5, <1>14 DEF OthersAdd, WholeListing
  <1>15. ASSUME NEW f \in Files, OthersRemove(f)
         PROVE  ShownInv'
    BY <1>6, <1>15 DEF OthersRemove
  <1>16. ASSUME NEW f \in BOOLEAN, Call(f)
         PROVE  ShownInv'
    BY <1>4, <1>16 DEF Call
  <1> QED BY <1>7, <1>8, <1>9, <1>10, <1>11, <1>12, <1>13, <1>14, <1>15, <1>16 DEF Next, Transfer, Others

\* The confirmation of a pull: no more files are transferred than a warning has named.
THEOREM PullShown ==
    ASSUME PullConstants, WholeListing
    PROVE  Spec => []ShownBeforeLarge
  <1>1. Init => ShownInv
    BY DEF Init, ShownInv, ShownBeforeLarge
  <1>2. TypeOK /\ ShownInv /\ [Next]_vars => (TypeOK /\ ShownInv)'
    BY TypeStep, ShownStep
  <1>3. ShownInv => ShownBeforeLarge
    BY DEF ShownInv
  <1> QED BY <1>1, <1>2, <1>3, InitTypes, PTL DEF Spec

-----------------------------------------------------------------------------
(***************************************************************************)
(* The transfers side by side: a behaviour is one of the pull's, and one   *)
(* of the push's if that is its subject.                                   *)
(***************************************************************************)

\* The push with what is proved of it.
Pushes == INSTANCE RemotePushProofs
            WITH Files <- {f1, f2}, Dirs <- <<base, sub>>, Above <- above,
                 Parent <- (base :> above) @@ (sub :> base) @@ (f1 :> base) @@ (f2 :> sub),
                 MaxEdits <- 2, remote <- remoteTree, local <- localFiles, pc <- pushPc,
                 answer <- pushAnswer, calls <- pushCalls, force <- pushForce,
                 pending <- pushPending, shown <- pushShown, listed <- scanned, left <- pushLeft

bothVars == <<subject, vars, pushVars>>

\* The two instances are the same push.
LEMMA SameTree ==
    /\ Push!Places = Pushes!Places /\ Push!Trees = Pushes!Trees
    /\ \A S : Push!Cardinality(S) = Pushes!Cardinality(S)
    /\ Push!vars = Pushes!vars
    /\ Push!PushConstants <=> Pushes!PushConstants
  <1>1. Push!Places = Pushes!Places
    BY DEF Push!Places, Pushes!Places, Push!ToSet, Pushes!ToSet
  <1>2. Push!Trees = Pushes!Trees
    BY <1>1 DEF Push!Trees, Pushes!Trees, Push!IsDir, Pushes!IsDir, Push!Versions,
                Pushes!Versions, Push!Directory, Pushes!Directory, Push!Theirs, Pushes!Theirs
  <1>3. \A S : Push!Cardinality(S) = Pushes!Cardinality(S)
    BY DEF Push!Cardinality, Pushes!Cardinality
  <1>4. Push!vars = Pushes!vars
    BY DEF Push!vars, Pushes!vars, Push!transferVars, Pushes!transferVars
  <1>5. Push!PushConstants <=> Pushes!PushConstants
    BY <1>1 DEF Push!PushConstants, Pushes!PushConstants, Push!IsFiniteSet, Pushes!IsFiniteSet,
                Push!ToSet, Pushes!ToSet
  <1> QED BY <1>1, <1>2, <1>3, <1>4, <1>5

LEMMA SamePush ==
    /\ Push!Init <=> Pushes!Init
    /\ Push!Next <=> Pushes!Next
    /\ Push!SuccessMeansPushed <=> Pushes!SuccessMeansPushed
    /\ Push!ShownBeforeLarge <=> Pushes!ShownBeforeLarge
  <1>1. Push!Init <=> Pushes!Init
    BY SameTree DEF Push!Init, Pushes!Init, Push!Nothing, Pushes!Nothing, Push!Versions,
                    Pushes!Versions
  <1>2. Push!Stat <=> Pushes!Stat
    BY SameTree DEF Push!Stat, Pushes!Stat, Push!Found, Pushes!Found, Push!Answer,
                    Pushes!Answer, Push!transferVars, Pushes!transferVars
  <1>3. Push!Scan <=> Pushes!Scan
    BY SameTree DEF Push!Scan, Pushes!Scan, Push!List, Pushes!List, Push!Found, Pushes!Found,
                    Push!transferVars, Pushes!transferVars
  <1>4. Push!MakeDir <=> Pushes!MakeDir
    BY SameTree DEF Push!MakeDir, Pushes!MakeDir, Push!Mkdir, Pushes!Mkdir, Push!Below,
                    Pushes!Below, Push!Directory, Pushes!Directory, Push!transferVars,
                    Pushes!transferVars
  <1>5. Push!DirsMade <=> Pushes!DirsMade
    BY SameTree DEF Push!DirsMade, Pushes!DirsMade, Push!transferVars, Pushes!transferVars
  <1>6. Push!Pushed <=> Pushes!Pushed
    BY SameTree DEF Push!Pushed, Pushes!Pushed, Push!Answer, Pushes!Answer, Push!transferVars,
                    Pushes!transferVars
  <1>7. Push!Throw <=> Pushes!Throw
    BY SameTree DEF Push!Throw, Pushes!Throw, Push!Answer, Pushes!Answer, Push!transferVars,
                    Pushes!transferVars
  <1>8. \A f \in {f1, f2} : Push!ScanFile(f) <=> Pushes!ScanFile(f)
    BY SameTree DEF Push!ScanFile, Pushes!ScanFile, Push!List, Pushes!List, Push!transferVars,
                    Pushes!transferVars
  <1>9. \A f \in {f1, f2} : Push!Put(f) <=> Pushes!Put(f)
    BY SameTree DEF Push!Put, Pushes!Put, Push!IsDir, Pushes!IsDir, Push!Directory,
                    Pushes!Directory, Push!transferVars, Pushes!transferVars
  <1>10. \A f \in {f1, f2} : Push!UserEdits(f) <=> Pushes!UserEdits(f)
    BY SameTree DEF Push!UserEdits, Pushes!UserEdits, Push!transferVars, Pushes!transferVars
  <1>11. \A p \in Pushes!Places : Push!OthersChange(p) <=> Pushes!OthersChange(p)
    BY SameTree DEF Push!OthersChange, Pushes!OthersChange, Push!Theirs, Pushes!Theirs,
                    Push!Below, Pushes!Below, Push!transferVars, Pushes!transferVars
  <1>12. \A n \in pushPending : Push!Expire(n) <=> Pushes!Expire(n)
    BY SameTree DEF Push!Expire, Pushes!Expire, Push!transferVars, Pushes!transferVars
  <1>13. \A b \in BOOLEAN : Push!Call(b) <=> Pushes!Call(b)
    BY SameTree DEF Push!Call, Pushes!Call, Push!Nothing, Pushes!Nothing
  <1>14. Push!Next <=> Pushes!Next
    BY SameTree, <1>2, <1>3, <1>4, <1>5, <1>6, <1>7, <1>8, <1>9, <1>10, <1>11, <1>12, <1>13
       DEF Push!Next, Pushes!Next, Push!Transfer, Pushes!Transfer, Push!Others, Pushes!Others
  <1>15. Push!SuccessMeansPushed <=> Pushes!SuccessMeansPushed
    BY DEF Push!SuccessMeansPushed, Pushes!SuccessMeansPushed
  <1>16. Push!ShownBeforeLarge <=> Pushes!ShownBeforeLarge
    BY SameTree DEF Push!ShownBeforeLarge, Pushes!ShownBeforeLarge
  <1> QED BY <1>1, <1>14, <1>15, <1>16

\* The theorems about the pull speak of these behaviours too.
LEMMA EitherPulls == FairSpec => Spec
  <1>1. InitEither => Init
    BY DEF InitEither
  <1>2. [NextEither]_bothVars => [Next]_vars
    BY DEF NextEither, bothVars
  <1> QED BY <1>1, <1>2, PTL DEF FairSpec, Spec, bothVars

\* A push is a push all along, and what is not a push is none at any time.
LEMMA EitherPushes ==
    FairSpec => [](subject # "push") \/ ([](subject = "push") /\ Pushes!Spec)
  <1>1. InitEither => subject # "push" \/ (subject = "push" /\ Pushes!Init)
    BY SamePush DEF InitEither
  <1>2. subject = "push" /\ [NextEither]_bothVars => [Pushes!Next]_(Pushes!vars)
    BY SameTree, SamePush DEF NextEither, bothVars, Pushes!vars, Pushes!transferVars, pushVars
  <1>3. subject = "push" /\ [NextEither]_bothVars => (subject = "push")'
    BY DEF NextEither, bothVars
  <1>4. subject # "push" /\ [NextEither]_bothVars => (subject # "push")'
    BY DEF NextEither, bothVars
  <1> QED BY <1>1, <1>2, <1>3, <1>4, PTL DEF FairSpec, bothVars, Pushes!Spec

\* pushDirectory: in the behaviours the run transfers checks, what a push reports as put
\* is there and it was announced when it was large, if the user adds no files to the
\* directory while it is pushed.
THEOREM PushKeepsItsWord ==
    ASSUME ~ AddsMeanwhile
    PROVE  FairSpec => []PushKept
  <1>1. Pushes!PushConstants
    BY TransfersAssumption, SameTree
  <1>2. Pushes!Spec => []Pushes!SuccessMeansPushed
    BY <1>1, Pushes!DoneMeansPushed
  <1>3. Pushes!Spec => []Pushes!ShownBeforeLarge
    BY <1>1, Pushes!PushShown
  <1>4. subject # "push" => PushKept
    BY DEF PushKept
  <1>5. Pushes!SuccessMeansPushed /\ Pushes!ShownBeforeLarge => PushKept
    BY SamePush DEF PushKept
  <1> QED BY <1>2, <1>3, <1>4, <1>5, EitherPushes, PTL

=============================================================================
