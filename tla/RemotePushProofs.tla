-------------------------- MODULE RemotePushProofs --------------------------
(***************************************************************************)
(* Proofs about RemotePush, for any tree of directories and files and any  *)
(* bounds: success means that every file of the scan was put in its place, *)
(* and, where the user adds no files meanwhile, as many as a warning named. *)
(***************************************************************************)
EXTENDS RemotePush, FiniteSetTheorems, TLAPS

-----------------------------------------------------------------------------
(* The invariants. *)

\* Contents grow with the edits: what a file has now is what the scan found, or newer.
NewerInv ==
    \A f \in Files :
      /\ local[f] # None => local[f] <= edits + 1
      /\ listed[f] # None => listed[f] <= edits + 1
      /\ listed[f] # None /\ local[f] # None => listed[f] <= local[f]

\* A file that is listed and no more to upload is put, and stays but for others.
PutInv ==
    \A f \in Files : listed[f] # None /\ f \notin left =>
        /\ put[f] # None /\ listed[f] <= put[f]
        /\ f \notin theirs => remote[f] = put[f]

\* A call that has answered ok is over, with nothing left.
DoneInv == answer = "done" => pc = "idle" /\ left = {}

\* What is listed, or is about to be, was shown.
ShownInv ==
    /\ pc = "scanning" /\ Cardinality(Found) > WarnFiles => \E n \in shown : Cardinality(Found) <= n
    /\ ShownBeforeLarge

-----------------------------------------------------------------------------
(* Types. *)

LEMMA ConstantFacts ==
    ASSUME PushConstants
    PROVE  /\ IsFiniteSet(Files) /\ WarnFiles \in Nat /\ MaxCalls \in Nat /\ MaxEdits \in Nat
           /\ Dirs \in Seq(ToSet(Dirs)) /\ \A f \in Files : f \notin ToSet(Dirs) /\ f # Above
           /\ Above \notin Places /\ Parent \in [Places -> ToSet(Dirs) \cup {Above}]
           /\ None \notin Int /\ None \notin Versions /\ \A v \in Versions : v \in Nat
           /\ \A n \in 0..MaxEdits : n + 1 \in Versions
  BY DEF PushConstants, Places, Versions

LEMMA CountFacts ==
    ASSUME PushConstants, NEW S, S \subseteq Files
    PROVE  /\ IsFiniteSet(S) /\ Cardinality(S) \in 0..Cardinality(Files)
           /\ \A T \in SUBSET S : Cardinality(T) \in Nat /\ Cardinality(T) <= Cardinality(S)
  <1>1. IsFiniteSet(S) /\ Cardinality(S) <= Cardinality(Files)
    BY FS_Subset, ConstantFacts
  <1>2. Cardinality(S) \in Nat /\ Cardinality(Files) \in Nat
    BY <1>1, FS_CardinalityType, ConstantFacts
  <1>3. ASSUME NEW T \in SUBSET S
        PROVE  Cardinality(T) \in Nat /\ Cardinality(T) <= Cardinality(S)
    BY <1>1, FS_Subset, FS_CardinalityType
  <1> QED BY <1>1, <1>2, <1>3

\* A file goes where there is a directory, and is none itself.
LEMMA PutInTree ==
    ASSUME PushConstants, NEW r \in Trees, NEW f \in Files, NEW v \in Versions, IsDir(r, Parent[f])
    PROVE  [r EXCEPT ![f] = v] \in Trees
  <1> DEFINE t == [r EXCEPT ![f] = v]
  <1>1. /\ r \in [Places -> {None, Directory, Theirs} \cup Versions] /\ f \in Places
        /\ \A p \in Places : r[p] = None \/ IsDir(r, Parent[p])
    BY DEF Trees, Places
  <1>2. /\ t \in [Places -> {None, Directory, Theirs} \cup Versions]
        /\ \A p \in Places \ {f} : t[p] = r[p]
    BY <1>1
  <1>3. ASSUME NEW p \in Places
        PROVE  t[p] = None \/ IsDir(t, Parent[p])
    <2>1. Parent[p] # f /\ (Parent[p] = Above \/ Parent[p] \in Places)
      BY ConstantFacts DEF Places
    <2>2. IsDir(r, Parent[p]) => IsDir(t, Parent[p])
      BY <1>2, <2>1 DEF IsDir
    <2>3. p # f => t[p] = r[p]
      BY <1>2
    <2> QED BY <1>1, <2>2, <2>3
  <1> QED BY <1>2, <1>3 DEF Trees

LEMMA ListTypes ==
    ASSUME TypeOK, NEW found \in SUBSET Files, NEW dirs \in Seq(ToSet(Dirs)), List(found, dirs)
    PROVE  TypeOK'
  BY DEF TypeOK, List, transferVars

LEMMA TypeStep ==
    ASSUME PushConstants, TypeOK, [Next]_vars
    PROVE  TypeOK'
  <1> USE ConstantFacts DEF TypeOK
  <1>1. CASE Stat
    <2>1. Cardinality(Found) \in 0..Cardinality(Files)
      BY CountFacts DEF Found
    <2> QED BY <1>1, <2>1 DEF Stat, Answer
  <1>2. CASE Scan
    <2>1. Found \in SUBSET Files
      BY DEF Found
    <2> QED BY <1>2, <2>1, ListTypes DEF Scan
  <1>3. ASSUME NEW f \in Files, ScanFile(f)
        PROVE  TypeOK'
    <2>1. Parent[f] \in ToSet(Dirs) \cup {Above}
      BY DEF Places
    <2>2. (IF Parent[f] = Above THEN <<>> ELSE <<Parent[f]>>) \in Seq(ToSet(Dirs))
      BY <2>1
    <2>3. {f} \in SUBSET Files
      OBVIOUS
    <2> QED BY <1>3, <2>2, <2>3, ListTypes DEF ScanFile
  <1>4. CASE MakeDir
    <2>1. remote' \in Trees /\ making' \in Seq(ToSet(Dirs))
      BY <1>4 DEF MakeDir
    <2> QED BY <1>4, <2>1 DEF MakeDir, transferVars
  <1>5. CASE DirsMade \/ Pushed \/ Throw
    BY <1>5 DEF DirsMade, Pushed, Throw, Answer, transferVars
  <1>6. ASSUME NEW f \in Files, Put(f)
        PROVE  TypeOK'
    <2>1. local[f] \in Versions
      BY <1>6 DEF Put
    <2>2. remote' \in Trees
      BY <1>6, <2>1, PutInTree DEF Put
    <2> QED BY <1>6, <2>1, <2>2 DEF Put, transferVars
  <1>7. ASSUME NEW f \in Files, UserEdits(f)
        PROVE  TypeOK'
    <2>1. PICK contents \in {edits + 2, None} : local' = [local EXCEPT ![f] = contents]
      BY <1>7 DEF UserEdits
    <2>2. edits' \in 0..MaxEdits /\ edits' + 1 = edits + 2
      BY <1>7 DEF UserEdits
    <2>3. local' \in [Files -> Versions \cup {None}]
      BY <2>1, <2>2
    <2> QED BY <1>7, <2>2, <2>3 DEF UserEdits, transferVars
  <1>8. ASSUME NEW p \in Places, OthersChange(p)
        PROVE  TypeOK'
    <2>1. edits' \in 0..MaxEdits
      BY <1>8 DEF OthersChange
    <2> QED BY <1>8, <2>1 DEF OthersChange, transferVars
  <1>9. ASSUME NEW files \in pending, Expire(files)
        PROVE  TypeOK'
    BY <1>9 DEF Expire
  <1>10. ASSUME NEW f \in BOOLEAN, Call(f)
         PROVE  TypeOK'
    <2>1. calls' \in 0..MaxCalls /\ Nothing \in [Files -> Versions \cup {None}]
      BY <1>10 DEF Call, Nothing
    <2> QED BY <1>10, <2>1 DEF Call
  <1>11. CASE UNCHANGED vars
    BY <1>11 DEF vars, transferVars
  <1> QED BY <1>1, <1>2, <1>3, <1>4, <1>5, <1>6, <1>7, <1>8, <1>9, <1>10, <1>11 DEF Next, Transfer, Others

LEMMA InitTypes ==
    ASSUME PushConstants, Init
    PROVE  TypeOK
  <1>1. calls \in 0..MaxCalls /\ edits \in 0..MaxEdits
    BY ConstantFacts DEF Init
  <1>2. local \in [Files -> Versions \cup {None}] /\ Nothing \in [Files -> Versions \cup {None}]
    <2>1. 0 + 1 \in Versions
      BY ConstantFacts
    <2> QED BY <2>1 DEF Init, Nothing
  <1>3. pending \subseteq shown /\ shown \subseteq 0..Cardinality(Files) /\ making \in Seq(ToSet(Dirs))
    BY DEF Init
  <1> QED BY <1>1, <1>2, <1>3 DEF Init, TypeOK

\* The state of a push keeps its type; the remote side stays a tree.
THEOREM PushTypeCorrect ==
    ASSUME PushConstants
    PROVE  Spec => []TypeOK
  BY InitTypes, TypeStep, PTL DEF Spec

-----------------------------------------------------------------------------
(* Success means that the files were put. *)

LEMMA TypeFacts ==
    ASSUME PushConstants, TypeOK
    PROVE  /\ edits \in Nat /\ None \notin Int
           /\ \A f \in Files : /\ f \in Places
                               /\ local[f] # None => local[f] \in Nat
                               /\ listed[f] # None => listed[f] \in Nat
                               /\ put[f] # None => put[f] \in Nat
           /\ DOMAIN remote = Places /\ DOMAIN local = Files /\ DOMAIN put = Files
  BY ConstantFacts DEF TypeOK, Places, Trees

LEMMA NewerStep ==
    ASSUME PushConstants, TypeOK, NewerInv, [Next]_vars
    PROVE  NewerInv'
  <1> USE TypeFacts DEF NewerInv
  <1>1. CASE UNCHANGED <<local, listed>> /\ (edits' = edits \/ edits' = edits + 1)
    BY <1>1
  <1>2. ASSUME NEW found \in SUBSET Files, NEW dirs, List(found, dirs)
        PROVE  NewerInv'
    BY <1>2 DEF List
  <1>3. CASE Scan \/ \E f \in Files : ScanFile(f)
    BY <1>2, <1>3 DEF Scan, ScanFile, Found
  <1>4. ASSUME NEW f \in Files, UserEdits(f)
        PROVE  NewerInv'
    <2>1. PICK contents \in {edits + 2, None} : local' = [local EXCEPT ![f] = contents]
      BY <1>4 DEF UserEdits
    <2>2. edits' = edits + 1 /\ listed' = listed
      BY <1>4 DEF UserEdits
    <2> QED BY <2>1, <2>2
  <1>5. ASSUME NEW f \in BOOLEAN, Call(f)
        PROVE  NewerInv'
    BY <1>5 DEF Call, Nothing
  <1>6. CASE Stat \/ MakeDir \/ DirsMade \/ Pushed \/ Throw \/ \E f \in Files : Put(f)
    BY <1>1, <1>6 DEF Stat, MakeDir, DirsMade, Pushed, Throw, Put
  <1>7. CASE UNCHANGED vars \/ (\E p \in Places : OthersChange(p)) \/ \E files \in pending : Expire(files)
    BY <1>1, <1>7 DEF vars, OthersChange, Expire
  <1> QED BY <1>3, <1>4, <1>5, <1>6, <1>7 DEF Next, Transfer, Others

LEMMA PutStep ==
    ASSUME PushConstants, TypeOK, NewerInv, PutInv, DoneInv, [Next]_vars
    PROVE  PutInv' /\ DoneInv'
  <1> USE TypeFacts DEF PutInv, DoneInv, transferVars, Answer
  <1>1. CASE UNCHANGED <<remote, listed, left, put, theirs>> /\ (answer' = "done" => pc' = "idle" /\ left = {})
    BY <1>1
  <1>2. ASSUME NEW found \in SUBSET Files, NEW dirs, List(found, dirs)
        PROVE  PutInv' /\ DoneInv'
    BY <1>2 DEF List
  <1>3. CASE Stat \/ DirsMade \/ Pushed \/ Throw
    BY <1>1, <1>3 DEF Stat, DirsMade, Pushed, Throw
  <1>4. CASE MakeDir
    <2>1. \A f \in Files : remote[f] # None => remote'[f] = remote[f]
      BY <1>4 DEF MakeDir, Mkdir
    <2>2. UNCHANGED <<listed, left, put, theirs, answer>> /\ pc = "making"
      BY <1>4 DEF MakeDir
    <2> QED BY <2>1, <2>2
  <1>5. ASSUME NEW f \in Files, Put(f)
        PROVE  PutInv' /\ DoneInv'
    <2>1. /\ left' = left \ {f} /\ put'[f] = local[f] /\ local[f] # None /\ remote'[f] = local[f]
          /\ \A g \in Files \ {f} : put'[g] = put[g] /\ remote'[g] = remote[g]
          /\ UNCHANGED <<listed, theirs, answer>> /\ pc = "putting"
      BY <1>5 DEF Put
    <2> QED BY <2>1 DEF NewerInv
  <1>6. ASSUME NEW p \in Places, OthersChange(p)
        PROVE  PutInv' /\ DoneInv'
    <2>1. UNCHANGED <<listed, left, put, answer, pc>> /\ theirs \subseteq theirs'
      BY <1>6 DEF OthersChange
    <2>2. \A f \in Files : f \notin theirs' => remote'[f] = remote[f]
      BY <1>6 DEF OthersChange
    <2> QED BY <2>1, <2>2
  <1>7. ASSUME NEW f \in BOOLEAN, Call(f)
        PROVE  PutInv' /\ DoneInv'
    BY <1>7 DEF Call, Nothing
  <1>8. CASE UNCHANGED vars \/ (\E f \in Files : UserEdits(f)) \/ \E files \in pending : Expire(files)
    BY <1>1, <1>8 DEF vars, UserEdits, Expire
  <1>9. CASE Scan \/ \E f \in Files : ScanFile(f)
    BY <1>2, <1>9 DEF Scan, ScanFile, Found
  <1> QED BY <1>3, <1>4, <1>5, <1>6, <1>7, <1>8, <1>9 DEF Next, Transfer, Others

PushInv == TypeOK /\ NewerInv /\ PutInv /\ DoneInv

\* pushDirectory: a push that reports success has put every file of its scan, with what it
\* had then or has been given since, and it is there unless others have changed it.
THEOREM DoneMeansPushed ==
    ASSUME PushConstants
    PROVE  Spec => []SuccessMeansPushed
  <1>1. Init => NewerInv /\ PutInv /\ DoneInv
    BY DEF Init, NewerInv, PutInv, DoneInv, Nothing
  <1>2. PushInv /\ [Next]_vars => PushInv'
    BY TypeStep, NewerStep, PutStep DEF PushInv
  <1>3. PushInv => SuccessMeansPushed
    BY DEF PushInv, PutInv, DoneInv, SuccessMeansPushed
  <1> QED BY <1>1, <1>2, <1>3, InitTypes, PTL DEF Spec, PushInv

-----------------------------------------------------------------------------
(* What is pushed was shown. *)

LEMMA ShownStep ==
    ASSUME PushConstants, ~ AddsMeanwhile, TypeOK, ShownInv, [Next]_vars
    PROVE  ShownInv'
  <1> DEFINE Large(s, shownTo) == Cardinality(s) > WarnFiles => \E n \in shownTo : Cardinality(s) <= n
             Scanned == {f \in Files : listed[f] # None}
  <1>1. ASSUME NEW S \in SUBSET Files, NEW T \in SUBSET S, Large(S, shown)
        PROVE  Large(T, shown)
    <2>1. Cardinality(T) \in Nat /\ Cardinality(S) \in Nat /\ Cardinality(T) <= Cardinality(S)
      BY CountFacts
    <2>2. WarnFiles \in Nat /\ \A n \in shown : n \in Nat
      BY FS_CardinalityType, ConstantFacts DEF TypeOK
    <2> QED BY <1>1, <2>1, <2>2
  <1>2. pc = "scanning" => Large(Found, shown)
    BY DEF ShownInv
  <1>3. pc \in {"making", "putting"} => Large(Scanned, shown)
    BY DEF ShownInv, ShownBeforeLarge
  <1>4. ASSUME pc' = "scanning" => Large(Found', shown'), pc' \in {"making", "putting"} => Large(Scanned', shown')
        PROVE  ShownInv'
    BY <1>4 DEF ShownInv, ShownBeforeLarge
  <1>5. CASE /\ shown' = shown /\ listed' = listed /\ pc' # "scanning"
             /\ pc' \in {"making", "putting"} => pc \in {"making", "putting"}
    BY <1>3, <1>4, <1>5
  <1>6. CASE UNCHANGED <<pc, shown, listed>> /\ (pc = "scanning" => Found' \subseteq Found)
    <2>1. Found \subseteq Files
      BY DEF Found
    <2>2. pc = "scanning" => Large(Found', shown)
      BY <1>1, <1>2, <1>6, <2>1
    <2> QED BY <1>3, <1>4, <1>6, <2>2
  <1>7. ASSUME NEW found \in SUBSET Found, NEW dirs, List(found, dirs)
        PROVE  ShownInv'
    <2>1. Found \subseteq Files /\ pc = "scanning" /\ pc' = "making" /\ shown' = shown
      BY <1>7 DEF Found, List, transferVars
    <2>2. Scanned' \subseteq found
      BY <1>7 DEF List
    <2>3. Large(Scanned', shown)
      BY <1>1, <1>2, <2>1, <2>2
    <2> QED BY <1>4, <2>1, <2>3
  <1>8. CASE Scan \/ \E f \in Files : ScanFile(f)
    BY <1>7, <1>8 DEF Scan, ScanFile, Found
  <1>9. CASE Stat
    <2>1. CASE pc' = "scanning"
      <3>1. Cardinality(Found) > WarnFiles => Cardinality(Found) \in shown
        BY <1>9, <2>1 DEF Stat, Answer, TypeOK
      <3>2. Cardinality(Found) \in Nat
        BY CountFacts DEF Found
      <3>3. shown' = shown /\ Found' = Found
        BY <1>9, <2>1 DEF Stat, Answer, Found
      <3> QED BY <1>4, <2>1, <3>1, <3>2, <3>3
    <2>2. CASE pc' = "idle"
      BY <1>4, <2>2
    <2> QED BY <1>9, <2>1, <2>2 DEF Stat, Answer
  <1>10. CASE MakeDir \/ DirsMade \/ Pushed \/ Throw \/ \E f \in Files : Put(f)
    BY <1>5, <1>10 DEF MakeDir, DirsMade, Pushed, Throw, Put, Answer, transferVars
  <1>11. ASSUME NEW f \in Files, UserEdits(f)
         PROVE  ShownInv'
    <2>1. PICK contents : local' = [local EXCEPT ![f] = contents]
      BY <1>11 DEF UserEdits
    <2>2. pc = "scanning" => Found' \subseteq Found
      BY <1>11, <2>1 DEF UserEdits, Found, TypeOK
    <2> QED BY <1>6, <1>11, <2>2 DEF UserEdits, transferVars
  <1>12. CASE UNCHANGED vars \/ (\E p \in Places : OthersChange(p)) \/ \E files \in pending : Expire(files)
    BY <1>6, <1>12 DEF vars, OthersChange, Expire, Found, transferVars
  <1>13. ASSUME NEW f \in BOOLEAN, Call(f)
         PROVE  ShownInv'
    BY <1>4, <1>13 DEF Call
  <1> QED BY <1>8, <1>9, <1>10, <1>11, <1>12, <1>13 DEF Next, Transfer, Others

\* The confirmation of a push: no more files are pushed than a warning has named.
THEOREM PushShown ==
    ASSUME PushConstants, ~ AddsMeanwhile
    PROVE  Spec => []ShownBeforeLarge
  <1>1. Init => ShownInv
    BY DEF Init, ShownInv, ShownBeforeLarge
  <1>2. TypeOK /\ ShownInv /\ [Next]_vars => (TypeOK /\ ShownInv)'
    BY TypeStep, ShownStep
  <1>3. ShownInv => ShownBeforeLarge
    BY DEF ShownInv
  <1> QED BY <1>1, <1>2, <1>3, InitTypes, PTL DEF Spec

=============================================================================
