------------------------- MODULE RemoteUploadProofs -------------------------
(***************************************************************************)
(* Proofs about RemoteUpload, for any number of uploads.                   *)
(***************************************************************************)
EXTENDS RemoteUpload, TLAPS

\* Where the last contents are at each request: moved aside, or in place.
Whereabouts ==
    /\ target # Absent => target = current
    /\ target = current \/ \E i \in Ids : backup[i] = current
    /\ pc \in {"open", "put", "aside", "in"} => current # upload
    /\ pc \in {"aside", "in"} => temp[upload] = upload
    /\ pc = "in" /\ backedUp => backup[upload] = current /\ target = Absent
    /\ pc = "restore" /\ session => backup[upload] = current /\ target = Absent
    /\ pc \in {"drop", "done"} => target = upload

\* Contents of earlier uploads have smaller numbers.
Older == current <= upload

IndInv == TypeOK /\ Whereabouts /\ Older

USE DEF Ids, Full, Requests, Outcomes

\* The marks for an absent and a partial file are no contents.
LEMMA Distinct == Absent \notin Full /\ Partial \notin Full /\ Absent # Partial
  BY UploadsAssumption

\* What Move changes, and that it keeps the types.
LEMMA MoveFacts ==
    ASSUME TypeOK, upload \in Ids, NEW to \in Full \cup {Absent},
           NEW here \in Full \cup {Absent, Partial}, NEW there \in Full \cup {Absent},
           Move(to, here, there)
    PROVE  /\ target' = to /\ target' \in Full \cup {Absent}
           /\ temp' \in [Ids -> Full \cup {Absent, Partial}] /\ temp'[upload] = here
           /\ backup' \in [Ids -> Full \cup {Absent}] /\ backup'[upload] = there
           /\ \A i \in Ids : i # upload => backup'[i] = backup[i]
           /\ current' = (IF to \in Full THEN to ELSE current) /\ current' \in Full
  BY DEF TypeOK, Move

\* The current upload has a number of its own, and every cell a type.
LEMMA CellTypes ==
    ASSUME TypeOK, pc \in Requests
    PROVE  /\ upload \in Ids /\ upload \in Full
           /\ temp[upload] \in Full \cup {Absent, Partial}
           /\ backup[upload] \in Full \cup {Absent}
           /\ target \in Full \cup {Absent}
           /\ session \in BOOLEAN /\ backedUp \in BOOLEAN
  BY DEF TypeOK

\* The initial states satisfy the invariant.
LEMMA InitInd == ASSUME Init PROVE IndInv
<1>1. TypeOK
  <2>1. 0 \in Full /\ pc \notin Requests /\ pc \in Outcomes
    BY UploadsAssumption DEF Init
  <2> QED BY <2>1 DEF Init, TypeOK
<1>2. Whereabouts /\ Older
  BY UploadsAssumption DEF Init, Whereabouts, Older
<1> QED BY <1>1, <1>2 DEF IndInv

\* A new upload starts from the contents an earlier one left.
LEMMA BeginInd == ASSUME IndInv, Begin PROVE IndInv'
<1> USE DEF IndInv, Begin, fileVars
<1>1. upload \in Nat /\ upload + 1 \in Ids /\ upload + 1 \in Full /\ current < upload + 1
  BY UploadsAssumption DEF TypeOK, Older
<1>2. TypeOK'
  BY <1>1 DEF TypeOK
<1>3. Whereabouts'
  BY <1>1 DEF Whereabouts, TypeOK
<1>4. Older'
  BY <1>1 DEF Older, TypeOK
<1> QED BY <1>2, <1>3, <1>4

\* Opening the temporary file touches nothing else.
LEMMA OpenInd == ASSUME IndInv, Open PROVE IndInv'
<1>1. /\ pc = "open" /\ TypeOK /\ Whereabouts /\ Older
      /\ upload' = upload /\ upload \in Ids /\ upload \in Full
      /\ backedUp' \in BOOLEAN
  BY CellTypes DEF Open, IndInv, Request, TypeOK, fileVars
<1>2. CASE Move(target, Partial, backup[upload])
  <2>1. /\ target' = target /\ target' \in Full \cup {Absent}
        /\ temp' \in [Ids -> Full \cup {Absent, Partial}] /\ temp'[upload] = Partial
        /\ backup' \in [Ids -> Full \cup {Absent}] /\ backup'[upload] = backup[upload]
        /\ \A i \in Ids : i # upload => backup'[i] = backup[i]
        /\ current' = (IF target \in Full THEN target ELSE current) /\ current' \in Full
    BY <1>1, <1>2, MoveFacts, CellTypes
  <2>2. TypeOK'
    BY <1>1, <2>1 DEF Open, Request, TypeOK
  <2>3. Whereabouts'
    BY <1>1, <2>1, Distinct DEF Open, Request, TypeOK, Whereabouts, Older, fileVars
  <2>4. Older'
    BY <1>1, <2>1, UploadsAssumption DEF Older, TypeOK, Whereabouts
  <2> QED BY <2>2, <2>3, <2>4 DEF IndInv
<1>3. CASE /\ UNCHANGED <<fileVars, current>> /\ pc' = "failed"
           /\ session' \in {FALSE, session}
  <2>1. TypeOK'
    BY <1>1, <1>3 DEF TypeOK, fileVars
  <2>2. Whereabouts'
    BY <1>1, <1>3, Distinct DEF Open, TypeOK, Whereabouts, fileVars
  <2>3. Older'
    BY <1>1, <1>3 DEF Older
  <2> QED BY <2>1, <2>2, <2>3 DEF IndInv
<1> QED BY <1>1, <1>2, <1>3 DEF Open, Request

\* Neither does filling it.
LEMMA PutInd == ASSUME IndInv, Put PROVE IndInv'
<1>1. /\ pc = "put" /\ TypeOK /\ Whereabouts /\ Older
      /\ upload' = upload /\ upload \in Ids /\ upload \in Full
      /\ backedUp' \in BOOLEAN
  BY CellTypes DEF Put, IndInv, Request, TypeOK, fileVars
<1>2. CASE Move(target, upload, backup[upload])
  <2>1. /\ target' = target /\ target' \in Full \cup {Absent}
        /\ temp' \in [Ids -> Full \cup {Absent, Partial}] /\ temp'[upload] = upload
        /\ backup' \in [Ids -> Full \cup {Absent}] /\ backup'[upload] = backup[upload]
        /\ \A i \in Ids : i # upload => backup'[i] = backup[i]
        /\ current' = (IF target \in Full THEN target ELSE current) /\ current' \in Full
    BY <1>1, <1>2, MoveFacts, CellTypes
  <2>2. TypeOK'
    BY <1>1, <2>1 DEF Put, Request, TypeOK
  <2>3. Whereabouts'
    BY <1>1, <2>1, Distinct DEF Put, Request, TypeOK, Whereabouts, Older, fileVars
  <2>4. Older'
    BY <1>1, <2>1, UploadsAssumption DEF Older, TypeOK, Whereabouts
  <2> QED BY <2>2, <2>3, <2>4 DEF IndInv
<1>3. CASE /\ UNCHANGED <<fileVars, current>> /\ pc' = "failed"
           /\ session' \in {FALSE, session}
  <2>1. TypeOK'
    BY <1>1, <1>3 DEF TypeOK, fileVars
  <2>2. Whereabouts'
    BY <1>1, <1>3, Distinct DEF Put, TypeOK, Whereabouts, fileVars
  <2>3. Older'
    BY <1>1, <1>3 DEF Older
  <2> QED BY <2>1, <2>2, <2>3 DEF IndInv
<1> QED BY <1>1, <1>2, <1>3 DEF Put, Request

\* Moving the target aside keeps its contents under the backup's name.
LEMMA AsideInd == ASSUME IndInv, Aside PROVE IndInv'
<1>1. /\ pc = "aside" /\ TypeOK /\ Whereabouts /\ Older
      /\ upload' = upload /\ upload \in Ids /\ upload \in Full
      /\ backedUp' \in BOOLEAN
  BY CellTypes DEF Aside, IndInv, Request, TypeOK, fileVars
<1>2. CASE target # Absent /\ Move(Absent, temp[upload], target)
  <2>1. /\ target' = Absent /\ target' \in Full \cup {Absent}
        /\ temp' \in [Ids -> Full \cup {Absent, Partial}] /\ temp'[upload] = temp[upload]
        /\ backup' \in [Ids -> Full \cup {Absent}] /\ backup'[upload] = target
        /\ \A i \in Ids : i # upload => backup'[i] = backup[i]
        /\ current' = (IF Absent \in Full THEN Absent ELSE current) /\ current' \in Full
    BY <1>1, <1>2, MoveFacts, CellTypes
  <2>2. TypeOK'
    BY <1>1, <2>1 DEF Aside, Request, TypeOK
  <2>3. Whereabouts'
    <3>1. target = current /\ current' = current
      BY <1>1, <1>2, <2>1, Distinct DEF Whereabouts
    <3>2. backup'[upload] = current' /\ upload' \in Ids
      BY <1>1, <2>1, <3>1
    <3>3. pc' = "in" /\ current' # upload' /\ temp'[upload'] = upload'
      BY <1>1, <2>1, <3>1 DEF Aside, Request, Whereabouts
    <3>4. target' = Absent /\ \E i \in Ids : backup'[i] = current'
      BY <1>1, <2>1, <3>2
    <3> QED BY <1>1, <3>2, <3>3, <3>4 DEF Whereabouts
  <2>4. Older'
    BY <1>1, <2>1, UploadsAssumption DEF Older, TypeOK, Whereabouts
  <2> QED BY <2>2, <2>3, <2>4 DEF IndInv
<1>3. CASE /\ UNCHANGED <<fileVars, current>> /\ pc' = "in"
           /\ session' \in {FALSE, session}
  <2>1. TypeOK'
    BY <1>1, <1>3 DEF TypeOK, fileVars
  <2>2. Whereabouts'
    <3>1. ~backedUp'
      BY <1>1, <1>3 DEF Aside, fileVars
    <3>2. /\ target' = target /\ temp' = temp /\ backup' = backup /\ upload' = upload
          /\ current' = current /\ pc' = "in"
      BY <1>1, <1>3 DEF fileVars
    <3> QED BY <1>1, <3>1, <3>2 DEF Whereabouts
  <2>3. Older'
    BY <1>1, <1>3 DEF Older
  <2> QED BY <2>1, <2>2, <2>3 DEF IndInv
<1> QED BY <1>1, <1>2, <1>3 DEF Aside, Request

\* The move in replaces the contents, or leaves them where they are.
LEMMA InInd == ASSUME IndInv, In PROVE IndInv'
<1>1. /\ pc = "in" /\ TypeOK /\ Whereabouts /\ Older
      /\ upload' = upload /\ upload \in Ids /\ upload \in Full
      /\ backedUp' \in BOOLEAN
  BY CellTypes DEF In, IndInv, Request, TypeOK, fileVars
<1>2. CASE Move(upload, Absent, backup[upload])
  <2>1. /\ target' = upload /\ target' \in Full \cup {Absent}
        /\ temp' \in [Ids -> Full \cup {Absent, Partial}] /\ temp'[upload] = Absent
        /\ backup' \in [Ids -> Full \cup {Absent}] /\ backup'[upload] = backup[upload]
        /\ \A i \in Ids : i # upload => backup'[i] = backup[i]
        /\ current' = (IF upload \in Full THEN upload ELSE current) /\ current' \in Full
    BY <1>1, <1>2, MoveFacts, CellTypes
  <2>2. TypeOK'
    BY <1>1, <2>1 DEF In, Request, TypeOK
  <2>3. Whereabouts'
    BY <1>1, <2>1, Distinct DEF In, Request, TypeOK, Whereabouts, Older, fileVars
  <2>4. Older'
    BY <1>1, <2>1, UploadsAssumption DEF Older, TypeOK, Whereabouts
  <2> QED BY <2>2, <2>3, <2>4 DEF IndInv
<1>3. CASE /\ UNCHANGED <<fileVars, current>> /\ pc' = (IF backedUp THEN "restore" ELSE "clean")
           /\ session' \in {FALSE, session}
  <2>1. TypeOK'
    BY <1>1, <1>3 DEF TypeOK, fileVars
  <2>2. Whereabouts'
    BY <1>1, <1>3, Distinct DEF In, TypeOK, Whereabouts, fileVars
  <2>3. Older'
    BY <1>1, <1>3 DEF Older
  <2> QED BY <2>1, <2>2, <2>3 DEF IndInv
<1> QED BY <1>1, <1>2, <1>3 DEF In, Request

\* Restoring only acts while the session lives, so on an absent target.
LEMMA RestoreInd == ASSUME IndInv, Restore PROVE IndInv'
<1>1. /\ pc = "restore" /\ TypeOK /\ Whereabouts /\ Older
      /\ upload' = upload /\ upload \in Ids /\ upload \in Full
      /\ backedUp' \in BOOLEAN
  BY CellTypes DEF Restore, IndInv, Request, TypeOK, fileVars
<1>2. CASE session /\ Move(backup[upload], temp[upload], Absent)
  <2>1. /\ target' = backup[upload] /\ target' \in Full \cup {Absent}
        /\ temp' \in [Ids -> Full \cup {Absent, Partial}] /\ temp'[upload] = temp[upload]
        /\ backup' \in [Ids -> Full \cup {Absent}] /\ backup'[upload] = Absent
        /\ \A i \in Ids : i # upload => backup'[i] = backup[i]
        /\ current' = (IF backup[upload] \in Full THEN backup[upload] ELSE current) /\ current' \in Full
    BY <1>1, <1>2, MoveFacts, CellTypes
  <2>2. TypeOK'
    BY <1>1, <2>1 DEF Restore, Request, TypeOK
  <2>3. target' = current /\ current' = current
    BY <1>1, <1>2, <2>1 DEF Whereabouts, TypeOK
  <2>4. Whereabouts'
    BY <1>1, <2>1, <2>3, Distinct DEF Restore, Request, TypeOK, Whereabouts
  <2>5. Older'
    BY <1>1, <2>3 DEF Older
  <2> QED BY <2>2, <2>4, <2>5 DEF IndInv
<1>3. CASE /\ UNCHANGED <<fileVars, current>> /\ pc' = "stranded"
           /\ session' \in {FALSE, session}
  <2>1. TypeOK'
    BY <1>1, <1>3 DEF TypeOK, fileVars
  <2>2. Whereabouts'
    BY <1>1, <1>3, Distinct DEF Restore, TypeOK, Whereabouts, fileVars
  <2>3. Older'
    BY <1>1, <1>3 DEF Older
  <2> QED BY <2>1, <2>2, <2>3 DEF IndInv
<1> QED BY <1>1, <1>2, <1>3 DEF Restore, Request

\* The temporary file is not the last copy.
LEMMA CleanInd == ASSUME IndInv, Clean PROVE IndInv'
<1>1. /\ pc = "clean" /\ TypeOK /\ Whereabouts /\ Older
      /\ upload' = upload /\ upload \in Ids /\ upload \in Full
      /\ backedUp' \in BOOLEAN
  BY CellTypes DEF Clean, IndInv, Request, TypeOK, fileVars
<1>2. CASE Move(target, Absent, backup[upload])
  <2>1. /\ target' = target /\ target' \in Full \cup {Absent}
        /\ temp' \in [Ids -> Full \cup {Absent, Partial}] /\ temp'[upload] = Absent
        /\ backup' \in [Ids -> Full \cup {Absent}] /\ backup'[upload] = backup[upload]
        /\ \A i \in Ids : i # upload => backup'[i] = backup[i]
        /\ current' = (IF target \in Full THEN target ELSE current) /\ current' \in Full
    BY <1>1, <1>2, MoveFacts, CellTypes
  <2>2. TypeOK'
    BY <1>1, <2>1 DEF Clean, Request, TypeOK
  <2>3. Whereabouts'
    BY <1>1, <2>1, Distinct DEF Clean, Request, TypeOK, Whereabouts, Older, fileVars
  <2>4. Older'
    BY <1>1, <2>1, UploadsAssumption DEF Older, TypeOK, Whereabouts
  <2> QED BY <2>2, <2>3, <2>4 DEF IndInv
<1>3. CASE /\ UNCHANGED <<fileVars, current>> /\ pc' = "failed"
           /\ session' \in {FALSE, session}
  <2>1. TypeOK'
    BY <1>1, <1>3 DEF TypeOK, fileVars
  <2>2. Whereabouts'
    BY <1>1, <1>3, Distinct DEF Clean, TypeOK, Whereabouts, fileVars
  <2>3. Older'
    BY <1>1, <1>3 DEF Older
  <2> QED BY <2>1, <2>2, <2>3 DEF IndInv
<1> QED BY <1>1, <1>2, <1>3 DEF Clean, Request

\* The backup is dropped once the target holds the new contents.
LEMMA DropInd == ASSUME IndInv, Drop PROVE IndInv'
<1>1. /\ pc = "drop" /\ TypeOK /\ Whereabouts /\ Older
      /\ upload' = upload /\ upload \in Ids /\ upload \in Full
      /\ backedUp' \in BOOLEAN
  BY CellTypes DEF Drop, IndInv, Request, TypeOK, fileVars
<1>2. CASE Move(target, temp[upload], Absent)
  <2>1. /\ target' = target /\ target' \in Full \cup {Absent}
        /\ temp' \in [Ids -> Full \cup {Absent, Partial}] /\ temp'[upload] = temp[upload]
        /\ backup' \in [Ids -> Full \cup {Absent}] /\ backup'[upload] = Absent
        /\ \A i \in Ids : i # upload => backup'[i] = backup[i]
        /\ current' = (IF target \in Full THEN target ELSE current) /\ current' \in Full
    BY <1>1, <1>2, MoveFacts, CellTypes
  <2>2. TypeOK'
    BY <1>1, <2>1 DEF Drop, Request, TypeOK
  <2>3. Whereabouts'
    BY <1>1, <2>1, Distinct DEF Drop, Request, TypeOK, Whereabouts, Older, fileVars
  <2>4. Older'
    BY <1>1, <2>1, UploadsAssumption DEF Older, TypeOK, Whereabouts
  <2> QED BY <2>2, <2>3, <2>4 DEF IndInv
<1>3. CASE /\ UNCHANGED <<fileVars, current>> /\ pc' = "done"
           /\ session' \in {FALSE, session}
  <2>1. TypeOK'
    BY <1>1, <1>3 DEF TypeOK, fileVars
  <2>2. Whereabouts'
    BY <1>1, <1>3, Distinct DEF Drop, TypeOK, Whereabouts, fileVars
  <2>3. Older'
    BY <1>1, <1>3 DEF Older
  <2> QED BY <2>1, <2>2, <2>3 DEF IndInv
<1> QED BY <1>1, <1>2, <1>3 DEF Drop, Request

\* The invariant is inductive.
LEMMA Inductive == Spec => []IndInv
<1>1. ASSUME IndInv, [Next]_vars PROVE IndInv'
  <2>1. CASE Crash
    BY <1>1, <2>1 DEF Crash, fileVars, IndInv, TypeOK, Whereabouts, Older
  <2>2. CASE UNCHANGED vars
    BY <1>1, <2>2 DEF vars, fileVars, IndInv, TypeOK, Whereabouts, Older
  <2> QED BY <1>1, <2>1, <2>2, BeginInd, OpenInd, PutInd, AsideInd, InInd, RestoreInd,
          CleanInd, DropInd
          DEF Next, Terminating
<1> QED BY <1>1, InitInd, PTL DEF Spec

\* The file's own name never holds partial contents, and the rest of the types.
THEOREM UploadTypeCorrect == Spec => []TypeOK
<1>1. IndInv => TypeOK
  BY DEF IndInv
<1> QED BY <1>1, Inductive, PTL

\* The last full contents always exist under some name, through any refused
\* request, dead session and crash.
THEOREM ContentsSurvive == Spec => []CurrentSurvives
<1>1. IndInv => CurrentSurvives
  BY DEF IndInv, Whereabouts, CurrentSurvives
<1> QED BY <1>1, Inductive, PTL

\* A reported success means the file has the uploaded contents.
THEOREM SuccessReplaces == Spec => []SuccessMeansReplaced
<1>1. IndInv => SuccessMeansReplaced
  BY DEF IndInv, Whereabouts, SuccessMeansReplaced
<1> QED BY <1>1, Inductive, PTL

\* A request that leaves the contents alone goes on, fails, or succeeds rightly.
LEMMA NoReplacement ==
    ASSUME pc \in Requests, upload' = upload, current' = current,
           pc' = "done" => current = upload
    PROVE  [Replacement!Next]_(Replacement!replaceVars)
<1>1. CASE pc' \in Requests
  BY <1>1 DEF Replacement!replaceVars
<1>2. CASE pc' = "done"
  BY <1>2 DEF Replacement!Next, Replacement!Succeed
<1>3. CASE pc' \notin Requests /\ pc' # "done"
  BY <1>3 DEF Replacement!Next, Replacement!GiveUp
<1> QED BY <1>1, <1>2, <1>3

\* sftpFastPut implements the atomic replacement.
THEOREM ImplementsReplace == Spec => ReplacesAtomically
<1>1. Init => Replacement!Init
  BY DEF Init, Replacement!Init
<1>2. ASSUME IndInv, [Next]_vars PROVE [Replacement!Next]_(Replacement!replaceVars)
  <2>1. TypeOK /\ Whereabouts
    BY <1>2 DEF IndInv
  <2>2. CASE Begin
    BY <2>2 DEF Begin, fileVars, Replacement!Next, Replacement!Begin
  <2>3. CASE Open \/ Put \/ Clean
    <3>1. /\ pc \in Requests /\ upload' = upload /\ pc' # "done"
          /\ \/ current' = current
             \/ current' = IF target \in Full THEN target ELSE current
      BY <2>3 DEF Open, Put, Clean, Request, Move
    <3>2. current' = current
      BY <3>1, <2>1, Distinct DEF Whereabouts
    <3> QED BY <3>1, <3>2, NoReplacement
  <2>4. CASE Aside
    <3>1. pc \in Requests /\ upload' = upload /\ current' = current /\ pc' # "done"
      BY <2>4, Distinct DEF Aside, Request, Move
    <3> QED BY <3>1, NoReplacement
  <2>5. CASE In
    <3>1. pc = "in" /\ upload' = upload /\ upload \in Full /\ current # upload
      BY <2>1, <2>5 DEF In, TypeOK, Whereabouts
    <3>2. CASE current' = upload /\ pc' \in Requests \cup {"done"}
      BY <3>1, <3>2 DEF Replacement!Next, Replacement!Replace
    <3>3. CASE current' = current /\ pc' \in Requests
      BY <3>1, <3>3, NoReplacement
    <3> QED BY <2>5, <3>1, <3>2, <3>3 DEF In, Request, Move
  <2>6. CASE Restore
    <3>1. pc = "restore" /\ upload' = upload /\ pc' # "done"
      BY <2>6 DEF Restore, Request
    <3>2. \/ current' = current
          \/ session /\ current' = IF backup[upload] \in Full THEN backup[upload] ELSE current
      BY <2>6 DEF Restore, Request, Move
    <3>3. current' = current
      BY <2>1, <3>1, <3>2 DEF Whereabouts
    <3> QED BY <3>1, <3>3, NoReplacement
  <2>7. CASE Drop
    <3>1. /\ pc = "drop" /\ upload' = upload
          /\ \/ current' = current
             \/ current' = IF target \in Full THEN target ELSE current
      BY <2>7 DEF Drop, Request, Move
    <3>2. target = upload /\ target = current
      BY <2>1, <3>1, Distinct DEF Whereabouts, TypeOK
    <3> QED BY <3>1, <3>2, NoReplacement
  <2>8. CASE Crash
    <3>1. pc \in Requests /\ upload' = upload /\ current' = current /\ pc' # "done"
      BY <2>8 DEF Crash
    <3> QED BY <3>1, NoReplacement
  <2>9. CASE UNCHANGED vars
    BY <2>9 DEF vars, Replacement!replaceVars
  <2> QED BY <1>2, <2>2, <2>3, <2>4, <2>5, <2>6, <2>7, <2>8, <2>9 DEF Next, Terminating
<1> QED BY <1>1, <1>2, Inductive, PTL DEF Spec, ReplacesAtomically, Replacement!Spec

=============================================================================
