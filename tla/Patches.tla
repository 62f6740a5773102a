------------------------------ MODULE Patches ------------------------------
(***************************************************************************)
(* remote_patch, side by side: a behaviour is one of calls on files or of  *)
(* one native section that is applied to a text, and the variables of the  *)
(* other stay as they are.                                                 *)
(***************************************************************************)
EXTENDS PatchFiles

CONSTANTS Words, Inputs   \* of NativePatch

VARIABLES
    subject,                                                            \* files or native
    input, nativePc, linesRead, chunks, sought, lineIndex, replacements, left, result   \* of NativePatch

nativeVars == <<input, nativePc, linesRead, chunks, sought, lineIndex, replacements, left, result>>

Native == INSTANCE NativePatch WITH pc <- nativePc, i <- linesRead

ASSUME InputsAssumption ==
    \A x \in Inputs : x.text \in Seq(Native!Lines) /\ x.section \in Seq(Native!SectionLines)

\* No file ends with an empty line: inserting before it is another matter (README).
NoBlankEnd == \A x \in Inputs : x.text # <<>> => x.text[Len(x.text)] # Native!Blank

\* The variables of the section have no value in a behaviour of calls.
NativeAsleep ==
    /\ input = None /\ nativePc = None /\ linesRead = None /\ chunks = None /\ sought = None
    /\ lineIndex = None /\ replacements = None /\ left = None /\ result = None

InitEither == \/ subject = "files" /\ Init /\ NativeAsleep
              \/ subject = "native" /\ Native!Init /\ Init /\ remote = [f \in Paths |-> None]

NextEither == /\ \/ subject = "files" /\ Next /\ UNCHANGED nativeVars
                 \/ subject = "native" /\ Native!Next /\ UNCHANGED vars
              /\ UNCHANGED subject

SpecEither == InitEither /\ [][NextEither]_<<subject, vars, nativeVars>>

\* A native patch gives the file it was made for.
NativeYieldsNew == subject = "native" => Native!YieldsNew

\* Its replacements lie in the file one behind the other, and each is made in place.
SplicedInPlace == subject = "native" => Native!SplicedInPlace

=============================================================================
