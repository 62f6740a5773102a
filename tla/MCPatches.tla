----------------------------- MODULE MCPatches -----------------------------
(***************************************************************************)
(* Three files and patches of at most two sections: one file may be read,  *)
(* written or removed by both of them, or be left from an earlier call.    *)
(* And the native patches of small scripts.                                *)
(***************************************************************************)
EXTENDS Patches, TLC

CONSTANTS f1, f2, f3

Scripts == INSTANCE NativeInputs WITH Bare <- FALSE
NativePatches == Scripts!PatchInputs

\* No file is told from another by anything but its name.
Symmetry == Permutations(Paths)

=============================================================================
