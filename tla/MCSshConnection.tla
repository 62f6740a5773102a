-------------------------- MODULE MCSshConnection --------------------------
(* Model values and symmetry for checking SshConnection. *)
EXTENDS SshConnection, TLC

CONSTANTS e1, e2, e3, s1, s2, f1, f2, f3, t1, t2, t3

Symmetry == Permutations(Transports)
=============================================================================
