------------------------ MODULE MCConnectionManager ------------------------
(* Instances of ConnectionManager: two targets with a mirror each, or two  *)
(* that share one (mirrorBase has the user, the host and the root, not the *)
(* port).                                                                  *)
EXTENDS ConnectionManager

OwnMirrors == [t \in Targets |-> t]
OneMirror == [t \in Targets |-> "mirror"]

=============================================================================
