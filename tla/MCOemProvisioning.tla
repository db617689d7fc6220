------------------------- MODULE MCOemProvisioning -------------------------
(* Instances of OemProvisioning for TLC. *)
EXTENDS OemProvisioning, TLC

CONSTANTS l1, l2, p1, p2

TwoLibs == (l1 :> p1) @@ (l2 :> p2)

=============================================================================
