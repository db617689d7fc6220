---------------------- MODULE MCMediaKeySystemService ----------------------
(* Instances of MediaKeySystemService for TLC. *)
EXTENDS MediaKeySystemService

CONSTANTS t1, t2, t3, t4, t5, s1, s2

=============================================================================
