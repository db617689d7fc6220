----------------------- MODULE MCMediaKeySystemImpl -----------------------
(* Instances of MediaKeySystemImpl for TLC. *)
EXTENDS MediaKeySystemImpl

CONSTANTS c1, c2, e1, e2, e3

=============================================================================
