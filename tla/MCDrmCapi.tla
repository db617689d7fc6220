----------------------------- MODULE MCDrmCapi -----------------------------
(* Instances of DrmCapi for TLC. *)
EXTENDS DrmCapi

CONSTANTS s1, s2

=============================================================================
