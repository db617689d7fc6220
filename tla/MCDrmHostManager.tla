-------------------------- MODULE MCDrmHostManager --------------------------
(* Instances of DrmHostManager for TLC. *)
EXTENDS DrmHostManager

CONSTANTS s1, s2, s3

=============================================================================
