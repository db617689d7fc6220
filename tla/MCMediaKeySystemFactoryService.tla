------------------- MODULE MCMediaKeySystemFactoryService -------------------
(* Instances of MediaKeySystemFactoryService for TLC. *)
EXTENDS MediaKeySystemFactoryService

CONSTANTS p1, p2, clearplay, other, s1, s2, s3

=============================================================================
