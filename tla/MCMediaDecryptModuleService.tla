--------------------- MODULE MCMediaDecryptModuleService ---------------------
(* Instances of MediaDecryptModuleService for TLC. *)
EXTENDS MediaDecryptModuleService

CONSTANTS c1, c2

=============================================================================
