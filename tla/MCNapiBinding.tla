--------------------------- MODULE MCNapiBinding ---------------------------
(* Instances of NapiBinding for TLC. *)
EXTENDS NapiBinding

CONSTANTS system, session, c1, c2, r1, r2

=============================================================================
