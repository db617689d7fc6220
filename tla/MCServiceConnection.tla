------------------------ MODULE MCServiceConnection ------------------------
(* Instances of ServiceConnection for TLC. *)
EXTENDS ServiceConnection

CONSTANTS t1, t2, r1, r2, r3, r4

=============================================================================
