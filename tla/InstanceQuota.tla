--------------------------- MODULE InstanceQuota ---------------------------
(***************************************************************************)
(* What a bounded pool of instances promises its clients: an instance is   *)
(* acquired once and freed once, it is used only in between, and no more   *)
(* than Max instances live at a time.  Destroying the owner of the pool    *)
(* frees instances one by one and lets nobody acquire one afterwards.      *)
(* KEY_SESSION_INSTANCES_MAX_NUMBER is the limit of a MediaKeySystem.      *)
(***************************************************************************)
EXTENDS Integers, FiniteSets

CONSTANTS Instance, Max

VARIABLES
  live,    \* acquired and not freed
  freed,   \* gone for good
  used,    \* live instances somebody uses right now
  shut     \* the owner is gone

quotaVars == <<live, freed, used, shut>>

Init == live = {} /\ freed = {} /\ used = {} /\ shut = FALSE

Acquire(i) ==
  /\ ~ shut
  /\ i \notin live \cup freed
  /\ Cardinality(live) < Max
  /\ live' = live \cup {i}
  /\ UNCHANGED <<freed, used, shut>>

Free(i) ==
  /\ i \in live \ used
  /\ live' = live \ {i}
  /\ freed' = freed \cup {i}
  /\ UNCHANGED <<used, shut>>

BeginUse(i) ==
  /\ i \in live \ used
  /\ used' = used \cup {i}
  /\ UNCHANGED <<live, freed, shut>>

EndUse(i) ==
  /\ used' = used \ {i}
  /\ UNCHANGED <<live, freed, shut>>

Shut == shut' = TRUE /\ UNCHANGED <<live, freed, used>>

Next ==
  \/ \E i \in Instance : Acquire(i) \/ Free(i) \/ BeginUse(i) \/ EndUse(i)
  \/ Shut

Spec == Init /\ [][Next]_quotaVars

=============================================================================
