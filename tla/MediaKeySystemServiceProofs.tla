------------------- MODULE MediaKeySystemServiceProofs -------------------
(***************************************************************************)
(* Theorems about MediaKeySystemService, for any sets of calls and         *)
(* sessions and any maximum, and, in the second part, about                *)
(* MediaDecryptModuleService, the module that a session decrypts with, for *)
(* any callers, durations and limits.                                      *)
(*                                                                         *)
(* The maximum is checked against the counter, and the HDI sessions are    *)
(* what must not exceed it.  The two part while the system is closed: a    *)
(* closed session is never counted off unless its client releases it too.  *)
(* What the counter never falls below are the sessions that are Charged:   *)
(* handed out, and either there or on the way of a Release to EraseSession.*)
(*                                                                         *)
(* The statistics of the decryption module are kept next to the history    *)
(* they are about (StatisticsKept).  That a sum over history grows with it *)
(* takes induction over its length, here by the least number principle.    *)
(***************************************************************************)
EXTENDS MediaKeySystemService, MediaDecryptModuleService,
        FiniteSetTheorems, SequenceTheorems, WellFoundedInduction, TLAPS

Working == {"hdiCreate", "insert", "destroySession", "erase", "systemOp"}
Leaving == {"close", "destroySession", "erase"}
Creating == {"hdiCreate", "insert"}
Cutting == {"destroySession", "erase", "closeOne"}

LockOwners ==
  \A t \in Thread :
    /\ mutex_ = t <=> pc[t] \in Working
    /\ \A s \in Session : sessionMutex_[s] = t <=> (pc[t] = "sessionOp" /\ arg[t] = s)

Creation ==
  /\ IsFiniteSet(created)
  /\ sessionsSet_ \subseteq given
  /\ \A s \in created : s \in given \/ \E t \in Thread : Inserts(t, s)
  /\ \A t \in Thread :
       /\ pc[t] \in Creating => currentKeySessionNumber < MaxSessions
       /\ pc[t] = "insert" => arg[t] \in created \ given

Departure ==
  /\ sessionOperatorsCallback_ \subseteq hdiMediaKeySession_
  /\ \A t \in Thread :
       /\ pc[t] \in Leaving => arg[t] \in releasedByClient
       /\ pc[t] \in Cutting => arg[t] \in created \ sessionOperatorsCallback_
       /\ pc[t] = "erase" => arg[t] \notin hdiMediaKeySession_
  /\ \A t, u \in Thread :
       (pc[t] \in Leaving /\ pc[u] \in Leaving /\ arg[t] = arg[u]) => t = u

Charged ==
  {s \in given : s \in hdiMediaKeySession_
                 \/ \E t \in Thread : pc[t] \in Leaving /\ arg[t] = s}

ChargesCounted == Cardinality(Charged) <= currentKeySessionNumber

OpenExact ==
  ~ closing =>
    /\ currentKeySessionNumber = Cardinality(sessionsSet_)
    /\ given \ releasedByClient \subseteq sessionsSet_
    /\ \A t \in Thread :
         /\ pc[t] \in Leaving => arg[t] \in sessionsSet_
         /\ pc[t] \notin {"closeAll", "closeOne", "destroySystem"}

IInv ==
  /\ TypeOK /\ LockOwners /\ UsedIsThere /\ Creation /\ Departure
  /\ ChargesCounted /\ OpenExact /\ NothingLost

-----------------------------------------------------------------------------
(* The initial state. *)

(* The initial states satisfy it. *)
LEMMA InitInv == Init => IInv
<1> SUFFICES ASSUME Init PROVE IInv
  OBVIOUS
<1> USE SessionAssumption DEF Init
<1>1. TypeOK
  <2>1. /\ 0 \in 0..MaxSessions
        /\ pc \in [Thread -> {"idle"}]
        /\ arg \in [Thread -> Session \cup {None}]
        /\ todo \in [Thread -> SUBSET Session]
        /\ sessionMutex_ \in [Session -> Thread \cup {None}]
    OBVIOUS
  <2> QED BY <2>1 DEF TypeOK
<1>2. LockOwners /\ UsedIsThere
  BY DEF LockOwners, Working, UsedIsThere
<1>3. Creation
  BY FS_EmptySet DEF Creation, Creating
<1>4. Departure /\ NothingLost
  BY DEF Departure, Leaving, Cutting, NothingLost
<1>5. Charged = {}
  BY DEF Charged
<1>6. ChargesCounted /\ OpenExact
  BY <1>5, FS_EmptySet DEF ChargesCounted, OpenExact, Leaving
<1> QED BY <1>1, <1>2, <1>3, <1>4, <1>6 DEF IInv

-----------------------------------------------------------------------------
(* The steps, one conjunct at a time. *)

(* Types.  The counter stays below the maximum for whoever creates.          *)
LEMMA TypeStep ==
  ASSUME TypeOK, Creation,
         NEW t \in Thread, Start(t) \/ Continue(t)
  PROVE  TypeOK'
<1> USE SessionAssumption DEF Goto, TypeOK, sessions, locks, Creation, Creating,
               OneSessionLess
<1>1. CASE \/ CreateBegin(t) \/ CreateRefused(t)
           \/ HdiCreateFails(t) \/ HdiCreateNoMemory(t)
  BY <1>1 DEF CreateBegin, CreateRefused, HdiCreateFails,
              HdiCreateNoMemory, FreshSessions
<1>2. CASE SystemOpBegin(t) \/ SystemOpRefused(t) \/ SystemOpEnd(t)
  BY <1>2 DEF SystemOpBegin, SystemOpRefused, SystemOpEnd
<1>3. ASSUME NEW s \in Session, HdiCreate(t, s) PROVE TypeOK'
  BY <1>3 DEF HdiCreate, FreshSessions
<1>4. CASE CreateEnd(t)
  BY <1>4 DEF CreateEnd
<1>5. ASSUME NEW s \in Session, Release(t, s) PROVE TypeOK'
  BY <1>5 DEF Release
<1>6. CASE CloseMediaKeySessionService(t)
  BY <1>6 DEF CloseMediaKeySessionService
<1>7. CASE DestroySession(t)
  BY <1>7 DEF DestroySession
<1>8. CASE EraseSession(t)
  BY <1>8 DEF EraseSession
<1>9. ASSUME NEW s \in Session, SessionOpBegin(t, s) \/ SessionOpRefused(t, s) PROVE TypeOK'
  BY <1>9 DEF SessionOpBegin, SessionOpRefused
<1>10. CASE SessionOpEnd(t)
  BY <1>10 DEF SessionOpEnd
<1>11. CASE DumpBegin(t) \/ DumpEnd(t)
  BY <1>11 DEF DumpBegin, DumpEnd
<1>12. ASSUME NEW s \in Session, DumpSession(t, s) PROVE TypeOK'
  BY <1>12 DEF DumpSession
<1>13. CASE CloseBegin(t) \/ CloseUnlock(t)
  BY <1>13 DEF CloseBegin, CloseUnlock
<1>14. ASSUME NEW s \in Session, CloseNext(t, s) PROVE TypeOK'
  BY <1>14 DEF CloseNext
<1>15. CASE CloseOne(t)
  BY <1>15 DEF CloseOne
<1>16. CASE DestroySystem(t)
  BY <1>16 DEF DestroySystem
<1> QED
  BY <1>1, <1>2, <1>3, <1>4, <1>5, <1>6, <1>7, <1>8, <1>9,
     <1>10, <1>11, <1>12, <1>13, <1>14, <1>15, <1>16
  DEF Start, Continue

(* Locks are owned where the code stands.                                   *)
LEMMA LockStep ==
  ASSUME TypeOK, LockOwners,
         NEW t \in Thread, Start(t) \/ Continue(t)
  PROVE  LockOwners'
<1> USE SessionAssumption DEF Goto, TypeOK, sessions, locks, LockOwners, Working,
               SessionUnlocked
<1>1. CASE \/ CreateBegin(t) \/ CreateRefused(t)
           \/ HdiCreateFails(t) \/ HdiCreateNoMemory(t)
  BY <1>1 DEF CreateBegin, CreateRefused, HdiCreateFails,
              HdiCreateNoMemory, FreshSessions
<1>2. CASE SystemOpBegin(t) \/ SystemOpRefused(t) \/ SystemOpEnd(t)
  BY <1>2 DEF SystemOpBegin, SystemOpRefused, SystemOpEnd
<1>3. ASSUME NEW s \in Session, HdiCreate(t, s) PROVE LockOwners'
  BY <1>3 DEF HdiCreate, FreshSessions
<1>4. CASE CreateEnd(t)
  BY <1>4 DEF CreateEnd
<1>5. ASSUME NEW s \in Session, Release(t, s) PROVE LockOwners'
  BY <1>5 DEF Release
<1>6. CASE CloseMediaKeySessionService(t)
  BY <1>6 DEF CloseMediaKeySessionService
<1>7. CASE DestroySession(t)
  BY <1>7 DEF DestroySession
<1>8. CASE EraseSession(t)
  BY <1>8 DEF EraseSession
<1>9. ASSUME NEW s \in Session, SessionOpBegin(t, s) \/ SessionOpRefused(t, s) PROVE LockOwners'
  BY <1>9 DEF SessionOpBegin, SessionOpRefused
<1>10. CASE SessionOpEnd(t)
  BY <1>10 DEF SessionOpEnd
<1>11. CASE DumpBegin(t) \/ DumpEnd(t)
  BY <1>11 DEF DumpBegin, DumpEnd
<1>12. ASSUME NEW s \in Session, DumpSession(t, s) PROVE LockOwners'
  BY <1>12 DEF DumpSession
<1>13. CASE CloseBegin(t) \/ CloseUnlock(t)
  BY <1>13 DEF CloseBegin, CloseUnlock
<1>14. ASSUME NEW s \in Session, CloseNext(t, s) PROVE LockOwners'
  BY <1>14 DEF CloseNext
<1>15. CASE CloseOne(t)
  BY <1>15 DEF CloseOne
<1>16. CASE DestroySystem(t)
  BY <1>16 DEF DestroySystem
<1> QED
  BY <1>1, <1>2, <1>3, <1>4, <1>5, <1>6, <1>7, <1>8, <1>9,
     <1>10, <1>11, <1>12, <1>13, <1>14, <1>15, <1>16
  DEF Start, Continue

(* Who destroys an HDI object owns the lock of its users.                   *)
LEMMA UseStep ==
  ASSUME TypeOK, LockOwners, UsedIsThere,
         NEW t \in Thread, Start(t) \/ Continue(t)
  PROVE  UsedIsThere'
<1> USE SessionAssumption DEF Goto, TypeOK, sessions, locks, LockOwners, Working,
               UsedIsThere, SessionUnlocked
<1>1. CASE \/ CreateBegin(t) \/ CreateRefused(t)
           \/ HdiCreateFails(t) \/ HdiCreateNoMemory(t)
  BY <1>1 DEF CreateBegin, CreateRefused, HdiCreateFails,
              HdiCreateNoMemory, FreshSessions
<1>2. CASE SystemOpBegin(t) \/ SystemOpRefused(t) \/ SystemOpEnd(t)
  BY <1>2 DEF SystemOpBegin, SystemOpRefused, SystemOpEnd
<1>3. ASSUME NEW s \in Session, HdiCreate(t, s) PROVE UsedIsThere'
  BY <1>3 DEF HdiCreate, FreshSessions
<1>4. CASE CreateEnd(t)
  BY <1>4 DEF CreateEnd
<1>5. ASSUME NEW s \in Session, Release(t, s) PROVE UsedIsThere'
  BY <1>5 DEF Release
<1>6. CASE CloseMediaKeySessionService(t)
  BY <1>6 DEF CloseMediaKeySessionService
<1>7. CASE DestroySession(t)
  BY <1>7 DEF DestroySession
<1>8. CASE EraseSession(t)
  BY <1>8 DEF EraseSession
<1>9. ASSUME NEW s \in Session, SessionOpBegin(t, s) \/ SessionOpRefused(t, s) PROVE UsedIsThere'
  BY <1>9 DEF SessionOpBegin, SessionOpRefused
<1>10. CASE SessionOpEnd(t)
  BY <1>10 DEF SessionOpEnd
<1>11. CASE DumpBegin(t) \/ DumpEnd(t)
  BY <1>11 DEF DumpBegin, DumpEnd
<1>12. ASSUME NEW s \in Session, DumpSession(t, s) PROVE UsedIsThere'
  BY <1>12 DEF DumpSession
<1>13. CASE CloseBegin(t) \/ CloseUnlock(t)
  BY <1>13 DEF CloseBegin, CloseUnlock
<1>14. ASSUME NEW s \in Session, CloseNext(t, s) PROVE UsedIsThere'
  BY <1>14 DEF CloseNext
<1>15. CASE CloseOne(t)
  BY <1>15 DEF CloseOne
<1>16. CASE DestroySystem(t)
  BY <1>16 DEF DestroySystem
<1> QED
  BY <1>1, <1>2, <1>3, <1>4, <1>5, <1>6, <1>7, <1>8, <1>9,
     <1>10, <1>11, <1>12, <1>13, <1>14, <1>15, <1>16
  DEF Start, Continue

(* One create at a time, and room for its session.                          *)
LEMMA CreationStep ==
  ASSUME TypeOK, LockOwners, Creation,
         NEW t \in Thread, Start(t) \/ Continue(t)
  PROVE  Creation'
<1> USE SessionAssumption DEF Goto, TypeOK, sessions, locks, Creation, Creating,
               Inserts
<1>1. CASE \/ CreateBegin(t) \/ CreateRefused(t)
           \/ HdiCreateFails(t) \/ HdiCreateNoMemory(t)
  BY <1>1 DEF CreateBegin, CreateRefused, HdiCreateFails,
              HdiCreateNoMemory, FreshSessions, RoomForSession
<1>2. CASE SystemOpBegin(t) \/ SystemOpRefused(t) \/ SystemOpEnd(t)
  BY <1>2 DEF SystemOpBegin, SystemOpRefused, SystemOpEnd
<1>3. ASSUME NEW s \in Session, HdiCreate(t, s) PROVE Creation'
  BY <1>3, FS_AddElement DEF HdiCreate, FreshSessions, LockOwners, Working
<1>4. CASE CreateEnd(t)
  BY <1>4 DEF CreateEnd, LockOwners, Working
<1>5. ASSUME NEW s \in Session, Release(t, s) PROVE Creation'
  BY <1>5 DEF Release
<1>6. CASE CloseMediaKeySessionService(t)
  BY <1>6 DEF CloseMediaKeySessionService
<1>7. CASE DestroySession(t)
  BY <1>7 DEF DestroySession
<1>8. CASE EraseSession(t)
  BY <1>8 DEF EraseSession, OneSessionLess, LockOwners, Working
<1>9. ASSUME NEW s \in Session, SessionOpBegin(t, s) \/ SessionOpRefused(t, s) PROVE Creation'
  BY <1>9 DEF SessionOpBegin, SessionOpRefused
<1>10. CASE SessionOpEnd(t)
  BY <1>10 DEF SessionOpEnd
<1>11. CASE DumpBegin(t) \/ DumpEnd(t)
  BY <1>11 DEF DumpBegin, DumpEnd
<1>12. ASSUME NEW s \in Session, DumpSession(t, s) PROVE Creation'
  BY <1>12 DEF DumpSession
<1>13. CASE CloseBegin(t) \/ CloseUnlock(t)
  BY <1>13 DEF CloseBegin, CloseUnlock
<1>14. ASSUME NEW s \in Session, CloseNext(t, s) PROVE Creation'
  BY <1>14 DEF CloseNext
<1>15. CASE CloseOne(t)
  BY <1>15 DEF CloseOne
<1>16. CASE DestroySystem(t)
  BY <1>16 DEF DestroySystem
<1> QED
  BY <1>1, <1>2, <1>3, <1>4, <1>5, <1>6, <1>7, <1>8, <1>9,
     <1>10, <1>11, <1>12, <1>13, <1>14, <1>15, <1>16
  DEF Start, Continue

(* A session is released once, and cut off before it is destroyed.          *)
LEMMA DepartureStep ==
  ASSUME TypeOK, Creation, Departure,
         NEW t \in Thread, Start(t) \/ Continue(t)
  PROVE  Departure'
<1> USE SessionAssumption DEF Goto, TypeOK, sessions, locks, Departure, Leaving,
               Cutting, Creation
<1>1. CASE \/ CreateBegin(t) \/ CreateRefused(t)
           \/ HdiCreateFails(t) \/ HdiCreateNoMemory(t)
  BY <1>1 DEF CreateBegin, CreateRefused, HdiCreateFails,
              HdiCreateNoMemory, FreshSessions
<1>2. CASE SystemOpBegin(t) \/ SystemOpRefused(t) \/ SystemOpEnd(t)
  BY <1>2 DEF SystemOpBegin, SystemOpRefused, SystemOpEnd
<1>3. ASSUME NEW s \in Session, HdiCreate(t, s) PROVE Departure'
  BY <1>3 DEF HdiCreate, FreshSessions
<1>4. CASE CreateEnd(t)
  BY <1>4 DEF CreateEnd
<1>5. ASSUME NEW s \in Session, Release(t, s) PROVE Departure'
  BY <1>5 DEF Release
<1>6. CASE CloseMediaKeySessionService(t)
  BY <1>6 DEF CloseMediaKeySessionService
<1>7. CASE DestroySession(t)
  BY <1>7 DEF DestroySession
<1>8. CASE EraseSession(t)
  BY <1>8 DEF EraseSession
<1>9. ASSUME NEW s \in Session, SessionOpBegin(t, s) \/ SessionOpRefused(t, s) PROVE Departure'
  BY <1>9 DEF SessionOpBegin, SessionOpRefused
<1>10. CASE SessionOpEnd(t)
  BY <1>10 DEF SessionOpEnd
<1>11. CASE DumpBegin(t) \/ DumpEnd(t)
  BY <1>11 DEF DumpBegin, DumpEnd
<1>12. ASSUME NEW s \in Session, DumpSession(t, s) PROVE Departure'
  BY <1>12 DEF DumpSession
<1>13. CASE CloseBegin(t) \/ CloseUnlock(t)
  BY <1>13 DEF CloseBegin, CloseUnlock
<1>14. ASSUME NEW s \in Session, CloseNext(t, s) PROVE Departure'
  BY <1>14 DEF CloseNext
<1>15. CASE CloseOne(t)
  BY <1>15 DEF CloseOne
<1>16. CASE DestroySystem(t)
  BY <1>16 DEF DestroySystem
<1> QED
  BY <1>1, <1>2, <1>3, <1>4, <1>5, <1>6, <1>7, <1>8, <1>9,
     <1>10, <1>11, <1>12, <1>13, <1>14, <1>15, <1>16
  DEF Start, Continue

(* Somebody closes a session that cannot reach its system any more.         *)
LEMMA LossStep ==
  ASSUME TypeOK, Departure, NothingLost,
         NEW t \in Thread, Start(t) \/ Continue(t)
  PROVE  NothingLost'
<1> USE SessionAssumption DEF Goto, TypeOK, sessions, locks, Departure, Leaving,
               Cutting, NothingLost, Inserts, Closes
<1>1. CASE \/ CreateBegin(t) \/ CreateRefused(t)
           \/ HdiCreateFails(t) \/ HdiCreateNoMemory(t)
  BY <1>1 DEF CreateBegin, CreateRefused, HdiCreateFails,
              HdiCreateNoMemory, FreshSessions
<1>2. CASE SystemOpBegin(t) \/ SystemOpRefused(t) \/ SystemOpEnd(t)
  BY <1>2 DEF SystemOpBegin, SystemOpRefused, SystemOpEnd
<1>3. ASSUME NEW s \in Session, HdiCreate(t, s) PROVE NothingLost'
  BY <1>3 DEF HdiCreate, FreshSessions
<1>4. CASE CreateEnd(t)
  BY <1>4 DEF CreateEnd
<1>5. ASSUME NEW s \in Session, Release(t, s) PROVE NothingLost'
  BY <1>5 DEF Release
<1>6. CASE CloseMediaKeySessionService(t)
  BY <1>6 DEF CloseMediaKeySessionService
<1>7. CASE DestroySession(t)
  BY <1>7 DEF DestroySession
<1>8. CASE EraseSession(t)
  BY <1>8 DEF EraseSession
<1>9. ASSUME NEW s \in Session, SessionOpBegin(t, s) \/ SessionOpRefused(t, s) PROVE NothingLost'
  BY <1>9 DEF SessionOpBegin, SessionOpRefused
<1>10. CASE SessionOpEnd(t)
  BY <1>10 DEF SessionOpEnd
<1>11. CASE DumpBegin(t) \/ DumpEnd(t)
  BY <1>11 DEF DumpBegin, DumpEnd
<1>12. ASSUME NEW s \in Session, DumpSession(t, s) PROVE NothingLost'
  BY <1>12 DEF DumpSession
<1>13. CASE CloseBegin(t) \/ CloseUnlock(t)
  BY <1>13 DEF CloseBegin, CloseUnlock
<1>14. ASSUME NEW s \in Session, CloseNext(t, s) PROVE NothingLost'
  BY <1>14 DEF CloseNext
<1>15. CASE CloseOne(t)
  BY <1>15 DEF CloseOne
<1>16. CASE DestroySystem(t)
  BY <1>16 DEF DestroySystem
<1> QED
  BY <1>1, <1>2, <1>3, <1>4, <1>5, <1>6, <1>7, <1>8, <1>9,
     <1>10, <1>11, <1>12, <1>13, <1>14, <1>15, <1>16
  DEF Start, Continue

-----------------------------------------------------------------------------
(* Counting. *)

(* What is charged can be counted.                                         *)
LEMMA ChargedFinite ==
  ASSUME TypeOK, Creation
  PROVE  IsFiniteSet(Charged) /\ Cardinality(Charged) \in Nat
<1>1. Charged \subseteq created /\ IsFiniteSet(created)
  BY DEF Charged, TypeOK, Creation
<1> QED BY <1>1, FS_Subset, FS_CardinalityType

(* Nothing more is charged, and the counter stays.                         *)
LEMMA FewerCharges ==
  ASSUME TypeOK, Creation, ChargesCounted,
         Charged' \subseteq Charged,
         UNCHANGED currentKeySessionNumber
  PROVE  ChargesCounted'
<1>1. Cardinality(Charged') <= Cardinality(Charged) /\ Cardinality(Charged') \in Nat
  BY ChargedFinite, FS_Subset, FS_CardinalityType
<1> QED BY <1>1, ChargedFinite DEF ChargesCounted, TypeOK

(* One member less.                                                        *)
LEMMA OneLess ==
  ASSUME NEW S, IsFiniteSet(S), NEW x \in S
  PROVE  IsFiniteSet(S \ {x}) /\ Cardinality(S \ {x}) = Cardinality(S) - 1
BY FS_RemoveElement

(* The counter covers what is charged: a create counts first what it hands *)
(* out, a release counts off what only it charges.                         *)
LEMMA ChargeStep ==
  ASSUME TypeOK, LockOwners, Creation, Departure, ChargesCounted,
         NEW t \in Thread, Start(t) \/ Continue(t)
  PROVE  ChargesCounted'
<1> USE SessionAssumption DEF Goto, TypeOK, sessions, locks, Creation, Departure,
               Leaving, Cutting
<1>1. CASE \/ CreateBegin(t) \/ CreateRefused(t)
           \/ HdiCreateFails(t) \/ HdiCreateNoMemory(t)
  BY <1>1, FewerCharges DEF CreateBegin, CreateRefused, HdiCreateFails,
              HdiCreateNoMemory, FreshSessions, Charged
<1>2. CASE SystemOpBegin(t) \/ SystemOpRefused(t) \/ SystemOpEnd(t)
  BY <1>2, FewerCharges DEF SystemOpBegin, SystemOpRefused, SystemOpEnd, Charged
<1>3. ASSUME NEW s \in Session, HdiCreate(t, s) PROVE ChargesCounted'
  BY <1>3, FewerCharges DEF HdiCreate, FreshSessions, Charged
<1>4. CASE CreateEnd(t)
  <2>1. /\ Charged' \subseteq Charged \cup {arg[t]}
        /\ currentKeySessionNumber' = currentKeySessionNumber + 1
    BY <1>4 DEF CreateEnd, Charged
  <2>2. arg[t] \notin Charged
    BY <1>4 DEF CreateEnd, Charged
  <2>3. /\ IsFiniteSet(Charged \cup {arg[t]})
        /\ Cardinality(Charged \cup {arg[t]}) = Cardinality(Charged) + 1
    BY <2>2, ChargedFinite, FS_AddElement
  <2>4. Cardinality(Charged') <= Cardinality(Charged) + 1 /\ Cardinality(Charged') \in Nat
    BY <2>1, <2>3, FS_Subset, FS_CardinalityType
  <2> QED BY <2>1, <2>4, ChargedFinite DEF ChargesCounted
<1>5. ASSUME NEW s \in Session, Release(t, s) PROVE ChargesCounted'
  BY <1>5, FewerCharges DEF Release, Charged
<1>6. CASE CloseMediaKeySessionService(t)
  BY <1>6, FewerCharges DEF CloseMediaKeySessionService, Charged
<1>7. CASE DestroySession(t)
  BY <1>7, FewerCharges DEF DestroySession, Charged
<1>8. CASE EraseSession(t)
  <2>1. /\ arg[t] \in Charged
        /\ Charged' \subseteq Charged \ {arg[t]}
        /\ currentKeySessionNumber' = OneSessionLess
    BY <1>8 DEF EraseSession, Charged
  <2>2. /\ IsFiniteSet(Charged \ {arg[t]})
        /\ Cardinality(Charged \ {arg[t]}) = Cardinality(Charged) - 1
    <3>1. IsFiniteSet(Charged) /\ arg[t] \in Charged
      BY <2>1, ChargedFinite
    <3> QED BY <3>1, OneLess, Zenon
  <2>3. Cardinality(Charged') <= Cardinality(Charged) - 1 /\ Cardinality(Charged') \in Nat
    BY <2>1, <2>2, FS_Subset, FS_CardinalityType
  <2>4. Cardinality(Charged) <= currentKeySessionNumber
    BY DEF ChargesCounted
  <2> QED BY <2>1, <2>3, <2>4, ChargedFinite DEF ChargesCounted, OneSessionLess
<1>9. ASSUME NEW s \in Session, SessionOpBegin(t, s) \/ SessionOpRefused(t, s) PROVE ChargesCounted'
  BY <1>9, FewerCharges DEF SessionOpBegin, SessionOpRefused, Charged
<1>10. CASE SessionOpEnd(t)
  BY <1>10, FewerCharges DEF SessionOpEnd, Charged
<1>11. CASE DumpBegin(t) \/ DumpEnd(t)
  BY <1>11, FewerCharges DEF DumpBegin, DumpEnd, Charged
<1>12. ASSUME NEW s \in Session, DumpSession(t, s) PROVE ChargesCounted'
  BY <1>12, FewerCharges DEF DumpSession, Charged
<1>13. CASE CloseBegin(t) \/ CloseUnlock(t)
  BY <1>13, FewerCharges DEF CloseBegin, CloseUnlock, Charged
<1>14. ASSUME NEW s \in Session, CloseNext(t, s) PROVE ChargesCounted'
  BY <1>14, FewerCharges DEF CloseNext, Charged
<1>15. CASE CloseOne(t)
  BY <1>15, FewerCharges DEF CloseOne, Charged
<1>16. CASE DestroySystem(t)
  BY <1>16, FewerCharges DEF DestroySystem, Charged
<1> QED
  BY <1>1, <1>2, <1>3, <1>4, <1>5, <1>6, <1>7, <1>8, <1>9,
     <1>10, <1>11, <1>12, <1>13, <1>14, <1>15, <1>16
  DEF Start, Continue

(* As long as nobody closes the system, set and counter move together.     *)
LEMMA ExactStep ==
  ASSUME TypeOK, LockOwners, Creation, Departure, OpenExact,
         NEW t \in Thread, Start(t) \/ Continue(t)
  PROVE  OpenExact'
<1> USE SessionAssumption DEF Goto, TypeOK, sessions, locks, Creation, Departure,
               Leaving, Cutting, OpenExact
<1>1. CASE \/ CreateBegin(t) \/ CreateRefused(t)
           \/ HdiCreateFails(t) \/ HdiCreateNoMemory(t)
  BY <1>1 DEF CreateBegin, CreateRefused, HdiCreateFails,
              HdiCreateNoMemory, FreshSessions
<1>2. CASE SystemOpBegin(t) \/ SystemOpRefused(t) \/ SystemOpEnd(t)
  BY <1>2 DEF SystemOpBegin, SystemOpRefused, SystemOpEnd
<1>3. ASSUME NEW s \in Session, HdiCreate(t, s) PROVE OpenExact'
  BY <1>3 DEF HdiCreate, FreshSessions
<1>4. CASE CreateEnd(t)
  <2>1. /\ sessionsSet_' = sessionsSet_ \cup {arg[t]} /\ arg[t] \notin sessionsSet_
        /\ currentKeySessionNumber' = currentKeySessionNumber + 1
    BY <1>4 DEF CreateEnd, Creating
  <2>2. Cardinality(sessionsSet_') = Cardinality(sessionsSet_) + 1
    BY <2>1, FS_Subset, FS_AddElement
  <2> QED BY <1>4, <2>1, <2>2 DEF CreateEnd
<1>5. ASSUME NEW s \in Session, Release(t, s) PROVE OpenExact'
  BY <1>5 DEF Release
<1>6. CASE CloseMediaKeySessionService(t)
  BY <1>6 DEF CloseMediaKeySessionService
<1>7. CASE DestroySession(t)
  BY <1>7 DEF DestroySession
<1>8. CASE EraseSession(t)
  <2> SUFFICES ASSUME ~ closing PROVE OpenExact'
    BY <1>8 DEF EraseSession
  <2>1. /\ sessionsSet_' = sessionsSet_ \ {arg[t]} /\ arg[t] \in sessionsSet_
        /\ currentKeySessionNumber' = OneSessionLess
    BY <1>8 DEF EraseSession
  <2>2. /\ Cardinality(sessionsSet_') = Cardinality(sessionsSet_) - 1
        /\ Cardinality(sessionsSet_') \in Nat
    BY <2>1, FS_Subset, FS_RemoveElement, FS_CardinalityType
  <2>3. currentKeySessionNumber' = currentKeySessionNumber - 1
    BY <2>1, <2>2 DEF OneSessionLess
  <2> QED BY <1>8, <2>1, <2>2, <2>3 DEF EraseSession
<1>9. ASSUME NEW s \in Session, SessionOpBegin(t, s) \/ SessionOpRefused(t, s) PROVE OpenExact'
  BY <1>9 DEF SessionOpBegin, SessionOpRefused
<1>10. CASE SessionOpEnd(t)
  BY <1>10 DEF SessionOpEnd
<1>11. CASE DumpBegin(t) \/ DumpEnd(t)
  BY <1>11 DEF DumpBegin, DumpEnd
<1>12. ASSUME NEW s \in Session, DumpSession(t, s) PROVE OpenExact'
  BY <1>12 DEF DumpSession
<1>13. CASE CloseBegin(t) \/ CloseUnlock(t)
  BY <1>13 DEF CloseBegin, CloseUnlock
<1>14. ASSUME NEW s \in Session, CloseNext(t, s) PROVE OpenExact'
  BY <1>14 DEF CloseNext
<1>15. CASE CloseOne(t)
  BY <1>15 DEF CloseOne
<1>16. CASE DestroySystem(t)
  BY <1>16 DEF DestroySystem
<1> QED
  BY <1>1, <1>2, <1>3, <1>4, <1>5, <1>6, <1>7, <1>8, <1>9,
     <1>10, <1>11, <1>12, <1>13, <1>14, <1>15, <1>16
  DEF Start, Continue

(* Every step keeps it. *)
LEMMA StepInv == IInv /\ [Next]_vars => IInv'
<1> SUFFICES ASSUME IInv, [Next]_vars PROVE IInv'
  OBVIOUS
<1> USE DEF IInv
<1>1. ASSUME NEW t \in Thread, Start(t) \/ Continue(t) PROVE IInv'
  BY <1>1, TypeStep, LockStep, UseStep, CreationStep, DepartureStep, ChargeStep, ExactStep,
     LossStep
<1>2. CASE UNCHANGED vars
  <2> USE <1>2 DEF vars, sessions, locks
  <2>1. TypeOK' /\ LockOwners' /\ UsedIsThere'
    BY DEF TypeOK, LockOwners, UsedIsThere
  <2>2. Creation' /\ Departure' /\ NothingLost'
    BY DEF Creation, Departure, NothingLost, Inserts, Closes
  <2>3. ChargesCounted' /\ OpenExact'
    BY DEF ChargesCounted, Charged, OpenExact
  <2> QED BY <2>1, <2>2, <2>3
<1> QED BY <1>1, <1>2 DEF Next, Terminated

-----------------------------------------------------------------------------
(* The theorems about the session. *)

(* The inductive invariant holds in every reachable state.                 *)
THEOREM Invariance == Spec => []IInv
BY InitInv, StepInv, PTL DEF Spec

(* The types, and with them that the counter of CreateMediaKeySession stays *)
(* between zero and KEY_SESSION_INSTANCES_MAX_NUMBER.                       *)
THEOREM TypeCorrect == Spec => []TypeOK
<1>1. IInv => TypeOK
  BY DEF IInv
<1> QED BY <1>1, Invariance, PTL

(* No HDI key system or session is called after it was destroyed.          *)
THEOREM UseCorrect == Spec => []UsedIsThere
<1>1. IInv => UsedIsThere
  BY DEF IInv
<1> QED BY <1>1, Invariance, PTL

(* No HDI session is lost, whoever creates, releases or closes.            *)
THEOREM LossCorrect == Spec => []NothingLost
<1>1. IInv => NothingLost
  BY DEF IInv
<1> QED BY <1>1, Invariance, PTL

(* The counter is the number of sessions until the system is closed.       *)
THEOREM CounterCorrect == Spec => []CounterExact
<1>1. IInv => CounterExact
  BY DEF IInv, OpenExact, CounterExact
<1> QED BY <1>1, Invariance, PTL

(* sessionsSet_ and currentKeySessionNumber account for the HDI sessions.  *)
THEOREM AccountsCorrect == Spec => []SessionsAccountedFor
<1>1. NothingLost /\ CounterExact => SessionsAccountedFor
  BY DEF SessionsAccountedFor
<1> QED BY <1>1, LossCorrect, CounterCorrect, PTL

-----------------------------------------------------------------------------
(* The refinement of InstanceQuota. *)

(* What does not touch HDI sessions or the locks of sessions is a stutter. *)
LEMMA QuotaStutter ==
  ASSUME UNCHANGED <<hdiKeySystem_, created, hdiMediaKeySession_, sessionMutex_>>
  PROVE  UNCHANGED Quota!quotaVars
BY DEF Quota!quotaVars

(* Whoever is to create a session finds fewer than the maximum there.      *)
LEMMA RoomIsRoom ==
  ASSUME IInv, NEW t \in Thread, pc[t] = "hdiCreate"
  PROVE  Cardinality(hdiMediaKeySession_) < MaxSessions
<1> USE DEF IInv, TypeOK, Creation
<1>1. currentKeySessionNumber < MaxSessions
  BY DEF Creating
<1>2. \A u \in Thread : pc[u] # "insert"
  BY DEF LockOwners, Working
<1>3. hdiMediaKeySession_ \subseteq Charged
  BY <1>2 DEF Charged, Inserts
<1>4. /\ Cardinality(hdiMediaKeySession_) <= Cardinality(Charged)
      /\ Cardinality(hdiMediaKeySession_) \in Nat
  BY <1>3, ChargedFinite, FS_Subset, FS_CardinalityType
<1> QED BY <1>1, <1>4, ChargedFinite, SessionAssumption DEF ChargesCounted

(* InstanceQuota counts as this module does.                               *)
LEMMA SameCardinality ==
  ASSUME NEW S
  PROVE  Quota!Cardinality(S) = Cardinality(S)
BY DEF Quota!Cardinality, Cardinality

(* HdiCreate acquires an instance.                                         *)
LEMMA HdiCreateAcquires ==
  ASSUME IInv, NEW t \in Thread, NEW s \in Session, HdiCreate(t, s)
  PROVE  Quota!Acquire(s)
<1> USE DEF HdiCreate, FreshSessions, Goto
<1>1. hdiKeySystem_
  BY DEF IInv, UsedIsThere
<1>2. s \notin hdiMediaKeySession_ /\ s \notin created
  BY DEF IInv, TypeOK
<1>3. Quota!Cardinality(hdiMediaKeySession_) < MaxSessions
  BY RoomIsRoom, SameCardinality
<1>4. /\ hdiMediaKeySession_' = hdiMediaKeySession_ \cup {s}
      /\ created' = created \cup {s}
      /\ UNCHANGED <<hdiKeySystem_, sessionMutex_>>
  BY DEF locks
<1> QED BY <1>1, <1>2, <1>3, <1>4 DEF Quota!Acquire

(* Destroying an HDI session that is still there frees an instance.        *)
LEMMA DestroyFrees ==
  ASSUME IInv, NEW s \in Session, SessionUnlocked(s),
         hdiMediaKeySession_' = hdiMediaKeySession_ \ {s},
         UNCHANGED <<hdiKeySystem_, created, sessionMutex_>>
  PROVE  Quota!Free(s) \/ UNCHANGED Quota!quotaVars
<1>1. CASE s \in hdiMediaKeySession_
  BY <1>1 DEF Quota!Free, SessionUnlocked, IInv, TypeOK
<1>2. CASE s \notin hdiMediaKeySession_
  BY <1>2, QuotaStutter
<1> QED BY <1>1, <1>2

(* The mapped initial states are those of the pool. *)
LEMMA QuotaInit == Init => Quota!Init
BY SessionAssumption DEF Init, Quota!Init

(* A step is a step of the pool, or none. *)
LEMMA QuotaStep == IInv /\ [Next]_vars => [Quota!Next]_Quota!quotaVars
<1> SUFFICES ASSUME IInv, [Next]_vars
             PROVE  Quota!Next \/ UNCHANGED Quota!quotaVars
  OBVIOUS
<1> USE DEF sessions, locks
<1>1. ASSUME NEW t \in Thread, NEW s \in Session, HdiCreate(t, s)
      PROVE  Quota!Next
  BY <1>1, HdiCreateAcquires DEF Quota!Next
<1>2. ASSUME NEW t \in Thread, DestroySession(t) \/ CloseOne(t)
      PROVE  Quota!Next \/ UNCHANGED Quota!quotaVars
  <2>1. /\ SessionUnlocked(arg[t])
        /\ hdiMediaKeySession_' = hdiMediaKeySession_ \ {arg[t]}
        /\ UNCHANGED <<hdiKeySystem_, created, sessionMutex_>>
    BY <1>2 DEF DestroySession, CloseOne
  <2>2. arg[t] \in Session
    BY <1>2 DEF DestroySession, CloseOne, Goto, IInv, TypeOK, Departure, Cutting
  <2> QED BY <2>1, <2>2, DestroyFrees DEF Quota!Next
<1>3. ASSUME NEW t \in Thread, NEW s \in Session, SessionOpBegin(t, s)
      PROVE  Quota!Next
  <2>1. Quota!BeginUse(s)
    BY <1>3, SessionAssumption
    DEF SessionOpBegin, SessionUnlocked, Quota!BeginUse, IInv, TypeOK
  <2> QED BY <2>1 DEF Quota!Next
<1>4. ASSUME NEW t \in Thread, SessionOpEnd(t)
      PROVE  Quota!Next
  <2>1. PICK s \in Session : s = arg[t]
    BY <1>4 DEF SessionOpEnd, Goto, IInv, TypeOK, UsedIsThere
  <2>2. Quota!EndUse(s)
    BY <1>4, <2>1, SessionAssumption DEF SessionOpEnd, Quota!EndUse, IInv, TypeOK
  <2> QED BY <2>2 DEF Quota!Next
<1>5. ASSUME NEW t \in Thread, DestroySystem(t)
      PROVE  Quota!Next
  <2>1. Quota!Shut
    BY <1>5 DEF DestroySystem, Quota!Shut
  <2> QED BY <2>1 DEF Quota!Next
<1>6. ASSUME NEW t \in Thread,
             \/ CreateBegin(t) \/ CreateRefused(t) \/ HdiCreateFails(t)
             \/ HdiCreateNoMemory(t) \/ CreateEnd(t)
             \/ SystemOpBegin(t) \/ SystemOpRefused(t) \/ SystemOpEnd(t)
             \/ CloseMediaKeySessionService(t) \/ EraseSession(t)
             \/ \E s \in Session : Release(t, s) \/ SessionOpRefused(t, s)
      PROVE  UNCHANGED Quota!quotaVars
  BY <1>6, QuotaStutter
  DEF CreateBegin, CreateRefused, HdiCreateFails, HdiCreateNoMemory,
      FreshSessions, CreateEnd, SystemOpBegin, SystemOpRefused,
      SystemOpEnd, Release, CloseMediaKeySessionService, EraseSession, SessionOpRefused
<1>7. ASSUME NEW t \in Thread,
             \/ DumpBegin(t) \/ DumpEnd(t) \/ CloseBegin(t) \/ CloseUnlock(t)
             \/ \E s \in Session : DumpSession(t, s) \/ CloseNext(t, s)
      PROVE  UNCHANGED Quota!quotaVars
  BY <1>7, QuotaStutter
  DEF DumpBegin, DumpSession, DumpEnd, CloseBegin, CloseNext, CloseUnlock
<1>8. CASE UNCHANGED vars
  BY <1>8, QuotaStutter DEF vars
<1>9. ASSUME NEW t \in Thread, Start(t) \/ Continue(t)
      PROVE  Quota!Next \/ UNCHANGED Quota!quotaVars
  BY <1>1, <1>2, <1>3, <1>4, <1>5, <1>6, <1>7, <1>9 DEF Start, Continue
<1> QED BY <1>8, <1>9 DEF Next, Terminated

(* The key system with its locks keeps the promise of the abstract pool:   *)
(* sessions are acquired below the maximum and not after the key system    *)
(* was destroyed, used while they are there, and freed once.               *)
THEOREM Implements == Spec => IsQuota
BY QuotaInit, QuotaStep, Invariance, PTL DEF Spec, IsQuota, Quota!Spec

-----------------------------------------------------------------------------
(* The order of the locks.                                                 *)

Looping == {"dump", "closeAll", "closeOne"}

(* sessionsSetMutex_ is held over the loops of the dump and the closing.   *)
SetOwners == \A t \in Thread : sessionsSetMutex_ = t <=> pc[t] \in Looping

(* The call t has begun, and waits for a lock that u owns.                 *)
WaitsFor(t, u) ==
  \/ pc[t] \in {"close", "destroySystem"} /\ mutex_ = u
  \/ pc[t] \in {"insert", "erase"} /\ sessionsSetMutex_ = u
  \/ pc[t] \in {"destroySession", "closeOne"} /\ sessionMutex_[arg[t]] = u
  \/ pc[t] = "dump" /\ \E s \in todo[t] : sessionMutex_[s] = u

Waits(t) == \E u \in Thread : WaitsFor(t, u)

(* The order of the locks, by what a call owns besides the factory's:      *)
(* nothing, mutex_, sessionsSetMutex_, sessionMutex_.                      *)
Height(t) ==
  IF pc[t] = "sessionOp" THEN 3
  ELSE IF pc[t] \in Looping THEN 2
  ELSE IF pc[t] \in Working THEN 1
  ELSE 0

LocksInOrder == \A t, u \in Thread : WaitsFor(t, u) => Height(t) < Height(u)

(* No calls wait for each other in a circle, of whatever length: whoever   *)
(* waits is below a call that owns a lock and waits for none.              *)
NoCircularWait ==
  \A t \in Thread : Waits(t) =>
    \E u \in Thread : Height(t) < Height(u) /\ ~ Waits(u)

(* At the start nobody holds it; the steps that take it or give it back    *)
(* enter or leave a loop.                                                  *)
LEMMA SetInit == Init => SetOwners
BY SessionAssumption DEF Init, SetOwners, Looping

LEMMA SetStep == TypeOK /\ SetOwners /\ [Next]_vars => SetOwners'
<1> SUFFICES ASSUME TypeOK, SetOwners, [Next]_vars PROVE SetOwners'
  OBVIOUS
<1> USE SessionAssumption DEF Goto, TypeOK, sessions, locks, SetOwners, Looping
<1>1. ASSUME NEW t \in Thread,
             \/ CreateBegin(t) \/ CreateRefused(t) \/ HdiCreateFails(t)
             \/ HdiCreateNoMemory(t) \/ CreateEnd(t)
             \/ \E s \in Session : HdiCreate(t, s) \/ Release(t, s)
      PROVE  SetOwners'
  BY <1>1 DEF CreateBegin, CreateRefused, HdiCreateFails,
              HdiCreateNoMemory, FreshSessions, CreateEnd, HdiCreate, Release
<1>2. ASSUME NEW t \in Thread,
             \/ CloseMediaKeySessionService(t) \/ DestroySession(t) \/ EraseSession(t)
             \/ DestroySystem(t)
      PROVE  SetOwners'
  BY <1>2 DEF CloseMediaKeySessionService, DestroySession, EraseSession, DestroySystem
<1>3. ASSUME NEW t \in Thread,
             \/ \E s \in Session : SessionOpBegin(t, s) \/ SessionOpRefused(t, s)
             \/ SessionOpEnd(t) \/ SystemOpBegin(t) \/ SystemOpRefused(t) \/ SystemOpEnd(t)
      PROVE  SetOwners'
  BY <1>3 DEF SessionOpBegin, SessionOpRefused, SessionOpEnd, SystemOpBegin, SystemOpRefused,
     SystemOpEnd
<1>4. ASSUME NEW t \in Thread,
             DumpBegin(t) \/ DumpEnd(t) \/ \E s \in Session : DumpSession(t, s)
      PROVE  SetOwners'
  BY <1>4 DEF DumpBegin, DumpEnd, DumpSession
<1>5. ASSUME NEW t \in Thread,
             \/ CloseBegin(t) \/ CloseOne(t) \/ CloseUnlock(t)
             \/ \E s \in Session : CloseNext(t, s)
      PROVE  SetOwners'
  BY <1>5 DEF CloseBegin, CloseOne, CloseUnlock, CloseNext
<1>6. CASE UNCHANGED vars
  BY <1>6 DEF vars
<1> QED
  BY <1>1, <1>2, <1>3, <1>4, <1>5, <1>6, Zenon DEF Next, Start, Continue, Terminated

(* Whoever waits for a lock owns none, or only lower ones.                 *)
LEMMA WaitsUpwards ==
  ASSUME TypeOK, LockOwners, Departure, SetOwners
  PROVE  LocksInOrder
<1> SUFFICES ASSUME NEW t \in Thread, NEW u \in Thread, WaitsFor(t, u)
             PROVE  Height(t) < Height(u)
  BY DEF LocksInOrder
<1> USE DEF LockOwners, Height, Looping, Working
<1>1. CASE pc[t] \in {"close", "destroySystem"} /\ mutex_ = u
  BY <1>1
<1>2. CASE pc[t] \in {"insert", "erase"} /\ sessionsSetMutex_ = u
  BY <1>2 DEF SetOwners
<1>3. CASE pc[t] \in {"destroySession", "closeOne"} /\ sessionMutex_[arg[t]] = u
  <2>1. arg[t] \in Session
    BY <1>3 DEF Departure, Cutting, TypeOK
  <2> QED BY <1>3, <2>1
<1>4. CASE pc[t] = "dump" /\ \E s \in todo[t] : sessionMutex_[s] = u
  <2>1. PICK s \in Session : sessionMutex_[s] = u
    BY <1>4 DEF TypeOK
  <2> QED BY <1>4, <2>1
<1> QED BY <1>1, <1>2, <1>3, <1>4 DEF WaitsFor

(* With four heights, a chain of waiting calls ends after three.           *)
LEMMA ChainEnds == LocksInOrder => NoCircularWait
<1> SUFFICES ASSUME LocksInOrder, NEW t \in Thread, Waits(t)
             PROVE  \E u \in Thread : Height(t) < Height(u) /\ ~ Waits(u)
  BY DEF NoCircularWait
<1>1. \A u \in Thread : Height(u) \in 0..3
  BY DEF Height
<1>2. \A u \in Thread : Waits(u) => \E v \in Thread : Height(u) < Height(v)
  BY DEF LocksInOrder, Waits
<1>3. PICK u \in Thread : Height(t) < Height(u)
  BY <1>2
<1>4. CASE Waits(u)
  <2>1. PICK v \in Thread : Height(u) < Height(v)
    BY <1>2, <1>4
  <2>2. CASE Waits(v)
    <3>1. PICK w \in Thread : Height(v) < Height(w)
      BY <1>2, <2>2
    <3>2. Height(w) = 3 /\ Height(t) < Height(w)
      BY <1>1, <1>3, <2>1, <3>1
    <3>3. ~ Waits(w)
      BY <1>1, <1>2, <3>2
    <3> QED BY <3>2, <3>3
  <2>3. CASE ~ Waits(v)
    <3>1. Height(t) < Height(v)
      BY <1>1, <1>3, <2>1
    <3> QED BY <2>3, <3>1
  <2> QED BY <2>2, <2>3
<1> QED BY <1>3, <1>4

(* mutex_, sessionsSetMutex_ and sessionMutex_ are taken in one order by   *)
(* create, release, dump and close, so that no number of calls can         *)
(* deadlock (mediakeysystem_service.cpp:60-87, 242-282, 308-329, 447-471). *)
THEOREM DeadlockFree == Spec => [](LocksInOrder /\ NoCircularWait)
<1>1. IInv /\ SetOwners => LocksInOrder /\ NoCircularWait
  BY WaitsUpwards, ChainEnds DEF IInv
<1>2. IInv /\ SetOwners /\ [Next]_vars => SetOwners'
  BY SetStep DEF IInv
<1> QED BY <1>1, <1>2, SetInit, Invariance, PTL DEF Spec

-----------------------------------------------------------------------------
(* The decryption module: the inductive invariant.                         *)

(* A decryption in history.                                                *)
Entry == [duration : Duration, ok : BOOLEAN]

(* What an int can hold, and what the queue was given.                     *)
Int32 == (INT32_MAX - UINT32_MAX)..INT32_MAX

Pushed(h) == [i \in DOMAIN h |-> AsInt(h[i].duration)]

AtLeast(s, x) == Cardinality({i \in DOMAIN s : s[i] >= x})

(* The queue is in order, and never longer than three.                     *)
Ordered ==
  /\ topThree \in Seq(Int32) /\ Len(topThree) <= 3
  /\ \A i \in 1..2 : i + 1 <= Len(topThree) => topThree[i] <= topThree[i + 1]

(* It has as many values of at least x as it was given, up to three: that  *)
(* is what it is to keep the three largest, said without ranking them.     *)
LongestKept ==
  \A x \in Int32 :
    AtLeast(topThree, x) = LET n == AtLeast(Pushed(history), x) IN IF n <= 3 THEN n ELSE 3

(* The counters are those of history, the number and the sum those of its  *)
(* last part.                                                              *)
SumsKept ==
  /\ decryptTimes = Counted(history) /\ decryptTimes <= Len(history)
  /\ decryptSumDuration = Total(Durations(Recent(history)))
  /\ errorDecryptTimes = Cardinality(Errors(history))

(* The maximum was reached, and nothing was longer.                        *)
MaximumKept ==
  IF history = <<>> THEN decryptMaxDuration = 0
  ELSE /\ decryptMaxDuration \in Range(Durations(history))
       /\ \A y \in Range(Durations(history)) : y <= decryptMaxDuration

StatisticsKept ==
  history \in Seq(Entry) /\ Ordered /\ LongestKept /\ SumsKept /\ MaximumKept

(* Nothing decrypts before the session made the module.                    *)
Unmade == ~ decryptModule_ => stray = 0 /\ \A c \in Caller : call[c] = "idle"

(* The inductive invariant of the module.                                  *)
ModuleInv == DecryptionIsSafe /\ Unmade /\ StatisticsKept

-----------------------------------------------------------------------------
(* Induction, and the sums that Total chooses.                             *)

(* Durations are numbers.                                                  *)
LEMMA Numbers ==
  /\ Duration \subseteq Nat /\ UINT32_MAX \in Nat \ {0} /\ INT32_MAX \in Nat
  /\ Int32 \subseteq Int
BY DecryptAssumption DEF Int32

(* Least number principle: the order of Nat is well founded. What is       *)
(* claimed of all lengths fails at a least one, or at none.                *)
LEMMA Least ==
  ASSUME NEW T, T \subseteq Nat, T # {}
  PROVE  \E n \in T : \A m \in T : n <= m
<1>1. PICK x \in T : \A y \in T : ~ (<<y, x>> \in OpToRel(<, Nat))
  BY WFMin, NatLessThanWellFounded
<1>2. \A y \in T : ~ (y < x)
  BY <1>1 DEF OpToRel
<1> QED BY <1>2

(* f holds the sums of the first i elements of s.                          *)
SumsTo(f, s, n) == f = [i \in 0..n |-> IF i = 0 THEN 0 ELSE f[i - 1] + s[i]]

(* Sums are determined: two that differ differ at a least place, which is  *)
(* neither the first nor one after a place where they agree.               *)
LEMMA SumUnique ==
  ASSUME NEW s, NEW n \in Nat, NEW f, NEW g, SumsTo(f, s, n), SumsTo(g, s, n)
  PROVE  f = g
<1> DEFINE T == {i \in 0..n : f[i] # g[i]}
<1>1. \A i \in 0..n : f[i] = (IF i = 0 THEN 0 ELSE f[i - 1] + s[i])
  BY DEF SumsTo
<1>2. \A i \in 0..n : g[i] = (IF i = 0 THEN 0 ELSE g[i - 1] + s[i])
  BY DEF SumsTo
<1>3. T = {}
  <2>1. SUFFICES ASSUME T # {} PROVE FALSE
    OBVIOUS
  <2>2. T \subseteq Nat
    OBVIOUS
  <2>3. PICK i \in T : \A j \in T : i <= j
    BY <2>1, <2>2, Least
  <2>4. i # 0
    BY <1>1, <1>2, <2>3
  <2>5. i - 1 \in 0..n /\ i - 1 \notin T
    BY <2>3, <2>4
  <2>6. f[i - 1] = g[i - 1]
    BY <2>5
  <2> QED BY <1>1, <1>2, <2>3, <2>4, <2>6
<1>4. f = [i \in 0..n |-> f[i]] /\ g = [i \in 0..n |-> g[i]]
  BY DEF SumsTo
<1> QED BY <1>3, <1>4

(* The sums of one element more.                                           *)
LEMMA SumLonger ==
  ASSUME NEW s, NEW t, NEW n \in Nat, NEW f, SumsTo(f, s, n), \A i \in 1..n : t[i] = s[i]
  PROVE  SumsTo([i \in 0..(n + 1) |-> IF i <= n THEN f[i] ELSE f[n] + t[n + 1]], t, n + 1)
<1> DEFINE g == [i \in 0..(n + 1) |-> IF i <= n THEN f[i] ELSE f[n] + t[n + 1]]
<1>1. \A i \in 0..n : f[i] = (IF i = 0 THEN 0 ELSE f[i - 1] + s[i])
  BY DEF SumsTo
<1>2. ASSUME NEW i \in 0..(n + 1) PROVE g[i] = (IF i = 0 THEN 0 ELSE g[i - 1] + t[i])
  <2>1. CASE i = 0
    BY <1>1, <2>1
  <2>2. CASE i \in 1..n
    BY <1>1, <2>2
  <2>3. CASE i = n + 1
    BY <2>3
  <2> QED BY <2>1, <2>2, <2>3
<1>3. g = [i \in 0..(n + 1) |-> IF i = 0 THEN 0 ELSE g[i - 1] + t[i]]
  BY <1>2
<1> QED BY <1>3 DEF SumsTo

(* Every sequence has its sums: there is no least length without.          *)
LEMMA SumExists ==
  ASSUME NEW s \in Seq(Nat)
  PROVE  \E f : SumsTo(f, s, Len(s)) /\ f[Len(s)] \in Nat
<1> DEFINE Good(n) == \E f : SumsTo(f, s, n) /\ f[n] \in Nat
           T == {n \in 0..Len(s) : ~ Good(n)}
<1>1. Good(0)
  <2> DEFINE f == [i \in 0..0 |-> 0]
  <2>1. SumsTo(f, s, 0) /\ f[0] \in Nat
    BY DEF SumsTo
  <2> QED BY <2>1
<1>2. ASSUME NEW n \in 0..Len(s), n # 0, Good(n - 1) PROVE Good(n)
  <2>1. PICK f : SumsTo(f, s, n - 1) /\ f[n - 1] \in Nat
    BY <1>2
  <2> DEFINE g == [i \in 0..(n - 1 + 1) |-> IF i <= n - 1 THEN f[i] ELSE f[n - 1] + s[n - 1 + 1]]
  <2>2. n - 1 \in Nat
    BY <1>2
  <2>3. SumsTo(g, s, n - 1 + 1)
    BY <2>1, <2>2, SumLonger, Zenon
  <2>4. n - 1 + 1 = n
    OBVIOUS
  <2>5. s[n] \in Nat
    BY <1>2
  <2>6. g[n] \in Nat
    BY <2>1, <2>2, <2>5
  <2> QED BY <2>3, <2>4, <2>6
<1> HIDE DEF Good
<1>3. T = {}
  <2>1. SUFFICES ASSUME T # {} PROVE FALSE
    OBVIOUS
  <2>2. T \subseteq Nat
    OBVIOUS
  <2>3. PICK n \in T : \A m \in T : n <= m
    BY <2>1, <2>2, Least
  <2>4. n # 0
    BY <1>1, <2>3
  <2>5. n - 1 \in 0..Len(s) /\ n - 1 \notin T
    BY <2>3, <2>4
  <2> QED BY <1>2, <2>3, <2>4, <2>5
<1>4. Good(Len(s))
  BY <1>3
<1> QED BY <1>4 DEF Good

(* So Total, which chooses its function, is the last of the sums.          *)
LEMMA TotalIs ==
  ASSUME NEW s \in Seq(Nat), NEW f, SumsTo(f, s, Len(s))
  PROVE  Total(s) = f[Len(s)]
<1>1. Total(s) = (CHOOSE g : SumsTo(g, s, Len(s)))[Len(s)]
  BY Zenon DEF Total, SumsTo
<1>2. SumsTo((CHOOSE g : SumsTo(g, s, Len(s))), s, Len(s))
  BY Zenon
<1>3. Len(s) \in Nat
  OBVIOUS
<1> QED BY <1>1, <1>2, <1>3, SumUnique, Zenon

(* One element more adds itself to the total.                              *)
LEMMA TotalNext ==
  ASSUME NEW s \in Seq(Nat), NEW d \in Nat
  PROVE  Total(s) \in Nat /\ Total(Append(s, d)) = Total(s) + d
<1>1. PICK f : SumsTo(f, s, Len(s)) /\ f[Len(s)] \in Nat
  BY SumExists
<1> DEFINE n == Len(s)
           t == Append(s, d)
           g == [i \in 0..(n + 1) |-> IF i <= n THEN f[i] ELSE f[n] + t[n + 1]]
<1>2. n \in Nat /\ t \in Seq(Nat) /\ Len(t) = n + 1 /\ t[n + 1] = d
  OBVIOUS
<1>3. \A i \in 1..n : t[i] = s[i]
  OBVIOUS
<1>4. SumsTo(g, t, n + 1)
  BY <1>1, <1>2, <1>3, SumLonger, Zenon
<1>5. Total(t) = g[n + 1] /\ Total(s) = f[n]
  BY <1>1, <1>2, <1>4, TotalIs, Zenon
<1>6. g[n + 1] = f[n] + d
  BY <1>2
<1> QED BY <1>1, <1>5, <1>6

(* Nothing has the total zero.                                             *)
LEMMA TotalNone == Total(<<>>) = 0
<1> DEFINE f == [i \in 0..0 |-> 0]
<1>1. SumsTo(f, <<>>, 0)
  BY DEF SumsTo
<1>2. <<>> \in Seq(Nat) /\ Len(<<>>) = 0
  OBVIOUS
<1>3. Total(<<>>) = f[0]
  BY <1>1, <1>2, TotalIs, Zenon
<1> QED BY <1>3

-----------------------------------------------------------------------------
(* Remainders, and the number that starts again.                           *)

(* The remainder: what % returns.                                          *)
LEMMA DivMod ==
  ASSUME NEW n \in Nat, NEW M \in Nat \ {0}
  PROVE  /\ n \div M \in Int /\ n % M \in 0..(M - 1)
         /\ n = M * (n \div M) + (n % M)
OBVIOUS

(* The one multiple of M within M of zero is zero.                         *)
LEMMA Multiple ==
  ASSUME NEW a \in Int, NEW M \in Nat \ {0}, a * M < M, a * M > -M
  PROVE  a = 0
<1>1. a >= 1 => a * M >= M
  OBVIOUS
<1>2. a <= -1 => a * M <= -M
  OBVIOUS
<1> QED BY <1>1, <1>2

(* There is one way to divide with a remainder.                            *)
LEMMA ModIs ==
  ASSUME NEW n \in Nat, NEW M \in Nat \ {0}, NEW q \in Int, NEW r \in 0..(M - 1), n = q * M + r
  PROVE  n % M = r
<1> DEFINE d == n \div M
           e == n % M
<1>1. d \in Int /\ e \in 0..(M - 1) /\ n = d * M + e
  BY DivMod
<1> HIDE DEF d, e
<1>2. (d - q) * M = r - e
  BY <1>1
<1>3. d - q = 0
  BY <1>1, <1>2, Multiple
<1> QED BY <1>1, <1>3 DEF e

(* The remainder of the next number.                                       *)
LEMMA ModNext ==
  ASSUME NEW n \in Nat, NEW M \in Nat \ {0}
  PROVE  (n + 1) % M = IF n % M = M - 1 THEN 0 ELSE (n % M) + 1
<1> DEFINE d == n \div M
           e == n % M
<1>1. d \in Int /\ e \in 0..(M - 1) /\ n = d * M + e
  BY DivMod
<1> HIDE DEF d, e
<1>2. CASE e = M - 1
  <2>1. n + 1 = (d + 1) * M + 0
    BY <1>1, <1>2
  <2>2. 0 \in 0..(M - 1) /\ d + 1 \in Int /\ n + 1 \in Nat
    BY <1>1
  <2>3. (n + 1) % M = 0
    BY <2>1, <2>2, ModIs
  <2> QED BY <1>2, <2>3 DEF e
<1>3. CASE e # M - 1
  <2>1. n + 1 = d * M + (e + 1) /\ e + 1 \in 0..(M - 1)
    BY <1>1, <1>3
  <2>2. (n + 1) % M = e + 1
    BY <1>1, <2>1, ModIs
  <2> QED BY <1>1, <1>3, <2>2 DEF e
<1> QED BY <1>2, <1>3

-----------------------------------------------------------------------------
(* The last part of history.                                               *)

(* The number starts again after UINT32_MAX decryptions.                   *)
LEMMA CountedNext ==
  ASSUME NEW h \in Seq(Entry), NEW e \in Entry
  PROVE  /\ Counted(h) \in 0..UINT32_MAX
         /\ Counted(Append(h, e)) = IF Counted(h) = UINT32_MAX THEN 1 ELSE Counted(h) + 1
<1> USE DecryptAssumption, Numbers
<1> DEFINE M == UINT32_MAX
<1>1. PICK n \in Nat : n = Len(h)
  OBVIOUS
<1>2. Len(Append(h, e)) = n + 1 /\ Append(h, e) # <<>>
  BY <1>1
<1>3. Counted(Append(h, e)) = (n % M) + 1
  <2>1. Counted(Append(h, e)) = ((n + 1 - 1) % M) + 1
    BY <1>2 DEF Counted
  <2>2. n + 1 - 1 = n
    BY <1>1
  <2> QED BY <2>1, <2>2
<1>4. CASE h = <<>>
  <2>1. n = 0 /\ Counted(h) = 0
    BY <1>1, <1>4 DEF Counted
  <2>2. 0 = 0 * M + 0 /\ 0 \in 0..(M - 1)
    OBVIOUS
  <2>3. 0 % M = 0
    BY <2>2, ModIs
  <2> QED BY <1>3, <2>1, <2>3
<1>5. CASE h # <<>>
  <2>1. n # 0 /\ n - 1 \in Nat
    BY <1>1, <1>5
  <2>2. Counted(h) = ((n - 1) % M) + 1
    BY <1>1, <1>5 DEF Counted
  <2>3. (n - 1) % M \in 0..(M - 1)
    BY <2>1, DivMod
  <2>4. (n - 1 + 1) % M = IF (n - 1) % M = M - 1 THEN 0 ELSE ((n - 1) % M) + 1
    BY <2>1, ModNext
  <2>5. n - 1 + 1 = n
    OBVIOUS
  <2>6. PICK r \in 0..(M - 1) : r = (n - 1) % M
    BY <2>3
  <2>7. n % M = IF r = M - 1 THEN 0 ELSE r + 1
    BY <2>4, <2>5, <2>6
  <2> QED BY <1>3, <2>2, <2>6, <2>7
<1> QED BY <1>4, <1>5

(* The last part of history: its length and its durations.                 *)
LEMMA RecentIs ==
  ASSUME NEW h \in Seq(Entry), Counted(h) \in 0..Len(h)
  PROVE  /\ Durations(Recent(h)) \in Seq(Nat)
         /\ Len(Recent(h)) = Counted(h) /\ Len(Durations(Recent(h))) = Counted(h)
         /\ \A i \in 1..Counted(h) :
              Durations(Recent(h))[i] = h[Len(h) - Counted(h) + i].duration
<1> USE DecryptAssumption, Numbers
<1> DEFINE r == Recent(h)
<1>1. PICK n \in Nat : n = Len(h)
  OBVIOUS
<1>2. PICK k \in 0..n : k = Counted(h)
  BY <1>1
<1>3. r = SubSeq(h, n - k + 1, n)
  BY <1>1, <1>2 DEF Recent
<1>4. \A i \in (n - k + 1)..n : h[i] \in Entry
  BY <1>1
<1>5. n - k + 1 \in Int /\ n \in Int
  OBVIOUS
<1>6. /\ r \in Seq(Entry)
      /\ Len(r) = IF n - k + 1 <= n THEN n - (n - k + 1) + 1 ELSE 0
      /\ \A i \in 1..(n - (n - k + 1) + 1) : r[i] = h[n - k + 1 + i - 1]
  BY <1>3, <1>4, <1>5, SubSeqProperties
<1>7. Len(r) = k /\ DOMAIN r = 1..k /\ \A i \in 1..k : r[i] = h[n - k + i]
  <2>1. Len(r) = k
    BY <1>6
  <2>2. n - (n - k + 1) + 1 = k
    OBVIOUS
  <2>3. \A i \in 1..k : r[i] = h[n - k + 1 + i - 1]
    BY <1>6, <2>2
  <2>4. \A i \in 1..k : n - k + 1 + i - 1 = n - k + i
    OBVIOUS
  <2> QED BY <1>6, <2>1, <2>3, <2>4
<1>8. Durations(r) = [i \in 1..k |-> h[n - k + i].duration]
  BY <1>7 DEF Durations
<1>9. ASSUME NEW i \in 1..k PROVE h[n - k + i].duration \in Nat
  <2>1. n - k + i \in 1..n
    OBVIOUS
  <2>2. h[n - k + i] \in Entry
    BY <1>1, <2>1
  <2> QED BY <2>2 DEF Entry
<1>10. Durations(r) \in Seq(Nat) /\ Len(Durations(r)) = k
  BY <1>8, <1>9
<1> HIDE DEF r
<1> QED BY <1>1, <1>2, <1>7, <1>8, <1>10 DEF r

(* What a decryption does to the total of the last part: it adds to it, or *)
(* is all of it when the number starts again.                              *)
LEMMA RecentNext ==
  ASSUME NEW h \in Seq(Entry), NEW e \in Entry, Counted(h) \in 0..Len(h)
  PROVE  /\ Total(Durations(Recent(h))) \in Nat
         /\ Total(Durations(Recent(Append(h, e)))) =
              IF Counted(h) = UINT32_MAX THEN e.duration
              ELSE Total(Durations(Recent(h))) + e.duration
<1> USE DecryptAssumption, Numbers
<1> DEFINE g == Append(h, e)
           s == Durations(Recent(h))
           t == Durations(Recent(g))
<1>1. PICK n \in Nat : n = Len(h)
  OBVIOUS
<1>2. PICK k \in 0..n : k = Counted(h)
  BY <1>1
<1>3. g \in Seq(Entry) /\ Len(g) = n + 1 /\ (\A i \in 1..n : g[i] = h[i]) /\ g[n + 1] = e
  BY <1>1
<1>4. e.duration \in Nat
  BY DEF Entry
<1>5. s \in Seq(Nat) /\ Len(s) = k /\ \A i \in 1..k : s[i] = h[n - k + i].duration
  BY <1>1, <1>2, RecentIs
<1>6. Total(s) \in Nat /\ Total(Append(s, e.duration)) = Total(s) + e.duration
  BY <1>4, <1>5, TotalNext, Zenon
<1>7. CASE k = UINT32_MAX
  <2>1. Counted(g) = 1
    BY <1>2, <1>7, CountedNext
  <2>2. Counted(g) \in 0..Len(g)
    BY <1>3, <2>1
  <2>3. /\ t \in Seq(Nat) /\ Len(t) = Counted(g)
        /\ \A i \in 1..Counted(g) : t[i] = g[Len(g) - Counted(g) + i].duration
    BY <1>3, <2>2, RecentIs, Zenon
  <2>4. Len(t) = 1 /\ t[1] = e.duration
    <3>1. 1 \in 1..Counted(g) /\ Len(g) - Counted(g) + 1 = n + 1
      BY <1>3, <2>1
    <3> QED BY <1>3, <2>1, <2>3, <3>1
  <2>5. <<>> \in Seq(Nat)
    OBVIOUS
  <2>6. t = Append(<<>>, e.duration)
    <3> HIDE DEF t
    <3> QED BY <1>4, <2>3, <2>4
  <2>7. Total(t) = Total(<<>>) + e.duration
    BY <1>4, <2>5, <2>6, TotalNext, Zenon
  <2> QED BY <1>2, <1>4, <1>6, <1>7, <2>7, TotalNone
<1>8. CASE k # UINT32_MAX
  <2>1. Counted(g) = k + 1
    BY <1>2, <1>8, CountedNext
  <2>0. Counted(g) \in 0..Len(g)
    BY <1>3, <2>1
  <2>2. /\ t \in Seq(Nat) /\ Len(t) = k + 1
        /\ \A i \in 1..(k + 1) : t[i] = g[n + 1 - (k + 1) + i].duration
    <3>1. /\ t \in Seq(Nat) /\ Len(t) = Counted(g)
          /\ \A i \in 1..Counted(g) : t[i] = g[Len(g) - Counted(g) + i].duration
      BY <1>3, <2>0, RecentIs, Zenon
    <3> HIDE DEF t, g
    <3> QED BY <1>3, <2>1, <3>1
  <2>3. ASSUME NEW i \in 1..k PROVE t[i] = s[i]
    <3>1. n + 1 - (k + 1) + i = n - k + i /\ n - k + i \in 1..n
      OBVIOUS
    <3>2. i \in 1..(k + 1)
      OBVIOUS
    <3>3. t[i] = g[n - k + i].duration
      BY <2>2, <3>1, <3>2, Zenon
    <3>4. g[n - k + i] = h[n - k + i]
      BY <1>3, <3>1, Zenon
    <3> QED BY <1>5, <3>3, <3>4, Zenon
  <2>4. t[k + 1] = e.duration
    <3>1. n + 1 - (k + 1) + (k + 1) = n + 1
      OBVIOUS
    <3> QED BY <1>3, <2>2, <3>1
  <2>5. t = Append(s, e.duration)
    <3> HIDE DEF s, t
    <3> QED BY <1>4, <1>5, <2>2, <2>3, <2>4
  <2> QED BY <1>2, <1>6, <1>8, <2>5
<1> QED BY <1>7, <1>8

-----------------------------------------------------------------------------
(* Counting.                                                               *)

(* Counting in an interval that gets one longer.                           *)
LEMMA OneMore ==
  ASSUME NEW n \in Nat, NEW W
  PROVE  /\ Cardinality((1..n) \cap W) \in Nat
         /\ Cardinality((1..(n + 1)) \cap W)
              = Cardinality((1..n) \cap W) + (IF n + 1 \in W THEN 1 ELSE 0)
<1> DEFINE A == (1..n) \cap W
           B == (1..(n + 1)) \cap W
<1>1. IsFiniteSet(A) /\ Cardinality(A) \in Nat
  <2>1. IsFiniteSet(1..n)
    BY FS_Interval
  <2>2. A \in SUBSET (1..n)
    OBVIOUS
  <2>3. IsFiniteSet(A)
    BY <2>1, <2>2, FS_Subset, Zenon
  <2> QED BY <2>3, FS_CardinalityType, Zenon
<1>2. n + 1 \notin A
  OBVIOUS
<1>3. CASE n + 1 \in W
  <2>1. B = A \cup {n + 1}
    BY <1>3
  <2>2. Cardinality(A \cup {n + 1}) = Cardinality(A) + 1
    BY <1>1, <1>2, FS_AddElement
  <2> QED BY <1>1, <1>3, <2>1, <2>2
<1>4. CASE n + 1 \notin W
  <2>1. B = A
    BY <1>4
  <2> QED BY <1>1, <1>4, <2>1
<1> QED BY <1>3, <1>4

(* The errors, and the durations of at least x, with one decryption more.  *)
LEMMA ErrorsNext ==
  ASSUME NEW h \in Seq(Entry), NEW e \in Entry
  PROVE  /\ Cardinality(Errors(h)) \in Nat
         /\ Cardinality(Errors(Append(h, e))) = Cardinality(Errors(h)) + (IF e.ok THEN 0 ELSE 1)
<1> DEFINE g == Append(h, e)
           W == {i \in Nat : ~ g[i].ok}
<1>1. PICK n \in Nat : n = Len(h)
  OBVIOUS
<1>2. DOMAIN g = 1..(n + 1) /\ DOMAIN h = 1..n /\ (\A i \in 1..n : g[i] = h[i]) /\ g[n + 1] = e
  BY <1>1
<1>3. Errors(h) = (1..n) \cap W
  BY <1>2 DEF Errors
<1>4. Errors(g) = (1..(n + 1)) \cap W
  BY <1>2 DEF Errors
<1>5. n + 1 \in W <=> ~ e.ok
  BY <1>2
<1> HIDE DEF g, W
<1>6. /\ Cardinality((1..n) \cap W) \in Nat
      /\ Cardinality((1..(n + 1)) \cap W)
           = Cardinality((1..n) \cap W) + (IF n + 1 \in W THEN 1 ELSE 0)
  BY OneMore, Zenon
<1> QED BY <1>3, <1>4, <1>5, <1>6 DEF g

LEMMA AtLeastNext ==
  ASSUME NEW h \in Seq(Entry), NEW e \in Entry, NEW x \in Int
  PROVE  /\ AtLeast(Pushed(h), x) \in Nat
         /\ AtLeast(Pushed(Append(h, e)), x)
              = AtLeast(Pushed(h), x) + (IF AsInt(e.duration) >= x THEN 1 ELSE 0)
<1> DEFINE g == Append(h, e)
           W == {i \in Nat : AsInt(g[i].duration) >= x}
<1>1. PICK n \in Nat : n = Len(h)
  OBVIOUS
<1>2. DOMAIN g = 1..(n + 1) /\ DOMAIN h = 1..n /\ (\A i \in 1..n : g[i] = h[i]) /\ g[n + 1] = e
  BY <1>1
<1>3. {i \in DOMAIN Pushed(h) : Pushed(h)[i] >= x} = (1..n) \cap W
  BY <1>2 DEF Pushed
<1>4. {i \in DOMAIN Pushed(g) : Pushed(g)[i] >= x} = (1..(n + 1)) \cap W
  BY <1>2 DEF Pushed
<1>5. n + 1 \in W <=> AsInt(e.duration) >= x
  BY <1>2
<1> HIDE DEF g, W
<1>6. /\ Cardinality((1..n) \cap W) \in Nat
      /\ Cardinality((1..(n + 1)) \cap W)
           = Cardinality((1..n) \cap W) + (IF n + 1 \in W THEN 1 ELSE 0)
  BY OneMore, Zenon
<1>7. /\ AtLeast(Pushed(h), x) = Cardinality((1..n) \cap W)
      /\ AtLeast(Pushed(g), x) = Cardinality((1..(n + 1)) \cap W)
  BY <1>3, <1>4, Zenon DEF AtLeast
<1> QED BY <1>5, <1>6, <1>7 DEF g

(* Whether place i of t has at least x: a queue of up to four is counted   *)
(* place by place.                                                         *)
Has(t, i, x) == IF i \in DOMAIN t /\ t[i] >= x THEN 1 ELSE 0

LEMMA AtLeastIs ==
  ASSUME NEW t, NEW n \in 0..4, DOMAIN t = 1..n, NEW x \in Int
  PROVE  AtLeast(t, x) = Has(t, 1, x) + Has(t, 2, x) + Has(t, 3, x) + Has(t, 4, x)
<1> DEFINE W == {i \in 1..n : t[i] >= x}
           C(k) == Cardinality((1..k) \cap W)
<1>1. \A k \in Nat : C(k + 1) = C(k) + (IF k + 1 \in W THEN 1 ELSE 0)
  BY OneMore, Zenon
<1>2. C(0) = 0
  <2>1. (1..0) \cap W = {}
    OBVIOUS
  <2> QED BY <2>1, FS_EmptySet
<1>3. W = (1..4) \cap W
  OBVIOUS
<1>4. \A i \in 1..4 : Has(t, i, x) = IF i \in W THEN 1 ELSE 0
  BY DEF Has
<1>5. AtLeast(t, x) = C(4)
  BY <1>3 DEF AtLeast
<1>6. C(1) = C(0) + (IF 1 \in W THEN 1 ELSE 0) /\ C(2) = C(1) + (IF 2 \in W THEN 1 ELSE 0)
      /\ C(3) = C(2) + (IF 3 \in W THEN 1 ELSE 0) /\ C(4) = C(3) + (IF 4 \in W THEN 1 ELSE 0)
  <2>1. /\ C(0 + 1) = C(0) + (IF 0 + 1 \in W THEN 1 ELSE 0)
        /\ C(1 + 1) = C(1) + (IF 1 + 1 \in W THEN 1 ELSE 0)
        /\ C(2 + 1) = C(2) + (IF 2 + 1 \in W THEN 1 ELSE 0)
        /\ C(3 + 1) = C(3) + (IF 3 + 1 \in W THEN 1 ELSE 0)
    <3> HIDE DEF C
    <3>1. 0 \in Nat /\ 1 \in Nat /\ 2 \in Nat /\ 3 \in Nat
      OBVIOUS
    <3> QED BY <1>1, <3>1, Zenon
  <2>2. 0 + 1 = 1 /\ 1 + 1 = 2 /\ 2 + 1 = 3 /\ 3 + 1 = 4
    OBVIOUS
  <2> HIDE DEF C
  <2> QED BY <2>1, <2>2
<1> HIDE DEF C, W
<1>7. /\ Has(t, 1, x) = (IF 1 \in W THEN 1 ELSE 0) /\ Has(t, 2, x) = (IF 2 \in W THEN 1 ELSE 0)
      /\ Has(t, 3, x) = (IF 3 \in W THEN 1 ELSE 0) /\ Has(t, 4, x) = (IF 4 \in W THEN 1 ELSE 0)
  BY <1>4
<1> QED BY <1>2, <1>5, <1>6, <1>7

-----------------------------------------------------------------------------
(* The queue of the three longest.                                         *)

(* A push keeps the order and adds the duration, once.                     *)
LEMMA PushIs ==
  ASSUME Ordered, NEW d \in Int32
  PROVE  /\ Push(d) \in Seq(Int32) /\ Len(Push(d)) = Len(topThree) + 1
         /\ \A i \in 1..3 : i + 1 <= Len(Push(d)) => Push(d)[i] <= Push(d)[i + 1]
         /\ \A x \in Int32 :
              AtLeast(Push(d), x) = AtLeast(topThree, x) + (IF d >= x THEN 1 ELSE 0)
<1> USE DecryptAssumption, Numbers
<1> DEFINE P == Push(d)
<1>0. topThree \in Seq(Int32) /\ Len(topThree) <= 3
  BY DEF Ordered
<1>1. PICK n \in 0..3 : n = Len(topThree)
  <2>1. PICK n \in Nat : n = Len(topThree)
    BY <1>0
  <2>2. n \in 0..3
    BY <1>0, <2>1
  <2> QED BY <2>1, <2>2
<1>2. ASSUME NEW i \in 1..n PROVE topThree[i] \in Int32 /\ topThree[i] \in Int
  <2>1. topThree[i] \in Int32
    BY <1>0, <1>1
  <2> QED BY <2>1
<1>3. DOMAIN P = 1..(n + 1)
  BY <1>1 DEF Push
<1>4. \A i \in 1..(n + 1) :
        P[i] = IF i <= n /\ topThree[i] <= d THEN topThree[i]
               ELSE IF i = 1 \/ topThree[i - 1] <= d THEN d
               ELSE topThree[i - 1]
  BY <1>1 DEF Push
<1>5. \A i \in 1..(n + 1) : P[i] \in Int32
  BY <1>2, <1>4
<1>6. P \in Seq(Int32) /\ Len(P) = n + 1
  <2>1. P = [i \in 1..(n + 1) |-> P[i]]
    BY <1>1 DEF Push
  <2> HIDE DEF P
  <2>2. PICK m \in Nat : m = n + 1
    OBVIOUS
  <2>3. P = [i \in 1..m |-> P[i]] /\ \A i \in 1..m : P[i] \in Int32
    BY <1>5, <2>1, <2>2
  <2>4. P \in Seq(Int32)
    BY <2>3
  <2>5. Len(P) = m
    BY <1>3, <2>2, <2>4
  <2> QED BY <2>2, <2>4, <2>5
<1>7. \A i \in 1..2 : i + 1 <= n => topThree[i] <= topThree[i + 1]
  BY <1>1 DEF Ordered
<1>8. \A x \in Int32 :
        /\ AtLeast(P, x) = Has(P, 1, x) + Has(P, 2, x) + Has(P, 3, x) + Has(P, 4, x)
                          /\ AtLeast(topThree, x) = Has(topThree, 1, x) + Has(topThree, 2, x)
                                + Has(topThree, 3, x) + Has(topThree, 4, x)
  <2>1. DOMAIN topThree = 1..n /\ n \in 0..4 /\ n + 1 \in 0..4
    BY <1>1 DEF Ordered
  <2>2. \A x \in Int32 : x \in Int
    OBVIOUS
  <2> HIDE DEF P
  <2> QED BY <1>3, <2>1, <2>2, AtLeastIs, Zenon
<1> HIDE DEF P
<1>9. d \in Int
  OBVIOUS
<1>10. (\A i \in 1..3 : i + 1 <= n + 1 => P[i] <= P[i + 1]) /\
       \A x \in Int : Has(P, 1, x) + Has(P, 2, x) + Has(P, 3, x) + Has(P, 4, x)
                        = Has(topThree, 1, x) + Has(topThree, 2, x) + Has(topThree, 3, x)
                            + Has(topThree, 4, x) + (IF d >= x THEN 1 ELSE 0)
  <2>0. DOMAIN topThree = 1..n
    BY <1>1 DEF Ordered
  <2> USE DEF Has
  <2>1. CASE n = 0
    BY <1>3, <1>4, <1>9, <2>0, <2>1
  <2>2. CASE n = 1
    <3>1. /\ P[1] = (IF topThree[1] <= d THEN topThree[1] ELSE d)
         /\ P[2] = (IF topThree[1] <= d THEN d ELSE topThree[1])
      BY <1>4, <2>2
    <3>2. topThree[1] \in Int
      BY <1>2, <2>2
    <3> QED BY <1>3, <1>9, <2>0, <2>2, <3>1, <3>2
  <2>3. CASE n = 2
    <3>1. /\ P[1] = (IF topThree[1] <= d THEN topThree[1] ELSE d)
          /\ P[2] = (IF topThree[2] <= d THEN topThree[2]
                   ELSE IF topThree[1] <= d THEN d ELSE topThree[1])
          /\ P[3] = (IF topThree[2] <= d THEN d ELSE topThree[2])
      BY <1>4, <2>3
    <3>2. topThree[1] \in Int /\ topThree[2] \in Int /\ topThree[1] <= topThree[2]
      BY <1>2, <1>7, <2>3
    <3> QED BY <1>3, <1>9, <2>0, <2>3, <3>1, <3>2
  <2>4. CASE n = 3
    <3>1. /\ P[1] = (IF topThree[1] <= d THEN topThree[1] ELSE d)
          /\ P[2] = (IF topThree[2] <= d THEN topThree[2]
                   ELSE IF topThree[1] <= d THEN d ELSE topThree[1])
          /\ P[3] = (IF topThree[3] <= d THEN topThree[3]
                   ELSE IF topThree[2] <= d THEN d ELSE topThree[2])
          /\ P[4] = (IF topThree[3] <= d THEN d ELSE topThree[3])
      BY <1>4, <2>4
    <3>2. /\ topThree[1] \in Int /\ topThree[2] \in Int /\ topThree[3] \in Int
          /\ topThree[1] <= topThree[2] /\ topThree[2] <= topThree[3]
      BY <1>2, <1>7, <2>4
    <3> QED BY <1>3, <1>9, <2>0, <2>4, <3>1, <3>2
  <2> QED BY <2>1, <2>2, <2>3, <2>4
<1>11. \A x \in Int32 : x \in Int
  OBVIOUS
<1> QED BY <1>1, <1>6, <1>8, <1>10, <1>11 DEF P

(* The least of four is popped: of those of at least x one is lost only    *)
(* when all four are.                                                      *)
LEMMA TailOfFour ==
  ASSUME NEW p \in Seq(Int32), Len(p) = 4,
         p[1] <= p[2], p[2] <= p[3], p[3] <= p[4]
  PROVE  /\ Tail(p) \in Seq(Int32) /\ Len(Tail(p)) = 3
         /\ Tail(p)[1] <= Tail(p)[2] /\ Tail(p)[2] <= Tail(p)[3]
         /\ \A x \in Int32 :
              AtLeast(Tail(p), x) = IF AtLeast(p, x) <= 3 THEN AtLeast(p, x) ELSE 3
<1>1. p # <<>>
  OBVIOUS
<1>2. /\ Tail(p) \in Seq(Int32) /\ Len(Tail(p)) = Len(p) - 1
      /\ \A i \in 1..Len(Tail(p)) : Tail(p)[i] = p[i + 1]
  BY <1>1, HeadTailProperties
<1> USE DecryptAssumption, Numbers
<1> DEFINE q == Tail(p)
<1> HIDE DEF q
<1>3. q \in Seq(Int32) /\ Len(q) = 3 /\ \A i \in 1..3 : q[i] = p[i + 1]
  <2>1. /\ q \in Seq(Int32) /\ Len(q) = Len(p) - 1
        /\ \A i \in 1..Len(q) : q[i] = p[i + 1]
    BY <1>2, Zenon DEF q
  <2>2. Len(q) = 3
    BY <2>1
  <2> QED BY <2>1, <2>2
<1>4. DOMAIN q = 1..3 /\ DOMAIN p = 1..4
  BY <1>3
<1>5. q[1] = p[2] /\ q[2] = p[3] /\ q[3] = p[4]
  BY <1>3
<1>6. p[1] \in Int /\ p[2] \in Int /\ p[3] \in Int /\ p[4] \in Int
  <2>1. p[1] \in Int32 /\ p[2] \in Int32 /\ p[3] \in Int32 /\ p[4] \in Int32
    OBVIOUS
  <2> QED BY <2>1
<1>7. ASSUME NEW x \in Int32
      PROVE  AtLeast(q, x) = IF AtLeast(p, x) <= 3 THEN AtLeast(p, x) ELSE 3
  <2>1. x \in Int /\ 3 \in 0..4 /\ 4 \in 0..4
    OBVIOUS
  <2>2. AtLeast(q, x) = Has(q, 1, x) + Has(q, 2, x) + Has(q, 3, x) + Has(q, 4, x)
    BY <1>4, <2>1, AtLeastIs, Zenon
  <2>3. AtLeast(p, x) = Has(p, 1, x) + Has(p, 2, x) + Has(p, 3, x) + Has(p, 4, x)
    BY <1>4, <2>1, AtLeastIs, Zenon
  <2>4. /\ Has(p, 1, x) = (IF p[1] >= x THEN 1 ELSE 0)
        /\ Has(p, 2, x) = (IF p[2] >= x THEN 1 ELSE 0)
        /\ Has(p, 3, x) = (IF p[3] >= x THEN 1 ELSE 0)
        /\ Has(p, 4, x) = (IF p[4] >= x THEN 1 ELSE 0)
    BY <1>4 DEF Has
  <2>5. /\ Has(q, 1, x) = (IF q[1] >= x THEN 1 ELSE 0)
        /\ Has(q, 2, x) = (IF q[2] >= x THEN 1 ELSE 0)
        /\ Has(q, 3, x) = (IF q[3] >= x THEN 1 ELSE 0)
        /\ Has(q, 4, x) = 0
    BY <1>4 DEF Has
  <2> QED BY <1>5, <1>6, <2>1, <2>2, <2>3, <2>4, <2>5
<1>8. q[1] <= q[2] /\ q[2] <= q[3]
  BY <1>5
<1> QED BY <1>3, <1>7, <1>8 DEF q

(* The queue after a decryption.                                           *)
LEMMA QueueStep ==
  ASSUME Ordered, NEW d \in Int32,
         NEW q, q = IF Len(Push(d)) > TOP_THREE_SIZE THEN Pop(Push(d)) ELSE Push(d)
  PROVE  /\ q \in Seq(Int32) /\ Len(q) <= 3
         /\ \A i \in 1..2 : i + 1 <= Len(q) => q[i] <= q[i + 1]
         /\ \A x \in Int32 :
              AtLeast(q, x) = LET n == AtLeast(topThree, x) + (IF d >= x THEN 1 ELSE 0)
                              IN  IF n <= 3 THEN n ELSE 3
<1> USE DecryptAssumption, Numbers DEF TOP_THREE_SIZE, Pop
<1> DEFINE P == Push(d)
<1>1. PICK n \in 1..4 : n = Len(P)
  <2>1. topThree \in Seq(Int32) /\ Len(topThree) <= 3 /\ Len(P) = Len(topThree) + 1
    BY PushIs DEF Ordered
  <2>2. PICK k \in Nat : k = Len(topThree)
    BY <2>1
  <2>3. Len(P) \in 1..4
    BY <2>1, <2>2
  <2> QED BY <2>3
<1>2. P \in Seq(Int32) /\ \A i \in 1..3 : i + 1 <= n => P[i] <= P[i + 1]
  BY <1>1, PushIs
<1>3. \A x \in Int32 : AtLeast(P, x) = AtLeast(topThree, x) + (IF d >= x THEN 1 ELSE 0)
  BY PushIs
<1> HIDE DEF P
<1>4. DOMAIN P = 1..n
  BY <1>1, <1>2
<1>5. \A i \in 1..n : P[i] \in Int
  <2>1. \A i \in 1..n : P[i] \in Int32
    BY <1>1, <1>2
  <2> QED BY <2>1
<1>6. \A x \in Int32 :
        AtLeast(P, x) = Has(P, 1, x) + Has(P, 2, x) + Has(P, 3, x) + Has(P, 4, x)
  <2>1. n \in 0..4 /\ \A x \in Int32 : x \in Int
    OBVIOUS
  <2> QED BY <1>4, <2>1, AtLeastIs, Zenon
<1>7. CASE n = 4
  <2>1. q = Tail(P)
    BY <1>1, <1>7 DEF P
  <2>2. P[1] <= P[2] /\ P[2] <= P[3] /\ P[3] <= P[4]
    BY <1>2, <1>7
  <2>3. /\ q \in Seq(Int32) /\ Len(q) = 3 /\ q[1] <= q[2] /\ q[2] <= q[3]
        /\ \A x \in Int32 : AtLeast(q, x) = IF AtLeast(P, x) <= 3 THEN AtLeast(P, x) ELSE 3
    BY <1>1, <1>2, <1>7, <2>1, <2>2, TailOfFour
  <2>4. \A i \in 1..2 : i + 1 <= Len(q) => q[i] <= q[i + 1]
    BY <2>3
  <2> QED BY <1>3, <2>3, <2>4
<1>8. CASE n # 4
  <2>1. q = P /\ n <= 3
    BY <1>1, <1>8 DEF P
  <2>2. ASSUME NEW x \in Int32
        PROVE  AtLeast(q, x) = IF AtLeast(P, x) <= 3 THEN AtLeast(P, x) ELSE 3
    <3>1. AtLeast(P, x) = Has(P, 1, x) + Has(P, 2, x) + Has(P, 3, x) + Has(P, 4, x)
      BY <1>6
    <3>2. Has(P, 4, x) = 0
      BY <1>4, <2>1 DEF Has
    <3>3. Has(P, 1, x) \in 0..1 /\ Has(P, 2, x) \in 0..1 /\ Has(P, 3, x) \in 0..1
      BY DEF Has
    <3>4. AtLeast(P, x) <= 3
      BY <3>1, <3>2, <3>3
    <3> QED BY <2>1, <3>4
  <2>3. q \in Seq(Int32) /\ Len(q) <= 3
    BY <1>1, <1>2, <2>1
  <2>4. \A i \in 1..2 : i + 1 <= Len(q) => q[i] <= q[i + 1]
    BY <1>1, <1>2, <2>1
  <2> QED BY <1>3, <2>2, <2>3, <2>4
<1> QED BY <1>7, <1>8

(* Durations of history are durations.                                     *)
LEMMA DurationsLast ==
  ASSUME NEW h \in Seq(Entry), NEW y \in Range(Durations(h))
  PROVE  y \in Duration
<1>1. PICK n \in Nat : n = Len(h)
  OBVIOUS
<1>2. DOMAIN h = 1..n /\ \A i \in 1..n : h[i] \in Entry
  BY <1>1
<1>3. Durations(h) = [i \in 1..n |-> h[i].duration]
  BY <1>2 DEF Durations
<1>4. PICK i \in 1..n : y = h[i].duration
  BY <1>3 DEF Range
<1> QED BY <1>2, <1>4 DEF Entry

(* The durations of a longer history.                                      *)
LEMMA Growing ==
  ASSUME NEW h \in Seq(Entry), NEW e \in Entry
  PROVE  /\ Append(h, e) \in Seq(Entry) /\ Append(h, e) # <<>>
         /\ Len(Append(h, e)) = Len(h) + 1
         /\ Range(Durations(Append(h, e))) = Range(Durations(h)) \cup {e.duration}
<1>1. PICK n \in Nat : n = Len(h)
  OBVIOUS
<1> DEFINE g == Append(h, e)
<1>2. /\ g \in Seq(Entry) /\ g # <<>> /\ Len(g) = n + 1
      /\ DOMAIN g = 1..(n + 1) /\ DOMAIN h = 1..n
      /\ (\A i \in 1..n : g[i] = h[i]) /\ g[n + 1] = e
  BY <1>1
<1> HIDE DEF g
<1>3. /\ Durations(g) = [i \in 1..(n + 1) |-> g[i].duration]
      /\ Durations(h) = [i \in 1..n |-> h[i].duration]
  BY <1>2 DEF Durations
<1>4. /\ Range(Durations(g)) = {g[i].duration : i \in 1..(n + 1)}
      /\ Range(Durations(h)) = {h[i].duration : i \in 1..n}
  BY <1>3 DEF Range
<1>5. Range(Durations(g)) = Range(Durations(h)) \cup {e.duration}
  BY <1>2, <1>4
<1> QED BY <1>1, <1>2, <1>5 DEF g

-----------------------------------------------------------------------------
(* Every step.                                                             *)

(* It holds at the start.                                                  *)
LEMMA ModuleInitInv == ModuleInit => ModuleInv
<1> SUFFICES ASSUME ModuleInit PROVE ModuleInv
  OBVIOUS
<1> USE DecryptAssumption, Numbers DEF ModuleInit
<1>1. ModuleTypes
  <2>1. /\ sessionOpen \in BOOLEAN /\ decryptModule_ \in BOOLEAN
        /\ hdiMediaDecryptModule_ \in BOOLEAN /\ (hdiMediaDecryptModule_ => decryptModule_)
    BY Zenon
  <2>2. /\ moduleLock_ \in Caller \cup {Nobody}
        /\ call \in [Caller -> {"idle", "waiting", "plugin"}]
        /\ \A c \in Caller : call[c] = "plugin" <=> moduleLock_ = c
    OBVIOUS
  <2>3. files \in [Caller -> SUBSET Files]
    OBVIOUS
  <2>4. stray \in Nat /\ decryptTimes \in 0..UINT32_MAX /\ decryptSumDuration \in Nat
        /\ decryptMaxDuration \in Duration \cup {0} /\ errorDecryptTimes \in Nat
    OBVIOUS
  <2> QED BY <2>1, <2>2, <2>3, <2>4 DEF ModuleTypes
<1>2. DecryptionIsSafe /\ Unmade
  BY <1>1 DEF DecryptionIsSafe, Unmade
<1>3. history = <<>> /\ history \in Seq(Entry) /\ DOMAIN history = {} /\ topThree = <<>>
      /\ DOMAIN topThree = {} /\ Pushed(history) = <<>>
  BY DEF Pushed
<1>4. Ordered
  BY DEF Ordered
<1>5. \A x \in Int32 : AtLeast(topThree, x) = 0 /\ AtLeast(Pushed(history), x) = 0
  BY <1>3, FS_EmptySet DEF AtLeast
<1>6. LongestKept
  BY <1>5 DEF LongestKept
<1>7. Counted(history) = 0 /\ Len(history) = 0
  BY <1>3 DEF Counted
<1>8. Durations(Recent(history)) = <<>>
  <2>1. Durations(Recent(history)) \in Seq(Nat) /\ Len(Durations(Recent(history))) = 0
    <3>1. Counted(history) \in 0..Len(history) /\ history \in Seq(Entry)
      BY <1>3, <1>7
    <3>2. /\ Durations(Recent(history)) \in Seq(Nat)
          /\ Len(Durations(Recent(history))) = Counted(history)
      BY <3>1, RecentIs, Zenon
    <3> QED BY <1>7, <3>2
  <2> QED BY <2>1
<1>9. SumsKept
  <2>1. Errors(history) = {}
    BY <1>3 DEF Errors
  <2>2. decryptTimes = Counted(history) /\ decryptTimes <= Len(history)
    BY <1>7
  <2>3. decryptSumDuration = Total(Durations(Recent(history)))
    BY <1>8, TotalNone
  <2>4. errorDecryptTimes = Cardinality(Errors(history))
    BY <2>1, FS_EmptySet
  <2> QED BY <2>2, <2>3, <2>4 DEF SumsKept
<1>10. MaximumKept
  BY DEF MaximumKept
<1> QED BY <1>2, <1>3, <1>4, <1>6, <1>9, <1>10 DEF ModuleInv, StatisticsKept

(* The statistics are kept by a decryption, and by what leaves them alone. *)
LEMMA StatisticsSame ==
  StatisticsKept /\ UNCHANGED statistics => StatisticsKept'
BY DEF StatisticsKept, statistics, Ordered, LongestKept, SumsKept, MaximumKept

LEMMA StatisticsStep ==
  ASSUME ModuleInv, NEW d \in Duration, NEW ok \in BOOLEAN, UpdateDecryptionStatistics(d, ok)
  PROVE  StatisticsKept'
<1> USE DecryptAssumption, Numbers
<1> DEFINE e == [duration |-> d, ok |-> ok]
<1>1. /\ history \in Seq(Entry) /\ e \in Entry /\ e.duration = d /\ e.ok = ok
      /\ history' = Append(history, e)
  BY DEF ModuleInv, StatisticsKept, UpdateDecryptionStatistics, Entry
<1> HIDE DEF e
<1>2. /\ history' \in Seq(Entry) /\ history' # <<>> /\ Len(history') = Len(history) + 1
      /\ Range(Durations(history')) = Range(Durations(history)) \cup {d}
  BY <1>1, Growing
<1>3. /\ topThree' = IF Len(Push(AsInt(d))) > TOP_THREE_SIZE THEN Pop(Push(AsInt(d)))
                                                            ELSE Push(AsInt(d))
      /\ AsInt(d) \in Int32
  BY DEF UpdateDecryptionStatistics, AsInt, Int32
<1>4. Ordered
  BY DEF ModuleInv, StatisticsKept
<1>5. /\ topThree' \in Seq(Int32) /\ Len(topThree') <= 3
      /\ \A i \in 1..2 : i + 1 <= Len(topThree') => topThree'[i] <= topThree'[i + 1]
      /\ \A x \in Int32 :
           AtLeast(topThree', x) = LET n == AtLeast(topThree, x) + (IF AsInt(d) >= x THEN 1 ELSE 0)
                                   IN  IF n <= 3 THEN n ELSE 3
  BY <1>3, <1>4, QueueStep, Zenon
<1>6. Ordered'
  BY <1>5 DEF Ordered
<1>7. LongestKept'
  <2>1. SUFFICES ASSUME NEW x \in Int32
                 PROVE  AtLeast(topThree', x) = LET n == AtLeast(Pushed(history'), x)
                                                IN  IF n <= 3 THEN n ELSE 3
    BY Zenon DEF LongestKept
  <2>2. AtLeast(topThree, x) = LET n == AtLeast(Pushed(history), x)
                               IN  IF n <= 3 THEN n ELSE 3
    BY DEF ModuleInv, StatisticsKept, LongestKept
  <2>3. x \in Int
    BY DEF Int32
  <2>4. /\ AtLeast(Pushed(history), x) \in Nat
        /\ AtLeast(Pushed(history'), x)
             = AtLeast(Pushed(history), x) + (IF AsInt(d) >= x THEN 1 ELSE 0)
    BY <1>1, <2>3, AtLeastNext, Zenon
  <2>5. AtLeast(topThree', x) = LET n == AtLeast(topThree, x) + (IF AsInt(d) >= x THEN 1 ELSE 0)
                                IN  IF n <= 3 THEN n ELSE 3
    BY <1>5
  <2> QED BY <2>2, <2>4, <2>5
<1>8. SumsKept'
  <2>1. /\ decryptTimes = Counted(history) /\ decryptTimes <= Len(history)
        /\ decryptSumDuration = Total(Durations(Recent(history)))
        /\ errorDecryptTimes = Cardinality(Errors(history))
    BY DEF ModuleInv, StatisticsKept, SumsKept
  <2>2. /\ Counted(history) \in 0..UINT32_MAX
        /\ Counted(history') = IF Counted(history) = UINT32_MAX THEN 1 ELSE Counted(history) + 1
    BY <1>1, CountedNext
  <2>3. Counted(history) \in 0..Len(history) /\ Len(history) \in Nat
    BY <1>1, <2>1, <2>2
  <2>4. Total(Durations(Recent(history'))) =
          IF Counted(history) = UINT32_MAX THEN d ELSE Total(Durations(Recent(history))) + d
    BY <1>1, <2>3, RecentNext
  <2>5. Cardinality(Errors(history')) = Cardinality(Errors(history)) + (IF ok THEN 0 ELSE 1)
    BY <1>1, ErrorsNext
  <2>6. errorDecryptTimes' = errorDecryptTimes + (IF ok THEN 0 ELSE 1)
    BY DEF UpdateDecryptionStatistics
  <2>7. IF decryptTimes = UINT32_MAX
        THEN decryptTimes' = 1 /\ decryptSumDuration' = d
        ELSE decryptTimes' = decryptTimes + 1 /\ decryptSumDuration' = decryptSumDuration + d
    BY DEF UpdateDecryptionStatistics, CountDecryption
  <2>8. decryptTimes' = Counted(history')
    BY <2>1, <2>2, <2>7
  <2>9. decryptTimes' <= Len(history')
    BY <1>2, <2>1, <2>3, <2>7
  <2>10. decryptSumDuration' = Total(Durations(Recent(history')))
    BY <2>1, <2>4, <2>7
  <2>11. errorDecryptTimes' = Cardinality(Errors(history'))
    BY <2>1, <2>5, <2>6
  <2> QED BY <2>8, <2>9, <2>10, <2>11 DEF SumsKept
<1>9. MaximumKept'
  <2>1. decryptMaxDuration' = IF decryptMaxDuration < d THEN d ELSE decryptMaxDuration
    BY DEF UpdateDecryptionStatistics
  <2>2. decryptMaxDuration \in Nat /\ d \in Nat
    BY DEF ModuleInv, DecryptionIsSafe, ModuleTypes
  <2>3. IF history = <<>> THEN decryptMaxDuration = 0
        ELSE /\ decryptMaxDuration \in Range(Durations(history))
             /\ \A y \in Range(Durations(history)) : y <= decryptMaxDuration
    BY DEF ModuleInv, StatisticsKept, MaximumKept
  <2>4. \A y \in Range(Durations(history)) : y \in Nat
    <3>1. \A y \in Range(Durations(history)) : y \in Duration
      BY <1>1, DurationsLast, Zenon
    <3> QED BY <3>1
  <2>5. CASE history = <<>>
    <3>1. Range(Durations(history)) = {}
      BY <2>5 DEF Range, Durations
    <3> QED BY <1>2, <2>1, <2>2, <2>3, <2>5, <3>1 DEF MaximumKept
  <2>6. CASE history # <<>>
    BY <1>2, <2>1, <2>2, <2>3, <2>4, <2>6 DEF MaximumKept
  <2> QED BY <2>5, <2>6
<1> QED BY <1>2, <1>6, <1>7, <1>8, <1>9 DEF StatisticsKept

LEMMA StatisticsKeptByAll ==
  ASSUME ModuleInv, [ModuleNext]_moduleVars
  PROVE  StatisticsKept'
<1>1. StatisticsKept
  BY DEF ModuleInv
<1>2. CASE \E c \in Caller : DecryptReturns(c)
  <2>1. PICK d \in Duration, ok \in BOOLEAN : UpdateDecryptionStatistics(d, ok)
    BY <1>2 DEF DecryptReturns
  <2> QED BY <2>1, StatisticsStep, Zenon
<1>3. CASE UNCHANGED statistics
  BY <1>1, <1>3, StatisticsSame
<1> QED
  BY <1>2, <1>3, Zenon
     DEF ModuleNext, GetMediaDecryptModule, CloseMediaKeySession, ReleaseModule,
       DecryptMediaData, DecryptRefused, DecryptInPlugin, moduleVars

(* Every step keeps the module safe, action by action.                     *)
LEMMA SafeStep ==
  ASSUME ModuleInv, [ModuleNext]_moduleVars
  PROVE  DecryptionIsSafe' /\ Unmade'
<1> USE DecryptAssumption, Numbers
<1>0. ModuleTypes /\ DecryptionIsSafe /\ Unmade
  BY DEF ModuleInv, DecryptionIsSafe
<1>1. CASE GetMediaDecryptModule
  BY <1>0, <1>1
     DEF GetMediaDecryptModule, ModuleTypes, DecryptionIsSafe, Unmade, callVars, statistics
<1>2. CASE CloseMediaKeySession
  BY <1>0, <1>2
     DEF CloseMediaKeySession, ModuleTypes, DecryptionIsSafe, Unmade, callVars, statistics
<1>3. CASE ReleaseModule
  BY <1>0, <1>3
     DEF ReleaseModule, ModuleUnlocked, ModuleTypes, DecryptionIsSafe, Unmade, callVars,
          statistics, sessionVars
<1>4. ASSUME NEW c \in Caller, DecryptMediaData(c) PROVE DecryptionIsSafe' /\ Unmade'
  BY <1>0, <1>4
     DEF DecryptMediaData, ModuleTypes, DecryptionIsSafe, Unmade, statistics, sessionVars
<1>5. ASSUME NEW c \in Caller, DecryptRefused(c) PROVE DecryptionIsSafe' /\ Unmade'
  <2>1. IsFiniteSet(Files) /\ files[c] \subseteq Files
    <3>1. IsFiniteSet({"src"} \cup {"dst"})
      BY FS_Singleton, FS_Union
    <3>2. Files = {"src"} \cup {"dst"}
      BY DEF Files
    <3> QED BY <1>0, <3>1, <3>2, Zenon DEF ModuleTypes
  <2>2. Cardinality(files[c]) \in Nat
    BY <2>1, FS_Subset, FS_CardinalityType
  <2>3. stray' \in Nat
    BY <1>0, <1>5, <2>2 DEF DecryptRefused, ModuleTypes
  <2>4. ModuleTypes'
    BY <1>0, <1>5, <2>3
       DEF DecryptRefused, ModuleUnlocked, ModuleTypes, statistics, sessionVars
  <2> QED BY <1>0, <1>5, <2>4
     DEF DecryptRefused, ModuleUnlocked, ModuleTypes, DecryptionIsSafe, Unmade, statistics,
          sessionVars
<1>6. ASSUME NEW c \in Caller, DecryptInPlugin(c) PROVE DecryptionIsSafe' /\ Unmade'
  BY <1>0, <1>6
     DEF DecryptInPlugin, ModuleUnlocked, ModuleTypes, DecryptionIsSafe, Unmade, statistics,
          sessionVars
<1>7. ASSUME NEW c \in Caller, DecryptReturns(c) PROVE DecryptionIsSafe' /\ Unmade'
  <2>1. PICK d \in Duration, ok \in BOOLEAN : UpdateDecryptionStatistics(d, ok)
    BY <1>7 DEF DecryptReturns
  <2>2. /\ decryptTimes' \in 0..UINT32_MAX /\ decryptSumDuration' \in Nat
        /\ decryptMaxDuration' \in Duration \cup {0} /\ errorDecryptTimes' \in Nat
    <3>1. d \in Nat
      OBVIOUS
    <3> QED BY <1>0, <2>1, <3>1
       DEF UpdateDecryptionStatistics, CountDecryption, ModuleTypes
  <2>3. /\ call[c] = "plugin" /\ files' = [files EXCEPT ![c] = {}] /\ moduleLock_' = Nobody
        /\ call' = [call EXCEPT ![c] = "idle"]
        /\ UNCHANGED <<sessionVars, hdiMediaDecryptModule_, stray>>
    BY <1>7 DEF DecryptReturns
  <2>4. ModuleTypes'
    BY <1>0, <2>2, <2>3 DEF ModuleTypes, sessionVars
  <2> QED BY <1>0, <2>3, <2>4 DEF ModuleTypes, DecryptionIsSafe, Unmade, sessionVars
<1>8. CASE UNCHANGED moduleVars
  BY <1>0, <1>8
     DEF ModuleTypes, DecryptionIsSafe, Unmade, moduleVars, callVars, statistics, sessionVars
<1> QED BY <1>1, <1>2, <1>3, <1>4, <1>5, <1>6, <1>7, <1>8, Zenon DEF ModuleNext

-----------------------------------------------------------------------------
(* The theorems about the decryption module. *)

(* What the dump and the report say, from what is kept.                    *)
(* What the queue holds is told as the durations it was given.              *)
LEMMA Converted ==
  /\ \A d \in Duration, x \in 1..INT32_MAX : AsInt(d) >= x <=> d \in x..INT32_MAX
  /\ \A y \in Int32, x \in 1..INT32_MAX : y >= x <=> AsUnsigned(y) \in x..INT32_MAX
BY DecryptAssumption DEF AsInt, AsUnsigned, Int32

LEMMA TopThreeTold == ASSUME ModuleInv PROVE TopThreeIsTrue
<1> USE DecryptAssumption, Numbers
<1>1. Ordered /\ LongestKept /\ history \in Seq(Entry)
  BY DEF ModuleInv, StatisticsKept
<1> DEFINE P == GetTopThreeDecryptionDurations
           D == Durations(history)
<1> SUFFICES ASSUME NEW x \in 1..INT32_MAX
             PROVE  Between(P, x, INT32_MAX) = Min({3, Between(D, x, INT32_MAX)})
  BY DEF TopThreeIsTrue, GetDumpInfo, TOP_THREE_SIZE
<1>2. x \in Int32 /\ x \in Int /\ 0 \notin x..INT32_MAX
  BY DEF Int32
<1>3. Between(P, x, INT32_MAX) = AtLeast(topThree, x)
  <2>1. PICK n \in 0..3 : DOMAIN topThree = 1..n
    <3>1. PICK n \in Nat : n = Len(topThree)
      BY <1>1 DEF Ordered
    <3> QED BY <1>1, <3>1 DEF Ordered
  <2>2. \A i \in 1..n : topThree[i] \in Int32
    BY <1>1, <2>1 DEF Ordered
  <2>3. /\ DOMAIN P = 1..3
        /\ \A i \in 1..3 : P[i] = IF i \in 1..n THEN AsUnsigned(topThree[i]) ELSE 0
    BY <2>1 DEF GetTopThreeDecryptionDurations, TOP_THREE_SIZE
  <2> HIDE DEF P
  <2>4. ASSUME NEW i \in 1..n
        PROVE  topThree[i] >= x <=> P[i] \in x..INT32_MAX
    <3>1. i \in 1..3 /\ P[i] = AsUnsigned(topThree[i])
      BY <2>1, <2>3
    <3>2. topThree[i] \in Int32
      BY <2>2
    <3>3. topThree[i] >= x <=> AsUnsigned(topThree[i]) \in x..INT32_MAX
      BY <3>2, Converted, Zenon
    <3> QED BY <3>1, <3>3, Zenon
  <2>5. {i \in DOMAIN P : P[i] \in x..INT32_MAX} = {i \in DOMAIN topThree : topThree[i] >= x}
    BY <1>2, <2>1, <2>3, <2>4
  <2> QED BY <2>5, Zenon DEF Between, AtLeast
<1>4. Between(D, x, INT32_MAX) = AtLeast(Pushed(history), x)
  <2>1. \A i \in DOMAIN history : history[i].duration \in Duration
    <3>1. \A i \in DOMAIN history : history[i] \in Entry
      BY <1>1
    <3> QED BY <3>1 DEF Entry
  <2>2. \A i \in DOMAIN history :
          AsInt(history[i].duration) >= x <=> history[i].duration \in x..INT32_MAX
    BY <2>1, Converted
  <2>3. {i \in DOMAIN D : D[i] \in x..INT32_MAX}
          = {i \in DOMAIN Pushed(history) : Pushed(history)[i] >= x}
    BY <2>2 DEF Durations, Pushed
  <2> QED BY <2>3, Zenon DEF Between, AtLeast
<1>5. AtLeast(topThree, x)
        = LET n == AtLeast(Pushed(history), x) IN IF n <= 3 THEN n ELSE 3
  BY <1>1, <1>2 DEF LongestKept
<1>6. AtLeast(Pushed(history), x) \in Nat
  <2>1. PICK d \in Duration : [duration |-> d, ok |-> TRUE] \in Entry
    BY DEF Entry
  <2> QED BY <1>1, <1>2, <2>1, AtLeastNext, Zenon
<1>7. ASSUME NEW n \in Nat PROVE Min({3, n}) = IF n <= 3 THEN n ELSE 3
  BY DEF Min
<1> HIDE DEF P, D
<1> QED BY <1>3, <1>4, <1>5, <1>6, <1>7

LEMMA ReportTold == ASSUME ModuleInv PROVE ReportIsTrue
<1> USE DecryptAssumption, Numbers
<1> SUFFICES ASSUME Reported
             PROVE  ReportDecryptionStatisticsEvent =
                      <<Len(Recent(history)),
                        Total(Durations(Recent(history))) \div Len(Recent(history)),
                        Max(Range(Durations(history)))>>
  BY DEF ReportIsTrue
<1>1. SumsKept /\ MaximumKept /\ history \in Seq(Entry)
  BY DEF ModuleInv, StatisticsKept
<1>2. Len(Recent(history)) = decryptTimes
  <2>1. decryptTimes \in Nat /\ Len(history) \in Nat
    BY <1>1 DEF ModuleInv, DecryptionIsSafe, ModuleTypes
  <2>2. Counted(history) \in 0..Len(history)
    BY <1>1, <2>1 DEF SumsKept
  <2>3. Len(Recent(history)) = Counted(history)
    BY <1>1, <2>2, RecentIs, Zenon
  <2> QED BY <1>1, <2>3 DEF SumsKept
<1>3. decryptSumDuration = Total(Durations(Recent(history)))
  BY <1>1 DEF SumsKept
<1>4. history # <<>>
  <2>1. decryptTimes >= 1 /\ decryptTimes = Counted(history)
    BY <1>1 DEF Reported, SumsKept, ModuleInv, DecryptionIsSafe, ModuleTypes
  <2> QED BY <2>1 DEF Counted
<1>5. Max(Range(Durations(history))) = decryptMaxDuration
  <2>1. /\ decryptMaxDuration \in Range(Durations(history))
        /\ \A y \in Range(Durations(history)) : y <= decryptMaxDuration
    BY <1>1, <1>4 DEF MaximumKept
  <2>2. Range(Durations(history)) \subseteq Nat
    <3>1. \A y \in Range(Durations(history)) : y \in Duration
      BY <1>1, DurationsLast, Zenon
    <3> QED BY <3>1
  <2>3. ASSUME NEW S \in SUBSET Nat, NEW m \in S, \A y \in S : y <= m PROVE Max(S) = m
    <3>1. \A y \in S : m >= y
      BY <2>3
    <3>2. Max(S) \in S /\ \A y \in S : Max(S) >= y
      BY <3>1, Zenon DEF Max
    <3>3. PICK n \in S : n = Max(S)
      BY <3>2
    <3>4. m <= n /\ n <= m /\ n \in Nat
      BY <2>3, <3>2, <3>3
    <3> QED BY <3>3, <3>4
  <2>4. Range(Durations(history)) \in SUBSET Nat
    BY <2>2
  <2> QED BY <2>1, <2>3, <2>4, Zenon
<1> QED BY <1>2, <1>3, <1>5 DEF ReportDecryptionStatisticsEvent

(* The inductive invariant of the decryption module.                       *)
THEOREM ModuleInvariance == ModuleSpec => []ModuleInv
<1>1. ModuleInv /\ [ModuleNext]_moduleVars => ModuleInv'
  BY SafeStep, StatisticsKeptByAll DEF ModuleInv
<1> QED BY <1>1, ModuleInitInv, PTL DEF ModuleSpec

(* The module is not released under a decryption, decryptions follow one   *)
(* another, and until it is released every descriptor is closed            *)
(* (DecryptMediaData, Release).                                            *)
THEOREM DecryptionCorrect == ModuleSpec => []DecryptionIsSafe
<1>1. ModuleInv => DecryptionIsSafe
  BY DEF ModuleInv
<1> QED BY <1>1, ModuleInvariance, PTL

(* What GetDumpInfo and ReportDecryptionStatisticsEvent say of the         *)
(* decryptions is so, however many there were, for any durations and any   *)
(* UINT32_MAX at which the number starts again.                            *)
THEOREM StatisticsCorrect == ModuleSpec => []StatisticsAreTrue
<1>1. ModuleInv => StatisticsAreTrue
  BY TopThreeTold, ReportTold
     DEF StatisticsAreTrue, GetDumpInfo, ModuleInv, StatisticsKept, SumsKept
<1> QED BY <1>1, ModuleInvariance, PTL

=============================================================================
