----------------------- MODULE MediaKeySystemService -----------------------
(***************************************************************************)
(* One MediaKeySystem of the service and its MediaKeySessions, at the      *)
(* grain of their locks                                                    *)
(* (services/drm_service/server/src/mediakeysystem_service.cpp and         *)
(* key_session_service.cpp).                                               *)
(*                                                                         *)
(* Every call is a thread.  A call into the HDI takes time: it is a state  *)
(* of the thread, entered with the locks the code holds around it.  What a *)
(* thread does between taking a lock and the next thing another thread can *)
(* see is one action; callbackMutex_ guards single assignments, so it is   *)
(* part of the action that makes them.  The system is closed by its        *)
(* factory, once, with the mutex_ of the factory held; the dump of the     *)
(* factory holds that lock too.                                            *)
(***************************************************************************)
EXTENDS Integers, FiniteSets

CONSTANTS
  Thread,       \* the calls that are made; each makes one (a bound)
  Session,      \* the MediaKeySessionService objects ever allocated
  MaxSessions,  \* KEY_SESSION_INSTANCES_MAX_NUMBER
  None

ASSUME SessionAssumption ==
  /\ None \notin Thread
  /\ None \notin Session
  /\ MaxSessions \in Nat \ {0}

VARIABLES
  hdiKeySystem_,            \* the HDI key system is there (not nullptr)
  sessionsSet_,
  currentKeySessionNumber,
  created,                  \* sessions allocated so far
  hdiMediaKeySession_,      \* sessions whose HDI session is there
  sessionOperatorsCallback_,\* sessions that can still reach their system
  given,                    \* sessions whose proxy the client got
  releasedByClient,         \* sessions whose client called Release
  dropped,                  \* HDI sessions that got no service
  closing,                  \* the factory began to close the system
  pc, arg, todo,            \* of a thread: where it is, its session, the
                            \* sessions its loop has not seen yet
  mutex_, sessionsSetMutex_, sessionMutex_, factoryMutex_  \* owners of locks

locks == <<mutex_, sessionsSetMutex_, sessionMutex_, factoryMutex_>>
sessions == <<sessionsSet_, currentKeySessionNumber, created, hdiMediaKeySession_,
              sessionOperatorsCallback_, given, releasedByClient, dropped>>
vars == <<hdiKeySystem_, sessions, closing, pc, arg, todo, locks>>

Init ==
  /\ hdiKeySystem_ = TRUE
  /\ sessionsSet_ = {}
  /\ currentKeySessionNumber = 0
  /\ created = {}
  /\ hdiMediaKeySession_ = {}
  /\ sessionOperatorsCallback_ = {}
  /\ given = {}
  /\ releasedByClient = {}
  /\ dropped = {}
  /\ closing = FALSE
  /\ pc = [t \in Thread |-> "idle"]
  /\ arg = [t \in Thread |-> None]
  /\ todo = [t \in Thread |-> {}]
  /\ mutex_ = None
  /\ sessionsSetMutex_ = None
  /\ sessionMutex_ = [s \in Session |-> None]
  /\ factoryMutex_ = None

Goto(t, from, to) == pc[t] = from /\ pc' = [pc EXCEPT ![t] = to]

-----------------------------------------------------------------------------
(* CreateMediaKeySession: under mutex_ from the first check to the end. *)

(* Mutant: the limit is off by one. *)
RoomForOneTooMany == currentKeySessionNumber <= MaxSessions

RoomForSession == currentKeySessionNumber < MaxSessions

(* Mutant: the key system is not looked at. *)
CreateUnchecked(t) ==
  /\ mutex_ = None
  /\ Goto(t, "idle", "hdiCreate")
  /\ RoomForSession
  /\ mutex_' = t
  /\ UNCHANGED <<hdiKeySystem_, sessions, closing, arg, todo,
                 sessionsSetMutex_, sessionMutex_, factoryMutex_>>

CreateBegin(t) ==
  /\ mutex_ = None
  /\ hdiKeySystem_
  /\ RoomForSession
  /\ Goto(t, "idle", "hdiCreate")
  /\ mutex_' = t
  /\ UNCHANGED <<hdiKeySystem_, sessions, closing, arg, todo,
                 sessionsSetMutex_, sessionMutex_, factoryMutex_>>

CreateRefused(t) ==
  /\ mutex_ = None
  /\ ~ hdiKeySystem_ \/ ~ RoomForSession
  /\ Goto(t, "idle", "done")
  /\ UNCHANGED <<hdiKeySystem_, sessions, closing, arg, todo, locks>>

(* The HDI creates no session.                                             *)
HdiCreateFails(t) ==
  /\ Goto(t, "hdiCreate", "done")
  /\ mutex_' = None
  /\ UNCHANGED <<hdiKeySystem_, sessions, closing, arg, todo,
                 sessionsSetMutex_, sessionMutex_, factoryMutex_>>

FreshSessions == Session \ (created \cup dropped)

(* The HDI session exists, but there is no memory for its service: it is   *)
(* neither destroyed nor filed nor counted.                                *)
HdiCreateNoMemory(t) ==
  /\ Goto(t, "hdiCreate", "done")
  /\ \E s \in FreshSessions : dropped' = dropped \cup {s}
  /\ mutex_' = None
  /\ UNCHANGED <<hdiKeySystem_, sessionsSet_, currentKeySessionNumber, created,
                 hdiMediaKeySession_, sessionOperatorsCallback_, given,
                 releasedByClient, closing, arg, todo, sessionsSetMutex_,
                 sessionMutex_, factoryMutex_>>

HdiCreate(t, s) ==
  /\ Goto(t, "hdiCreate", "insert")
  /\ s \in FreshSessions
  /\ created' = created \cup {s}
  /\ hdiMediaKeySession_' = hdiMediaKeySession_ \cup {s}
  /\ sessionOperatorsCallback_' = sessionOperatorsCallback_ \cup {s}
  /\ arg' = [arg EXCEPT ![t] = s]
  /\ UNCHANGED <<hdiKeySystem_, sessionsSet_, currentKeySessionNumber, given,
                 releasedByClient, dropped, closing, todo, locks>>

(* Nobody reads the counter without mutex_, so it is counted here.         *)
CreateEnd(t) ==
  /\ sessionsSetMutex_ = None
  /\ Goto(t, "insert", "done")
  /\ sessionsSet_' = sessionsSet_ \cup {arg[t]}
  /\ currentKeySessionNumber' = currentKeySessionNumber + 1
  /\ given' = given \cup {arg[t]}
  /\ mutex_' = None
  /\ UNCHANGED <<hdiKeySystem_, created, hdiMediaKeySession_,
                 sessionOperatorsCallback_, releasedByClient, dropped, closing, arg,
                 todo, sessionsSetMutex_, sessionMutex_, factoryMutex_>>

-----------------------------------------------------------------------------
(* MediaKeySessionService::Release.  The client calls it once: its own     *)
(* mutex_ is held over the call and its proxy is gone after it             *)
(* (frameworks/native/drm/key_session_impl.cpp:67-91).                     *)

Release(t, s) ==
  /\ s \in given \ releasedByClient
  /\ Goto(t, "idle", IF s \in sessionOperatorsCallback_ THEN "close" ELSE "done")
  /\ arg' = [arg EXCEPT ![t] = s]
  /\ releasedByClient' = releasedByClient \cup {s}
  /\ UNCHANGED <<hdiKeySystem_, sessionsSet_, currentKeySessionNumber, created,
                 hdiMediaKeySession_, sessionOperatorsCallback_, given, dropped,
                 closing, todo, locks>>

CloseMediaKeySessionService(t) ==
  /\ mutex_ = None
  /\ Goto(t, "close", "destroySession")
  /\ mutex_' = t
  /\ sessionOperatorsCallback_' = sessionOperatorsCallback_ \ {arg[t]}
  /\ UNCHANGED <<hdiKeySystem_, sessionsSet_, currentKeySessionNumber, created,
                 hdiMediaKeySession_, given, releasedByClient, dropped, closing, arg,
                 todo, sessionsSetMutex_, sessionMutex_, factoryMutex_>>

(* Mutant: the HDI session is destroyed without sessionMutex_. *)
NoLock(s) == s \in Session

SessionUnlocked(s) == sessionMutex_[s] = None

DestroySession(t) ==
  /\ Goto(t, "destroySession", "erase")
  /\ SessionUnlocked(arg[t])
  /\ hdiMediaKeySession_' = hdiMediaKeySession_ \ {arg[t]}
  /\ UNCHANGED <<hdiKeySystem_, sessionsSet_, currentKeySessionNumber, created,
                 sessionOperatorsCallback_, given, releasedByClient, dropped, closing,
                 arg, todo, locks>>

(* Mutant: the counter is not counted down. *)
KeepNumber == currentKeySessionNumber

OneSessionLess ==
  IF currentKeySessionNumber > 0 THEN currentKeySessionNumber - 1
                                 ELSE currentKeySessionNumber

EraseSession(t) ==
  /\ sessionsSetMutex_ = None
  /\ Goto(t, "erase", "done")
  /\ sessionsSet_' = sessionsSet_ \ {arg[t]}
  /\ currentKeySessionNumber' = OneSessionLess
  /\ mutex_' = None
  /\ UNCHANGED <<hdiKeySystem_, created, hdiMediaKeySession_,
                 sessionOperatorsCallback_, given, releasedByClient, dropped, closing,
                 arg, todo, sessionsSetMutex_, sessionMutex_, factoryMutex_>>

-----------------------------------------------------------------------------
(* Any other operation: of the session under sessionMutex_, of the key     *)
(* system under mutex_; both are refused when the HDI object is gone.      *)

SessionOpBegin(t, s) ==
  /\ s \in given
  /\ SessionUnlocked(s)
  /\ s \in hdiMediaKeySession_
  /\ Goto(t, "idle", "sessionOp")
  /\ arg' = [arg EXCEPT ![t] = s]
  /\ sessionMutex_' = [sessionMutex_ EXCEPT ![s] = t]
  /\ UNCHANGED <<hdiKeySystem_, sessions, closing, todo,
                 mutex_, sessionsSetMutex_, factoryMutex_>>

SessionOpRefused(t, s) ==
  /\ s \in given \ hdiMediaKeySession_
  /\ SessionUnlocked(s)
  /\ Goto(t, "idle", "done")
  /\ UNCHANGED <<hdiKeySystem_, sessions, closing, arg, todo, locks>>

SessionOpEnd(t) ==
  /\ Goto(t, "sessionOp", "done")
  /\ sessionMutex_' = [sessionMutex_ EXCEPT ![arg[t]] = None]
  /\ UNCHANGED <<hdiKeySystem_, sessions, closing, arg, todo,
                 mutex_, sessionsSetMutex_, factoryMutex_>>

SystemOpBegin(t) ==
  /\ mutex_ = None
  /\ hdiKeySystem_
  /\ Goto(t, "idle", "systemOp")
  /\ mutex_' = t
  /\ UNCHANGED <<hdiKeySystem_, sessions, closing, arg, todo,
                 sessionsSetMutex_, sessionMutex_, factoryMutex_>>

SystemOpRefused(t) ==
  /\ mutex_ = None
  /\ ~ hdiKeySystem_
  /\ Goto(t, "idle", "done")
  /\ UNCHANGED <<hdiKeySystem_, sessions, closing, arg, todo, locks>>

SystemOpEnd(t) ==
  /\ Goto(t, "systemOp", "done")
  /\ mutex_' = None
  /\ UNCHANGED <<hdiKeySystem_, sessions, closing, arg, todo,
                 sessionsSetMutex_, sessionMutex_, factoryMutex_>>

-----------------------------------------------------------------------------
(* GetSessionsDumpInfo: every session of the set under its own lock, with  *)
(* sessionsSetMutex_ held over the whole loop.                             *)

DumpBegin(t) ==
  /\ ~ closing
  /\ factoryMutex_ = None
  /\ sessionsSetMutex_ = None
  /\ Goto(t, "idle", "dump")
  /\ factoryMutex_' = t
  /\ sessionsSetMutex_' = t
  /\ todo' = [todo EXCEPT ![t] = sessionsSet_]
  /\ UNCHANGED <<hdiKeySystem_, sessions, closing, arg, mutex_, sessionMutex_>>

DumpSession(t, s) ==
  /\ pc[t] = "dump"
  /\ s \in todo[t]
  /\ SessionUnlocked(s)
  /\ todo' = [todo EXCEPT ![t] = @ \ {s}]
  /\ UNCHANGED <<hdiKeySystem_, sessions, closing, pc, arg, locks>>

DumpEnd(t) ==
  /\ todo[t] = {}
  /\ Goto(t, "dump", "done")
  /\ sessionsSetMutex_' = None
  /\ factoryMutex_' = None
  /\ UNCHANGED <<hdiKeySystem_, sessions, closing, arg, todo, mutex_, sessionMutex_>>

-----------------------------------------------------------------------------
(* CloseMediaKeySystemServiceByCallback.  The sessions are closed under    *)
(* sessionsSetMutex_; it is given back before mutex_ is taken.             *)

CloseBegin(t) ==
  /\ ~ closing
  /\ factoryMutex_ = None
  /\ sessionsSetMutex_ = None
  /\ Goto(t, "idle", "closeAll")
  /\ closing' = TRUE
  /\ factoryMutex_' = t
  /\ sessionsSetMutex_' = t
  /\ UNCHANGED <<hdiKeySystem_, sessions, arg, todo, mutex_, sessionMutex_>>

CloseNext(t, s) ==
  /\ s \in sessionsSet_
  /\ Goto(t, "closeAll", "closeOne")
  /\ arg' = [arg EXCEPT ![t] = s]
  /\ sessionOperatorsCallback_' = sessionOperatorsCallback_ \ {s}
  /\ UNCHANGED <<hdiKeySystem_, sessionsSet_, currentKeySessionNumber, created,
                 hdiMediaKeySession_, given, releasedByClient, dropped, closing, todo,
                 locks>>

(* Mutant: the session is erased and not destroyed. *)
EraseOnly(t) ==
  /\ Goto(t, "closeOne", "closeAll")
  /\ SessionUnlocked(arg[t])
  /\ sessionsSet_' = sessionsSet_ \ {arg[t]}
  /\ UNCHANGED <<hdiKeySystem_, currentKeySessionNumber, created, hdiMediaKeySession_,
                 sessionOperatorsCallback_, given, releasedByClient, dropped, closing,
                 arg, todo, locks>>

CloseOne(t) ==
  /\ Goto(t, "closeOne", "closeAll")
  /\ SessionUnlocked(arg[t])
  /\ hdiMediaKeySession_' = hdiMediaKeySession_ \ {arg[t]}
  /\ sessionsSet_' = sessionsSet_ \ {arg[t]}
  /\ UNCHANGED <<hdiKeySystem_, currentKeySessionNumber, created,
                 sessionOperatorsCallback_, given, releasedByClient, dropped, closing,
                 arg, todo, locks>>

(* Mutant: sessionsSetMutex_ is kept until the key system is destroyed. *)
CloseKeepsSet(t) ==
  /\ sessionsSet_ = {}
  /\ Goto(t, "closeAll", "destroySystem")
  /\ UNCHANGED <<hdiKeySystem_, sessions, closing, arg, todo, locks>>

CloseUnlock(t) ==
  /\ sessionsSet_ = {}
  /\ Goto(t, "closeAll", "destroySystem")
  /\ sessionsSetMutex_' = None
  /\ UNCHANGED <<hdiKeySystem_, sessions, closing, arg, todo,
                 mutex_, sessionMutex_, factoryMutex_>>

DestroySystem(t) ==
  /\ mutex_ = None
  /\ Goto(t, "destroySystem", "done")
  /\ hdiKeySystem_' = FALSE
  /\ factoryMutex_' = None
  /\ UNCHANGED <<sessions, closing, arg, todo, mutex_, sessionsSetMutex_, sessionMutex_>>

-----------------------------------------------------------------------------

Start(t) ==
  \/ CreateBegin(t) \/ CreateRefused(t)
  \/ \E s \in Session : Release(t, s) \/ SessionOpBegin(t, s) \/ SessionOpRefused(t, s)
  \/ SystemOpBegin(t) \/ SystemOpRefused(t)
  \/ DumpBegin(t)
  \/ CloseBegin(t)

Continue(t) ==
  \/ HdiCreateFails(t) \/ HdiCreateNoMemory(t)
  \/ \E s \in Session : HdiCreate(t, s)
  \/ CreateEnd(t)
  \/ CloseMediaKeySessionService(t) \/ DestroySession(t) \/ EraseSession(t)
  \/ SessionOpEnd(t)
  \/ SystemOpEnd(t)
  \/ \E s \in Session : DumpSession(t, s)
  \/ DumpEnd(t)
  \/ \E s \in Session : CloseNext(t, s)
  \/ CloseOne(t) \/ CloseUnlock(t) \/ DestroySystem(t)

Terminated == (\A t \in Thread : pc[t] = "done") /\ UNCHANGED vars

Next == (\E t \in Thread : Start(t) \/ Continue(t)) \/ Terminated

Spec == Init /\ [][Next]_vars

(* A call that was let in goes on whenever it can: the HDI answers, and    *)
(* with finitely many calls nobody is starved of a mutex.                  *)
FairSpec == Spec /\ \A t \in Thread : WF_vars(Continue(t))

-----------------------------------------------------------------------------
(* Properties. *)

(* The types; the sessions of every table were allocated, and the counter   *)
(* stays within KEY_SESSION_INSTANCES_MAX_NUMBER and never goes negative.   *)
TypeOK ==
  /\ hdiKeySystem_ \in BOOLEAN
  /\ sessionsSet_ \subseteq created
  /\ currentKeySessionNumber \in 0..MaxSessions
  /\ created \subseteq Session
  /\ hdiMediaKeySession_ \subseteq created
  /\ sessionOperatorsCallback_ \subseteq created
  /\ given \subseteq created
  /\ releasedByClient \subseteq given
  /\ dropped \subseteq Session \ created
  /\ closing \in BOOLEAN
  /\ pc \in [Thread -> {"idle", "done", "hdiCreate", "insert", "close", "destroySession",
                        "erase", "sessionOp", "systemOp", "dump", "closeAll", "closeOne",
                        "destroySystem"}]
  /\ arg \in [Thread -> Session \cup {None}]
  /\ todo \in [Thread -> SUBSET Session]
  /\ mutex_ \in Thread \cup {None}
  /\ sessionsSetMutex_ \in Thread \cup {None}
  /\ sessionMutex_ \in [Session -> Thread \cup {None}]
  /\ factoryMutex_ \in Thread \cup {None}

(* No HDI object is called after it was destroyed: whoever waits for an    *)
(* answer of the key system or of a session finds it still there.          *)
UsedIsThere ==
  \A t \in Thread :
    /\ pc[t] \in {"hdiCreate", "systemOp"} => hdiKeySystem_
    /\ pc[t] = "sessionOp" => arg[t] \in hdiMediaKeySession_

Closes(t, s) == arg[t] = s /\ pc[t] \in {"close", "destroySession", "closeOne"}

Inserts(t, s) == arg[t] = s /\ pc[t] = "insert"

(* No HDI session that got a service is lost: as long as it is there its   *)
(* service is in sessionsSet_ or about to be, and a Release can still      *)
(* reach the system or somebody is closing it.  That includes the sessions *)
(* that slip in while the system is closed, though for those nobody but    *)
(* their client will do it.  The HDI sessions that got no service (dropped)*)
(* are lost: the code has no way to destroy them.                          *)
NothingLost ==
  \A s \in hdiMediaKeySession_ :
    /\ s \in sessionsSet_ \/ \E t \in Thread : Inserts(t, s)
    /\ s \in sessionOperatorsCallback_ \/ \E t \in Thread : Closes(t, s)

(* Until the system is closed the counter is exact whenever mutex_ is      *)
(* free: the check of line 250 counts the sessions that exist.             *)
CounterExact ==
  (~ closing /\ mutex_ = None) => currentKeySessionNumber = Cardinality(sessionsSet_)

(* The sessions are accounted for: none that got a service is lost, and    *)
(* the counter knows how many of them there are.                           *)
SessionsAccountedFor == NothingLost /\ CounterExact

(* Sessions that have a service are acquired and freed once, never beyond  *)
(* the maximum, and never after the key system was destroyed.              *)
Quota == INSTANCE InstanceQuota WITH
  Instance <- Session,
  Max <- MaxSessions,
  live <- hdiMediaKeySession_,
  freed <- created \ hdiMediaKeySession_,
  used <- {s \in Session : sessionMutex_[s] # None},
  shut <- ~ hdiKeySystem_

(* The closing, creating and releasing threads together keep that promise. *)
IsQuota == Quota!Spec

(* No call waits for ever for a lock: not the dump for a session, not the  *)
(* closing factory for a session or for mutex_, not a Release for them.    *)
EveryCallReturns ==
  \A t \in Thread : pc[t] # "idle" ~> pc[t] = "done"

=============================================================================
