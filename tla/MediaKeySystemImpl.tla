------------------------- MODULE MediaKeySystemImpl -------------------------
(***************************************************************************)
(* The client's half of a key system or of a key session: the proxy of the *)
(* service's object under mutex_, the death recipient, and the callback    *)
(* object whose thread hands the events to the application                 *)
(* (frameworks/native/drm/media_key_system_impl.cpp, key_session_impl.cpp).*)
(*                                                                         *)
(* The two classes differ where isSession is read.  What the application   *)
(* does is read from the bindings: SetCallback once, when the object is    *)
(* made, by the thread that makes it; releases one after the other, no     *)
(* destruction under a call, and no release from within a callback.        *)
(***************************************************************************)
EXTENDS Integers, Sequences

CONSTANTS
  Call,         \* operations of the application
  Event,        \* what the service sends, each once
  MaxReleases,  \* bound: releases by the application before the destruction
  None

ASSUME ClientAssumption ==
  /\ {"set", "event", "release"} \cap (Call \cup {None}) = {}
  /\ None \notin Call
  /\ MaxReleases \in Nat

VARIABLES
  isSession,
  object,                \* the object itself
  mutex_,                \* who holds it over a call to the service
  serviceProxy_,         \* it has a proxy
  deathRecipient_,       \* it has one; the recipient is with the remote object
  serviceCallback_,      \* it has a callback object
  serviceThreadRunning,
  thread,                \* ProcessEventMessage
  eventQueue, localQueue,
  calls,
  release, releases,     \* Release; how many were begun
  service,               \* the service
  served,                \* its object is open
  known,                 \* it was given the callback
  sent,
  notice                 \* the death notice

clientVars == <<serviceProxy_, deathRecipient_>>
threadVars == <<thread, eventQueue, localQueue, sent>>
releaseVars == <<object, release, releases>>
remoteVars == <<service, served, known, notice>>
vars == <<isSession, mutex_, clientVars, serviceCallback_, serviceThreadRunning, threadVars,
          calls, releaseVars, remoteVars>>

(* The constructor; AddDeathRecipient may be refused.                      *)
Init ==
  /\ isSession \in BOOLEAN
  /\ object = "new"
  /\ mutex_ = None
  /\ serviceProxy_ = TRUE
  /\ deathRecipient_ \in {"attached", "detached"}
  /\ serviceCallback_ = FALSE /\ serviceThreadRunning = FALSE
  /\ thread = "off" /\ eventQueue = <<>> /\ localQueue = <<>> /\ sent = {}
  /\ calls = [c \in Call |-> "none"]
  /\ release = "none" /\ releases = 0
  /\ service = "up" /\ served = TRUE /\ known = FALSE /\ notice = "none"

Attached == deathRecipient_ = "attached"

(* RemoveDeathRecipient: a notice that was not begun is taken back.        *)
RemoveDeathRecipient ==
  /\ deathRecipient_' = "none"
  /\ notice' = IF notice = "pending" THEN "none" ELSE notice

-----------------------------------------------------------------------------
(* SetCallback and Init of the callback; the event thread runs before the  *)
(* service is told.                                                        *)

SetCallback ==
  /\ object = "new"
  /\ mutex_ = None
  /\ serviceCallback_' = TRUE
  /\ serviceThreadRunning' = TRUE
  /\ thread' = "top"
  /\ IF serviceProxy_ THEN object' = "setting" /\ mutex_' = "set"
                      ELSE object' = "live" /\ UNCHANGED mutex_
  /\ UNCHANGED <<isSession, clientVars, eventQueue, localQueue, sent, calls, release, releases,
                 remoteVars>>

SetCallbackReturns ==
  /\ object = "setting"
  /\ object' = "live"
  /\ mutex_' = None
  /\ known' \in {FALSE, service = "up"}
  /\ UNCHANGED <<isSession, clientVars, serviceCallback_, serviceThreadRunning, threadVars,
                 calls, release, releases, service, served, notice>>

-----------------------------------------------------------------------------
(* An operation: one call to the service under mutex_ ...                  *)
Operation(c) ==
  /\ object = "live"
  /\ calls[c] = "none"
  /\ mutex_ = None
  /\ serviceProxy_
  /\ mutex_' = c
  /\ calls' = [calls EXCEPT ![c] = "ipc"]
  /\ UNCHANGED <<isSession, clientVars, serviceCallback_, serviceThreadRunning, threadVars,
                 releaseVars, remoteVars>>

(* ... and none without a proxy.                                           *)
OperationRefused(c) ==
  /\ object = "live"
  /\ calls[c] = "none"
  /\ mutex_ = None
  /\ ~ serviceProxy_
  /\ calls' = [calls EXCEPT ![c] = "done"]
  /\ UNCHANGED <<isSession, mutex_, clientVars, serviceCallback_, serviceThreadRunning,
                 threadVars, releaseVars, remoteVars>>

OperationReturns(c) ==
  /\ mutex_ = c
  /\ mutex_' = None
  /\ calls' = [calls EXCEPT ![c] = "done"]
  /\ UNCHANGED <<isSession, clientVars, serviceCallback_, serviceThreadRunning, threadVars,
                 releaseVars, remoteVars>>

-----------------------------------------------------------------------------
(* Release: the event thread is joined before mutex_ is taken, since the   *)
(* application's callback may be waiting for it.                           *)

(* Mutant: with mutex_ held all along. *)
StopUnderLock ==
  /\ mutex_ = None
  /\ mutex_' = "release"
  /\ IF serviceCallback_ THEN serviceThreadRunning' = FALSE /\ release' = "join"
                         ELSE UNCHANGED serviceThreadRunning /\ release' = "lock"

(* Mutant: without the join. *)
StopWithoutJoin ==
  /\ UNCHANGED mutex_
  /\ serviceThreadRunning' = FALSE
  /\ release' = "lock"

StopEventThread ==
  /\ UNCHANGED mutex_
  /\ IF serviceCallback_ THEN serviceThreadRunning' = FALSE /\ release' = "join"
                         ELSE UNCHANGED serviceThreadRunning /\ release' = "lock"

Release ==
  /\ object = "live" /\ release = "none"
  /\ releases < MaxReleases
  /\ releases' = releases + 1
  /\ StopEventThread
  /\ UNCHANGED <<isSession, object, clientVars, serviceCallback_, threadVars, calls, remoteVars>>

(* The destructor calls Release, too. *)
Destroy ==
  /\ object = "live" /\ release = "none"
  /\ \A c \in Call : calls[c] # "ipc"
  /\ object' = "dying"
  /\ StopEventThread
  /\ UNCHANGED <<isSession, releases, clientVars, serviceCallback_, threadVars, calls, remoteVars>>

Joined ==
  /\ release = "join"
  /\ thread = "done"
  /\ serviceCallback_' = FALSE
  /\ release' = "lock"
  /\ UNCHANGED <<isSession, object, mutex_, releases, clientVars, serviceThreadRunning,
                 threadVars, calls, remoteVars>>

Finished ==
  /\ release' = "none"
  /\ object' = IF object = "dying" THEN "gone" ELSE object

(* Mutant: the recipient stays with the remote object. *)
KeepRecipient == UNCHANGED <<deathRecipient_, notice>>

RemoveOwnRecipient ==
  IF deathRecipient_ # "none" THEN RemoveDeathRecipient ELSE UNCHANGED <<deathRecipient_, notice>>

(* Mutant: the proxy is dropped and the service not called. *)
DropProxy ==
  /\ release = "lock"
  /\ mutex_ \in {None, "release"}
  /\ IF serviceProxy_
       THEN RemoveOwnRecipient /\ serviceProxy_' = FALSE
       ELSE UNCHANGED <<clientVars, notice>>
  /\ Finished
  /\ mutex_' = None
  /\ UNCHANGED <<isSession, releases, serviceCallback_, serviceThreadRunning, threadVars, calls,
                 service, served, known>>

(* mutex_ is recursive. *)
ReleaseProxy ==
  /\ release = "lock"
  /\ mutex_ \in {None, "release"}
  /\ IF serviceProxy_
       THEN /\ RemoveOwnRecipient
            /\ mutex_' = "release" /\ release' = "ipc"
            /\ UNCHANGED object
       ELSE /\ Finished
            /\ mutex_' = None
            /\ UNCHANGED <<deathRecipient_, notice>>
  /\ UNCHANGED <<isSession, releases, serviceProxy_, serviceCallback_, serviceThreadRunning,
                 threadVars, calls, service, served, known>>

(* The call fails when the service is dead; a key system keeps its proxy   *)
(* then, a key session does not, and the destructor drops it anyhow.       *)
KeptAfterError == ~ isSession /\ object # "dying"

ReleaseReturns ==
  /\ release = "ipc"
  /\ served' = FALSE
  /\ serviceProxy_' = (service = "dead" /\ KeptAfterError)
  /\ Finished
  /\ mutex_' = None
  /\ UNCHANGED <<isSession, releases, deathRecipient_, serviceCallback_, serviceThreadRunning,
                 threadVars, calls, service, known, notice>>

-----------------------------------------------------------------------------
(* The death of the service. *)

ServiceDies ==
  /\ service = "up"
  /\ service' = "dead"
  /\ served' = FALSE
  /\ notice' = IF Attached THEN "pending" ELSE notice
  /\ UNCHANGED <<isSession, object, mutex_, release, releases, clientVars, serviceCallback_,
                 serviceThreadRunning, threadVars, calls, known>>

OnRemoteDied ==
  /\ notice = "pending"
  /\ notice' = "begun"
  /\ UNCHANGED <<isSession, mutex_, clientVars, serviceCallback_, serviceThreadRunning,
                 threadVars, calls, releaseVars, service, served, known>>

(* A key system leaves its recipient when it has no proxy any more.        *)
MediaKeySystemServerDied ==
  /\ notice = "begun"
  /\ mutex_ = None
  /\ notice' = "handled"
  /\ serviceProxy_' = FALSE
  /\ deathRecipient_' = IF serviceProxy_ \/ isSession THEN "none" ELSE deathRecipient_
  /\ UNCHANGED <<isSession, mutex_, serviceCallback_, serviceThreadRunning, threadVars, calls,
                 releaseVars, service, served, known>>

-----------------------------------------------------------------------------
(* The events. *)

(* It arrives whatever became of the service and of the object since.      *)
SendEvent(e) ==
  /\ known
  /\ e \notin sent
  /\ sent' = sent \cup {e}
  /\ eventQueue' = Append(eventQueue, e)
  /\ UNCHANGED <<isSession, mutex_, clientVars, serviceCallback_, serviceThreadRunning, thread,
                 localQueue, calls, releaseVars, remoteVars>>

EventLoop ==
  /\ thread = "top"
  /\ thread' = IF serviceThreadRunning THEN "wait" ELSE "done"
  /\ UNCHANGED <<isSession, mutex_, clientVars, serviceCallback_, serviceThreadRunning,
                 eventQueue, localQueue, sent, calls, releaseVars, remoteVars>>

(* Mutant: the queue is copied and not swapped. *)
QueueCopied == eventQueue

RestOfQueue == <<>>

(* Mutant: the wait has no timeout, and the stop does not end it. *)
SomethingCame == eventQueue # <<>>

(* The wait ends with its timeout at the latest. *)
WaitEnds == TRUE

SwapQueue ==
  /\ thread = "wait"
  /\ WaitEnds
  /\ localQueue' = eventQueue
  /\ eventQueue' = RestOfQueue
  /\ thread' = "handle"
  /\ UNCHANGED <<isSession, mutex_, clientVars, serviceCallback_, serviceThreadRunning, sent,
                 calls, releaseVars, remoteVars>>

(* SendEventHandler and SendEventKeyChangedHandler, in the application.    *)
HandleEvent ==
  /\ thread = "handle"
  /\ localQueue # <<>>
  /\ localQueue' = Tail(localQueue)
  /\ thread' = "callback"
  /\ UNCHANGED <<isSession, mutex_, clientVars, serviceCallback_, serviceThreadRunning,
                 eventQueue, sent, calls, releaseVars, remoteVars>>

(* The application may call an operation from there, ...                   *)
CallbackCalls ==
  /\ thread = "callback"
  /\ thread' = "calling"
  /\ UNCHANGED <<isSession, mutex_, clientVars, serviceCallback_, serviceThreadRunning,
                 eventQueue, localQueue, sent, calls, releaseVars, remoteVars>>

CallbackOperation ==
  /\ thread = "calling"
  /\ mutex_ = None
  /\ IF serviceProxy_ THEN mutex_' = "event" /\ thread' = "ipc"
                      ELSE thread' = "handle" /\ UNCHANGED mutex_
  /\ UNCHANGED <<isSession, clientVars, serviceCallback_, serviceThreadRunning, eventQueue,
                 localQueue, sent, calls, releaseVars, remoteVars>>

CallbackOperationReturns ==
  /\ thread = "ipc"
  /\ mutex_' = None
  /\ thread' = "handle"
  /\ UNCHANGED <<isSession, clientVars, serviceCallback_, serviceThreadRunning, eventQueue,
                 localQueue, sent, calls, releaseVars, remoteVars>>

(* ... or return at once.                                                  *)
CallbackReturns ==
  /\ thread = "callback"
  /\ thread' = "handle"
  /\ UNCHANGED <<isSession, mutex_, clientVars, serviceCallback_, serviceThreadRunning,
                 eventQueue, localQueue, sent, calls, releaseVars, remoteVars>>

QueueHandled ==
  /\ thread = "handle"
  /\ localQueue = <<>>
  /\ thread' = "top"
  /\ UNCHANGED <<isSession, mutex_, clientVars, serviceCallback_, serviceThreadRunning,
                 eventQueue, localQueue, sent, calls, releaseVars, remoteVars>>

-----------------------------------------------------------------------------

EventThread ==
  \/ EventLoop \/ SwapQueue \/ HandleEvent \/ QueueHandled
  \/ CallbackCalls \/ CallbackOperation \/ CallbackOperationReturns \/ CallbackReturns

ReleaseThread == Joined \/ ReleaseProxy \/ ReleaseReturns

Next ==
  \/ SetCallback \/ SetCallbackReturns
  \/ \E c \in Call : Operation(c) \/ OperationRefused(c) \/ OperationReturns(c)
  \/ Release \/ Destroy \/ ReleaseThread
  \/ ServiceDies \/ OnRemoteDied \/ MediaKeySystemServerDied
  \/ \E e \in Event : SendEvent(e)
  \/ EventThread

Spec == Init /\ [][Next]_vars

(* Calls to the service return, and so do the application's callbacks; the *)
(* event thread and a release go on.                                       *)
FairSpec ==
  /\ Spec
  /\ WF_vars(SetCallbackReturns)
  /\ \A c \in Call : WF_vars(OperationReturns(c))
  /\ WF_vars(EventThread)
  /\ WF_vars(ReleaseThread)

-----------------------------------------------------------------------------
(* Properties. *)

Holder == Call \cup {None, "set", "event", "release"}

(* The types; no event is queued twice, so none reaches the application    *)
(* twice.                                                                  *)
TypeOK ==
  /\ isSession \in BOOLEAN
  /\ object \in {"new", "setting", "live", "dying", "gone"}
  /\ mutex_ \in Holder
  /\ serviceProxy_ \in BOOLEAN
  /\ deathRecipient_ \in {"attached", "detached", "none"}
  /\ serviceCallback_ \in BOOLEAN /\ serviceThreadRunning \in BOOLEAN
  /\ thread \in {"off", "top", "wait", "handle", "callback", "calling", "ipc", "done"}
  /\ eventQueue \in Seq(Event) /\ localQueue \in Seq(Event)
  /\ \A i \in 1..Len(eventQueue), j \in 1..Len(localQueue) : eventQueue[i] # localQueue[j]
  /\ calls \in [Call -> {"none", "ipc", "done"}]
  /\ release \in {"none", "join", "lock", "ipc"}
  /\ releases \in 0..MaxReleases
  /\ service \in {"up", "dead"} /\ served \in BOOLEAN /\ known \in BOOLEAN
  /\ sent \subseteq Event
  /\ notice \in {"none", "pending", "begun", "handled"}

(* The event thread reads the object through a bare pointer (systemImpl_): *)
(* the object is there as long as the thread is, and so is the callback    *)
(* object it runs in.                                                      *)
EventThreadIsSafe ==
  thread \notin {"off", "done"} => object # "gone" /\ serviceCallback_

(* The recipient has such a pointer too.  Once the object is gone no       *)
(* notice is sent through it, and none that was sent before begins.        *)
NoLateNotice == object = "gone" => ~ Attached /\ notice # "pending"

(* The event thread never uses what is destroyed, and no death notice      *)
(* begins after the destruction.  A notice that had begun before waits for *)
(* mutex_ without the object being kept for it, and may find it gone: that *)
(* is what the code does, and nothing here denies it.                      *)
NothingDangles == EventThreadIsSafe /\ NoLateNotice

(* An object that is gone leaves nothing open in a living service, though  *)
(* Release drops the proxy even after an error.                            *)
NothingLeftOpen == object = "gone" => ~ served

(* Release and the destructor return, whatever the event thread, the       *)
(* application's callback in it, other calls and the death notice do.      *)
ReleaseEnds == release # "none" ~> release = "none"

(* The events of a living object go the way EventChannel states.           *)
Undelivered == IF thread = "done" THEN <<>> ELSE localQueue \o eventQueue

Phase ==
  IF thread = "done" THEN "closed"
  ELSE IF thread # "off" /\ ~ serviceThreadRunning THEN "closing" ELSE "open"

Channel == INSTANCE EventChannel WITH queue <- Undelivered, state <- Phase

IsChannel == Channel!Spec

=============================================================================
