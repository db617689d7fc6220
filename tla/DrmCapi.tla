------------------------------- MODULE DrmCapi -------------------------------
(***************************************************************************)
(* A handle of the C API from its creation to its destruction, and the     *)
(* object that takes the events of the native side to the two callbacks of *)
(* the application (interfaces/kits/c/drm_capi/common/native_drm_object.h, *)
(* frameworks/c/drm_capi).  A system copies its callbacks and calls them   *)
(* without the mutex, a session calls its own under it; side tells them    *)
(* apart.  The answers of the functions are those of CapiMethods.          *)
(*                                                                         *)
(* What the application does is read from the headers: it sets callbacks   *)
(* from any thread, from within a callback too; it destroys a handle while *)
(* no other thread is in a function with it, and not from a callback.      *)
(***************************************************************************)
EXTENDS CapiMethods

CONSTANTS
  Setter,       \* the calls that set a callback, each made once
  MaxEvents,    \* bound: events that arrive
  MaxDestroys,  \* bound: attempts to destroy the handle
  None

ASSUME CapiAssumption ==
  /\ None \notin Setter
  /\ "event" \notin Setter \cup {None}
  /\ MaxEvents \in Nat /\ MaxDestroys \in Nat

Style == {"old", "new"}   \* callback_; systemCallback_ or sessionCallback_

(* What a callback is registered for; "odd" is an event that has no entry  *)
(* in eventMap_, or a table of keys that does not fit.                     *)
Handled == {"event", "keys"}
Event == Handled \cup {"odd"}

VARIABLES
  side,
  handle,                \* the object of the application
  serviceProxy_,         \* the native object has its proxy
  watched,               \* a death recipient is attached
  service,
  destroy, destroys,     \* OH_..._Destroy; how many were begun
  serviceThreadRunning,
  thread,                \* the event thread of the native object
  event, events,         \* what it delivers; how many arrived
  mutex_,
  callback,              \* callback_ and its newer brother: who set them
  copy,                  \* callbackCopy, systemCallbackCopy
  called,                \* whose callback runs
  set                    \* the calls of the setters

nativeVars == <<serviceProxy_, watched, service>>
destroyVars == <<handle, destroy, destroys, serviceThreadRunning>>
threadVars == <<thread, event, events, copy, called>>
setterVars == <<callback, set>>
vars == <<side, nativeVars, destroyVars, threadVars, mutex_, setterVars>>

NotSet == [stage |-> "none", style |-> "old", events |-> {}, inside |-> FALSE]

NoCallback == [s \in Style |-> None]

Init ==
  /\ side \in {"system", "session"}
  /\ handle = "none"
  /\ serviceProxy_ = FALSE /\ watched = FALSE /\ service = "up"
  /\ destroy = "none" /\ destroys = 0 /\ serviceThreadRunning = FALSE
  /\ thread = "done" /\ event = "odd" /\ events = 0
  /\ mutex_ = None
  /\ callback = NoCallback /\ copy = NoCallback /\ called = None
  /\ set = [s \in Setter |-> NotSet]

(* Create and CreateMediaKeySession: the native object gets the callback   *)
(* object before the application has the handle, and its thread runs; a    *)
(* refused death recipient is no error.                                    *)
CreateHandle ==
  /\ handle = "none"
  /\ service = "up"
  /\ handle' = "live"
  /\ serviceProxy_' = TRUE
  /\ watched' \in BOOLEAN
  /\ serviceThreadRunning' = TRUE
  /\ thread' = "idle"
  /\ UNCHANGED <<side, service, destroy, destroys, event, events, copy, called, mutex_,
                 setterVars>>

-----------------------------------------------------------------------------
(* Setting a callback: on the application's thread, or from within the     *)
(* callback that runs.  Systems have no callback for keys.                 *)

InCallback == thread \in {"inOld", "inNew"}

Begin(s, style, handled, inside) ==
  /\ handle = "live"
  /\ set[s].stage = "none"
  /\ IF inside THEN InCallback /\ \A t \in Setter : ~ (set[t].inside /\ set[t].stage = "waits")
               ELSE destroy = "none"
  /\ side = "system" => handled = {"event"}
  /\ set' = [set EXCEPT ![s] = [stage |-> "waits", style |-> style, events |-> handled,
                                inside |-> inside]]
  /\ UNCHANGED <<side, nativeVars, destroyVars, threadVars, mutex_, callback>>

SetCallbackReference(s) ==
  /\ set[s].stage = "waits"
  /\ mutex_ = None
  /\ callback' = [callback EXCEPT ![set[s].style] = s]
  /\ set' = [set EXCEPT ![s].stage = "returned"]
  /\ UNCHANGED <<side, nativeVars, destroyVars, threadVars, mutex_>>

-----------------------------------------------------------------------------
(* The event thread. *)

(* What arrived before the stop is still delivered.                        *)
EventArrives(e) ==
  /\ thread = "idle"
  /\ events < MaxEvents
  /\ e = "keys" => side = "session"
  /\ thread' = "send" /\ event' = e /\ events' = events + 1
  /\ UNCHANGED <<side, nativeVars, destroyVars, copy, called, mutex_, setterVars>>

ThreadEnds ==
  /\ thread = "idle"
  /\ ~ serviceThreadRunning
  /\ thread' = "done"
  /\ UNCHANGED <<side, nativeVars, destroyVars, event, events, copy, called, mutex_, setterVars>>

Handles(c) == c # None /\ event \in set[c].events

Wanted == event # "odd" /\ \E s \in Style : Handles(callback[s])

(* Mutant: a session returns early with the mutex.                         *)
DroppedLocked ==
  /\ thread' = "idle"
  /\ mutex_' = IF side = "session" THEN "event" ELSE mutex_
  /\ UNCHANGED copy

Dropped ==
  /\ thread' = "idle"
  /\ UNCHANGED <<copy, mutex_>>

(* Mutant: a system calls its callbacks under the mutex, like a session.   *)
LockAlways ==
  /\ copy' = callback
  /\ mutex_' = "event"

(* A system copies them, a session keeps the mutex.                        *)
KeepCallbacks ==
  IF side = "system" THEN copy' = callback /\ UNCHANGED mutex_
                     ELSE mutex_' = "event" /\ UNCHANGED copy

SendEvent ==
  /\ thread = "send"
  /\ mutex_ = None
  /\ IF Wanted THEN thread' = "old" /\ KeepCallbacks ELSE Dropped
  /\ UNCHANGED <<side, nativeVars, destroyVars, event, events, called, setterVars>>

CallbackOf(style) == IF side = "session" /\ mutex_ = "event" THEN callback[style] ELSE copy[style]

(* The older callback first, then the newer one.                           *)
CallOld ==
  /\ thread = "old"
  /\ IF Handles(CallbackOf("old")) THEN thread' = "inOld" /\ called' = CallbackOf("old")
                                 ELSE thread' = "new" /\ UNCHANGED called
  /\ UNCHANGED <<side, nativeVars, destroyVars, event, events, copy, mutex_, setterVars>>

CallNew ==
  /\ thread = "new"
  /\ IF Handles(CallbackOf("new")) THEN thread' = "inNew" /\ called' = CallbackOf("new")
                                 ELSE thread' = "sent" /\ UNCHANGED called
  /\ UNCHANGED <<side, nativeVars, destroyVars, event, events, copy, mutex_, setterVars>>

CallbackReturns ==
  /\ InCallback
  /\ \A s \in Setter : ~ (set[s].inside /\ set[s].stage = "waits")
  /\ thread' = IF thread = "inOld" THEN "new" ELSE "sent"
  /\ called' = None
  /\ UNCHANGED <<side, nativeVars, destroyVars, event, events, copy, mutex_, setterVars>>

SendEventReturns ==
  /\ thread = "sent"
  /\ thread' = "idle"
  /\ mutex_' = IF mutex_ = "event" THEN None ELSE mutex_
  /\ copy' = NoCallback
  /\ UNCHANGED <<side, nativeVars, destroyVars, event, events, called, setterVars>>

-----------------------------------------------------------------------------
(* Destroying the handle: Release stops the thread and joins it, then asks *)
(* the service; only when that succeeds is the handle deleted.             *)

DestroyBegins ==
  /\ handle = "live"
  /\ destroy = "none"
  /\ destroys < MaxDestroys
  /\ \A s \in Setter : set[s].stage = "waits" => set[s].inside
  /\ destroy' = "join" /\ destroys' = destroys + 1
  /\ serviceThreadRunning' = FALSE
  /\ UNCHANGED <<side, nativeVars, handle, threadVars, mutex_, setterVars>>

(* Mutant: Release does not wait for the thread.                           *)
NotJoined == TRUE

Joined == thread = "done"

(* The service closes its object, or refuses, or is dead: a session then   *)
(* drops its proxy, a system keeps it.                                     *)
ReleaseProxy(ok) ==
  /\ ok => service = "up"
  /\ serviceProxy_' = (serviceProxy_ /\ ~ ok /\ side = "system")
  /\ watched' = FALSE
  /\ handle' = IF ok THEN "deleted" ELSE handle

Destroys ==
  /\ destroy = "join"
  /\ Joined
  /\ destroy' = "none"
  /\ IF serviceProxy_ THEN \E ok \in BOOLEAN : ReleaseProxy(ok)
                      ELSE UNCHANGED <<handle, serviceProxy_, watched>>
  /\ UNCHANGED <<side, service, destroys, serviceThreadRunning, threadVars, mutex_, setterVars>>

-----------------------------------------------------------------------------
(* The service. *)

ServiceDies ==
  /\ service = "up"
  /\ service' = "dead"
  /\ UNCHANGED <<side, serviceProxy_, watched, destroyVars, threadVars, mutex_, setterVars>>

ServerDied ==
  /\ service = "dead"
  /\ watched
  /\ serviceProxy_' = FALSE
  /\ watched' = FALSE
  /\ UNCHANGED <<side, service, destroyVars, threadVars, mutex_, setterVars>>

EventThread ==
  ThreadEnds \/ SendEvent \/ CallOld \/ CallNew \/ CallbackReturns \/ SendEventReturns

Next ==
  \/ CreateHandle
  \/ \E s \in Setter :
       \/ \E style \in Style, handled \in SUBSET Handled, inside \in BOOLEAN :
            Begin(s, style, handled, inside)
       \/ SetCallbackReference(s)
  \/ \E e \in Event : EventArrives(e)
  \/ EventThread
  \/ DestroyBegins
  \/ Destroys
  \/ ServiceDies
  \/ ServerDied

Spec == Init /\ [][Next]_vars

(* Threads run, callbacks and the service return, a mutex is handed on.    *)
FairSpec ==
  /\ Spec
  /\ WF_vars(EventThread)
  /\ WF_vars(Destroys)
  /\ \A s \in Setter : WF_vars(SetCallbackReference(s))

-----------------------------------------------------------------------------
(* Properties. *)

Calling == thread \in {"old", "inOld", "new", "inNew", "sent"}

(* The types; a session has the mutex exactly while it calls callbacks, a  *)
(* system has copies only then.                                            *)
TypeOK ==
  /\ side \in {"system", "session"}
  /\ handle \in {"none", "live", "deleted"}
  /\ serviceProxy_ \in BOOLEAN /\ watched \in BOOLEAN /\ service \in {"up", "dead"}
  /\ destroy \in {"none", "join"} /\ destroys \in 0..MaxDestroys
  /\ serviceThreadRunning \in BOOLEAN
  /\ thread \in {"idle", "send", "old", "inOld", "new", "inNew", "sent", "done"}
  /\ event \in Event /\ events \in 0..MaxEvents
  /\ mutex_ = IF Calling /\ side = "session" THEN "event" ELSE None
  /\ Calling \/ copy = NoCallback
  /\ callback \in [Style -> Setter \cup {None}]
  /\ copy \in [Style -> Setter \cup {None}]
  /\ called \in Setter \cup {None}
  /\ set \in [Setter -> [stage : {"none", "waits", "returned"}, style : Style,
                         events : SUBSET Handled, inside : BOOLEAN]]

(* A callback never runs with a handle that was deleted, though another    *)
(* thread may be destroying it; and a session never calls a callback that  *)
(* was replaced, whatever its setters do meanwhile.                        *)
CallbacksAreCurrent ==
  /\ thread \notin {"done"} => handle = "live"
  /\ InCallback /\ side = "session" =>
       called = callback[IF thread = "inOld" THEN "old" ELSE "new"]

(* No setter and no destruction waits for ever: for a system, although its *)
(* callbacks may set callbacks; for a session, whose mutex is held by the  *)
(* callback, as long as none does.                                         *)
CallsReturn ==
  (side = "system" \/ [](\A s \in Setter : ~ set[s].inside)) =>
    /\ \A s \in Setter : set[s].stage = "waits" ~> set[s].stage = "returned"
    /\ destroy = "join" ~> destroy = "none"

Questions == {"IsSupported", "IsSupported2", "IsSupported3"}

Unbound == Questions \cup {"GetMediaKeySystems", "Create"}

Setters == {"SetMediaKeySystemCallback", "SetCallback", "SetMediaKeySessionCallback",
            "Session_SetCallback"}

(* What the headers list for each function.                                *)
NoMemory ==
  {"GetConfigurationString", "SetConfigurationByteArray", "GetConfigurationByteArray",
   "GetStatistics", "GenerateKeySystemRequest", "CreateMediaKeySession",
   "GetOfflineMediaKeyIds", "GenerateMediaKeyRequest", "ProcessMediaKeyResponse",
   "CheckMediaKeyStatus", "GenerateOfflineReleaseRequest"}

Documented(m) ==
  IF m \in Questions THEN {"true", "false"}
  ELSE {"OK", "INVALID_VAL"}
         \cup (IF m \in Setters THEN {} ELSE {"UNKNOWN"})
         \cup (IF m \in NoMemory THEN {"NO_MEMORY"} ELSE {})
         \cup (IF m = "Create" THEN {"SERVICE_DIED", "MAX_SYSTEM_NUM_REACHED"} ELSE {})
         \cup (IF m = "CreateMediaKeySession" THEN {"SERVICE_DIED", "MAX_SESSION_NUM_REACHED"}
               ELSE {})

Refusal(m) == IF m \in Questions THEN {"false"} ELSE {"INVALID_VAL"}

(* Where INVALID_VAL also tells that the caller's memory is too small.     *)
Measured == {"GetConfigurationString", "GetConfigurationByteArray", "GetMediaKeySystems"}

Bad == {"null", "empty", "none", "over", "odd"}

Passed(a) == {a[i] : i \in DOMAIN a}

Wrong(m, h, a) == Passed(a) \cap Bad # {} \/ (h = "null" /\ m \notin Unbound)

(* The answer misleads the application: it does not say that the           *)
(* application was wrong, or says so when it was not, or it comes without  *)
(* the service.                                                            *)
Misleads(answer, m, h, a) ==
  \/ Wrong(m, h, a) /\ answer # Refusal(m)
  \/ ~ Wrong(m, h, a) /\ m \notin Measured /\ "INVALID_VAL" \in answer
  \/ h = "closed" /\ m \notin Unbound \cup Setters /\ "OK" \in answer

(* The handles with which some function would mislead the application.     *)
Misleading ==
  {h \in Handle : \E m \in DOMAIN Arguments : \E a \in Arguments[m] :
     Misleads(Answer(m, h, a), m, h, a)}

Code == {"true", "false", "OK", "INVALID_VAL", "UNKNOWN", "NO_MEMORY", "SERVICE_DIED",
         "MAX_SYSTEM_NUM_REACHED", "MAX_SESSION_NUM_REACHED"}

(* The answers that the header of their function does not list.            *)
Unlisted ==
  [h \in Handle |->
     {x \in (DOMAIN Arguments) \X Code :
        \E a \in Arguments[x[1]] : x[2] \in Answer(x[1], h, a) \ Documented(x[1])}]

(* The handles that an application may have now.                           *)
HandlesNow ==
  {"null"} \cup IF handle # "live" THEN {} ELSE {IF serviceProxy_ THEN "open" ELSE "closed"}

(* With a handle in any state each function answers INVALID_VAL exactly    *)
(* for what the application did wrong (three add a buffer that is too      *)
(* small), success never without the service, and nothing that its header  *)
(* does not list, with one exception: GetMediaKeySystems answers NO_MEMORY *)
(* for a name that does not fit (native_mediakeysystem.cpp:109), which     *)
(* native_mediakeysystem.h:95-99 does not list.                            *)
AnswersTellTheCause ==
  \A h \in HandlesNow :
    /\ h \notin Misleading
    /\ Unlisted[h] = {<<"GetMediaKeySystems", "NO_MEMORY">>}

=============================================================================
