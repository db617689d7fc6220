------------------------- MODULE ServiceConnection -------------------------
(***************************************************************************)
(* How a client process reaches the DRM service: the proxy it caches, the  *)
(* death recipient and the listener it sets up with it, and the            *)
(* reconnection after the service died                                     *)
(* (frameworks/native/drm/media_key_system_factory_impl.cpp).              *)
(*                                                                         *)
(* GetServiceProxy runs under serviceProxyMutex_ from its first line to    *)
(* its last, but every step of it talks to another process, which may die  *)
(* between two of them; so each of these steps is an action, and "owner"   *)
(* is the thread that has the lock meanwhile.  It is called by the         *)
(* operations of the application and by the handlers of death notices,     *)
(* which carry the name of their recipient.                                *)
(*                                                                         *)
(* What refers to a service process is "live" or "dead": a process that    *)
(* died does not come back, the next one is another.                       *)
(***************************************************************************)
EXTENDS Integers, FiniteSets

CONSTANTS
  Call,         \* calls of the application's threads
  Recipient,    \* the DrmDeathRecipient objects, recycled when nothing holds them
  RETRY_TIMES,
  MaxDeaths,    \* bound: how often the service dies
  MaxRefusals,  \* bound: how often a live service refuses the listener
  None

Caller == Call \cup Recipient

ASSUME ConnectionAssumption ==
  /\ Call \cap Recipient = {}
  /\ None \notin Caller \cup {"live", "dead"}
  /\ RETRY_TIMES \in Nat \ {0}
  /\ MaxDeaths \in Nat
  /\ MaxRefusals \in Nat

VARIABLES
  proxy,            \* privateServiceProxy_
  deathRecipient_,
  owner,            \* the thread in serviceProxyMutex_
  object,           \* the remote object its GetServiceProxy looks at
  candidate,        \* the recipient it has attached to that object
  pc,               \* where each caller is
  retry,            \* attempts a handler has left
  attached,         \* recipients attached to the running service
  notices,          \* recipients of a dead service, not told yet
  listening,        \* the running service has a listener of this client
  deaths, refusals, \* count what MaxDeaths and MaxRefusals bound
  strays            \* attempts that failed and left their recipient behind

memberVars == <<proxy, deathRecipient_>>
attemptVars == <<owner, object, candidate>>
serviceVars == <<attached, notices, listening, deaths, refusals>>
vars == <<memberVars, attemptVars, pc, retry, serviceVars, strays>>

Init ==
  /\ proxy = None /\ deathRecipient_ = None
  /\ owner = None /\ object = None /\ candidate = None
  /\ pc = [t \in Caller |-> "idle"]
  /\ retry = [r \in Recipient |-> 0]
  /\ attached = {} /\ notices = {} /\ listening = FALSE
  /\ deaths = 0 /\ refusals = 0 /\ strays = 0

-----------------------------------------------------------------------------
(* GetServiceProxy. *)

(* With a proxy an operation calls the service; a handler has reconnected. *)
Got(t) == pc' = [pc EXCEPT ![t] = IF t \in Call THEN "operation" ELSE "idle"]

(* Without one an operation fails; a handler tries again while it may.     *)
NoProxy(t) ==
  pc' = [pc EXCEPT ![t] = IF t \in Recipient /\ retry[t] > 0 THEN "sleep" ELSE "idle"]

(* Mutant: the lock is not given back. *)
KeepLock == owner' = owner /\ object' = None /\ candidate' = None

EndAttempt == owner' = None /\ object' = None /\ candidate' = None

(* Mutant: the cached proxy is not looked at. *)
NeverCached == FALSE

Cached == proxy # None

ReturnCached(t) ==
  /\ pc[t] = "connect"
  /\ owner = None
  /\ Cached
  /\ Got(t)
  /\ UNCHANGED <<memberVars, attemptVars, retry, serviceVars, strays>>

(* CheckSystemAbility finds the service, or LoadSystemAbility starts it.   *)
LoadSystemAbility(t) ==
  /\ pc[t] = "connect"
  /\ owner = None
  /\ ~ Cached
  /\ owner' = t
  /\ object' = "live"
  /\ pc' = [pc EXCEPT ![t] = "watch"]
  /\ UNCHANGED <<memberVars, candidate, retry, serviceVars, strays>>

(* No ability manager, no object in time, or no interface behind it.       *)
LoadFails(t) ==
  /\ pc[t] = "connect"
  /\ owner = None
  /\ ~ Cached
  /\ NoProxy(t)
  /\ UNCHANGED <<memberVars, attemptVars, retry, serviceVars, strays>>

Unheld(r) ==
  /\ r \notin attached \cup notices
  /\ r # deathRecipient_
  /\ pc[r] = "idle"

AddDeathRecipient(t) ==
  /\ owner = t
  /\ pc[t] = "watch"
  /\ object = "live"
  /\ \E r \in Recipient :
       /\ Unheld(r)
       /\ candidate' = r
       /\ attached' = attached \cup {r}
  /\ pc' = [pc EXCEPT ![t] = "listen"]
  /\ UNCHANGED <<memberVars, owner, object, retry, notices, listening, deaths, refusals,
                 strays>>

(* Refused by a dead object, or not allocated.                             *)
AddDeathRecipientFails(t) ==
  /\ owner = t
  /\ pc[t] = "watch"
  /\ EndAttempt
  /\ NoProxy(t)
  /\ UNCHANGED <<memberVars, retry, serviceVars, strays>>

SetListenerObject(t) ==
  /\ owner = t
  /\ pc[t] = "listen"
  /\ object = "live"
  /\ listening' = TRUE
  /\ pc' = [pc EXCEPT ![t] = "publish"]
  /\ UNCHANGED <<memberVars, attemptVars, retry, attached, notices, deaths, refusals,
                 strays>>

(* The service is dead or refuses, which it may do after it erased the     *)
(* listener it had; the recipient stays where it is.                       *)
SetListenerFails(t) ==
  /\ owner = t
  /\ pc[t] = "listen"
  /\ \/ object = "dead" /\ UNCHANGED <<listening, refusals>>
     \/ /\ object = "live" /\ refusals < MaxRefusals
        /\ refusals' = refusals + 1
        /\ listening' \in {listening, FALSE}
  /\ strays' = strays + 1
  /\ EndAttempt
  /\ NoProxy(t)
  /\ UNCHANGED <<memberVars, retry, attached, notices, deaths>>

(* Mutant: the recipient is not kept. *)
PublishProxyOnly(t) ==
  /\ owner = t
  /\ pc[t] = "publish"
  /\ proxy' = object
  /\ Got(t)
  /\ EndAttempt
  /\ UNCHANGED <<deathRecipient_, retry, serviceVars, strays>>

Publish(t) ==
  /\ owner = t
  /\ pc[t] = "publish"
  /\ proxy' = object
  /\ deathRecipient_' = candidate
  /\ Got(t)
  /\ EndAttempt
  /\ UNCHANGED <<retry, serviceVars, strays>>

-----------------------------------------------------------------------------
(* The operations of the application: IsMediaKeySystemSupported,           *)
(* GetMediaKeySystems, GetMediaKeySystemUuid and CreateMediaKeySystem each *)
(* ask for the proxy and call the service with the copy they got, which no *)
(* later step of the connection takes from them.                           *)

Operation(t) ==
  /\ pc[t] = "idle"
  /\ pc' = [pc EXCEPT ![t] = "connect"]
  /\ UNCHANGED <<memberVars, attemptVars, retry, serviceVars, strays>>

OperationReturns(t) ==
  /\ pc[t] = "operation"
  /\ pc' = [pc EXCEPT ![t] = "idle"]
  /\ UNCHANGED <<memberVars, attemptVars, retry, serviceVars, strays>>

-----------------------------------------------------------------------------
(* The death of the service. *)

Dead(o) == IF o = "live" THEN "dead" ELSE o

ServiceDies ==
  /\ deaths < MaxDeaths
  /\ deaths' = deaths + 1
  /\ proxy' = Dead(proxy)
  /\ object' = Dead(object)
  /\ notices' = notices \cup attached
  /\ attached' = {}
  /\ listening' = FALSE
  /\ UNCHANGED <<deathRecipient_, owner, candidate, pc, retry, refusals, strays>>

(* Mutant: the proxy is kept. *)
KeepProxy(r) ==
  /\ r \in notices
  /\ owner = None
  /\ notices' = notices \ {r}
  /\ pc' = [pc EXCEPT ![r] = "sleep"]
  /\ retry' = [retry EXCEPT ![r] = RETRY_TIMES]
  /\ UNCHANGED <<memberVars, attemptVars, attached, listening, deaths, refusals, strays>>

(* Whatever recipient the notice came through, the current proxy goes, and *)
(* its own recipient is detached from it.                                  *)
MediaKeySystemFactoryServerDied(r) ==
  /\ r \in notices
  /\ owner = None
  /\ notices' = notices \ {r}
  /\ attached' = IF proxy = "live" THEN attached \ {deathRecipient_} ELSE attached
  /\ proxy' = None
  /\ deathRecipient_' = None
  /\ pc' = [pc EXCEPT ![r] = "sleep"]
  /\ retry' = [retry EXCEPT ![r] = RETRY_TIMES]
  /\ UNCHANGED <<attemptVars, listening, deaths, refusals, strays>>

Retry(r) ==
  /\ pc[r] = "sleep"
  /\ retry[r] > 0
  /\ retry' = [retry EXCEPT ![r] = @ - 1]
  /\ pc' = [pc EXCEPT ![r] = "connect"]
  /\ UNCHANGED <<memberVars, attemptVars, serviceVars, strays>>

-----------------------------------------------------------------------------

Connect(t) ==
  \/ ReturnCached(t) \/ LoadSystemAbility(t) \/ AddDeathRecipient(t)
  \/ SetListenerObject(t) \/ Publish(t)

AttemptFails(t) == LoadFails(t) \/ AddDeathRecipientFails(t) \/ SetListenerFails(t)

Next ==
  \/ \E t \in Caller : Connect(t) \/ AttemptFails(t)
  \/ \E t \in Call : Operation(t) \/ OperationReturns(t)
  \/ \E r \in Recipient : MediaKeySystemFactoryServerDied(r) \/ Retry(r)
  \/ ServiceDies

Spec == Init /\ [][Next]_vars

(* Threads run, the kernel delivers notices, the service answers: an       *)
(* attempt under way succeeds or fails, and who waits for a free           *)
(* serviceProxyMutex_ gets it.  Nothing makes the application call.        *)
FairSpec ==
  /\ Spec
  /\ \A t \in Caller : WF_vars(Connect(t) \/ AttemptFails(t))
  /\ \A t \in Call : WF_vars(OperationReturns(t))
  /\ \A r \in Recipient :
       WF_vars(MediaKeySystemFactoryServerDied(r)) /\ WF_vars(Retry(r))

-----------------------------------------------------------------------------
(* Properties. *)

(* The types; serviceProxyMutex_ belongs to a thread exactly while it is   *)
(* past the lookup, and only then there is an attempt.                     *)
TypeOK ==
  /\ proxy \in {None, "live", "dead"}
  /\ deathRecipient_ \in Recipient \cup {None}
  /\ owner \in Caller \cup {None}
  /\ object \in {None, "live", "dead"}
  /\ candidate \in Recipient \cup {None}
  /\ pc \in [Caller -> {"idle", "connect", "watch", "listen", "publish", "operation",
                        "sleep"}]
  /\ retry \in [Recipient -> 0..RETRY_TIMES]
  /\ attached \subseteq Recipient
  /\ notices \subseteq Recipient
  /\ listening \in BOOLEAN
  /\ deaths \in 0..MaxDeaths
  /\ refusals \in 0..MaxRefusals
  /\ strays \in Nat
  /\ \A t \in Caller : pc[t] \in {"watch", "listen", "publish"} <=> owner = t

(* A proxy never outlives its service unnoticed: the recipient published   *)
(* with it is attached to the running service, which has the client's      *)
(* listener, or the notice that takes the dead proxy away is on its way -  *)
(* also when the service died in the middle of GetServiceProxy, and        *)
(* whatever recipients failed attempts left behind.                        *)
ProxyIsWatched ==
  /\ proxy = "live" => deathRecipient_ \in attached /\ listening
  /\ proxy = "dead" => deathRecipient_ \in notices

(* A proxy that works is taken away only after an attempt had failed       *)
(* behind AddDeathRecipient (lines 88-90): the recipient it left reports   *)
(* the death of a service that is no longer the one in use.                *)
WorkingProxyKept == [][(proxy = "live" /\ proxy' = None) => strays > 0]_vars

(* Once the service stays up and no attempt fails, a client that goes on   *)
(* calling is connected for good: the notices of recipients left behind    *)
(* come to an end, and no thread keeps the lock.                           *)
StaysConnected ==
  /\ <>[][~ (ServiceDies \/ \E t \in Caller : AttemptFails(t))]_vars
  /\ []<>(\E t \in Call : pc[t] # "idle")
  => <>[](proxy = "live")

=============================================================================
