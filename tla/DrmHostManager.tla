--------------------------- MODULE DrmHostManager ---------------------------
(***************************************************************************)
(* The manager of the plugin hosts, for one lazily loaded plugin: it loads *)
(* the host on demand, counts the proxies in use, unloads the host some    *)
(* minutes after the last one went, and cleans up when the host dies       *)
(* (services/drm_service/server/src/drm_host_manager.cpp).                 *)
(*                                                                         *)
(* The maps of the code are indexed by the plugin name and its entries do  *)
(* not meet, so one plugin stands for all.  Every operation holds          *)
(* drmHostMapMutex from beginning to end and is one action, but for        *)
(* ClearDeathService, which gives it back before it calls the factory.     *)
(* The factory calls every operation with its own mutex_ held; while it    *)
(* closes the key systems of a dead host one by one ("burying") it calls   *)
(* nothing else.                                                           *)
(*                                                                         *)
(* Every HDI key system has a proxy of the host of its own, and every      *)
(* proxy a death recipient of its own: the host that dies sends one notice *)
(* for each recipient.  The proxy of a System carries its name.            *)
(***************************************************************************)
EXTENDS Integers, FiniteSets

CONSTANTS
  System,             \* HDI key systems, with their proxies
  NotLoadedMark,      \* 65536, the distance of NOT_LAZY_LOADDED from zero
  UnloadTime,         \* LAZY_UNLOAD_TIME_IN_MINUTES
  CheckTime,          \* LAZY_UNLOAD_TIME_CHECK_IN_MINUTES
  None

ASSUME HostAssumption ==
  /\ IsFiniteSet(System)
  /\ None \notin System
  /\ UnloadTime \in Nat \ {0}
  /\ CheckTime \in Nat \ {0}
  /\ NotLoadedMark \in Nat
  /\ NotLoadedMark > Cardinality(System)

NOT_LAZY_LOADDED == - NotLoadedMark

VARIABLES
  running,     \* the host process
  count,       \* lazyLoadPluginCountMap[name]
  timeout,     \* lazyLoadPluginTimeoutMap[name]
  named,       \* proxies in hdiMediaKeySystemFactoryAndPluginNameMap
  held,        \* key systems in hdiMediaKeySystemAndFactoryMap
  current,     \* those of them that live in the running host
  recipients,  \* death recipients attached to the running host
  notices,     \* death notices under way
  handlers,    \* ClearDeathService calls that gave the lock back
  burying,     \* the one that owns mutex_ of the factory
  V1_1,        \* the host has version 1.1 of the interface
  Faults       \* the host may die, a recipient be refused, a key system be
               \* null, an unload be refused

hostVars == <<running, count, timeout, named, held, current, recipients, notices,
              handlers, burying>>
given == <<V1_1, Faults>>    \* chosen once, by Init
vars == <<hostVars, given>>
deathVars == <<notices, handlers, burying>>
mapVars == <<named, held, current, recipients>>

Init ==
  /\ running = FALSE
  /\ count = NOT_LAZY_LOADDED
  /\ timeout = NOT_LAZY_LOADDED
  /\ named = {} /\ held = {} /\ current = {} /\ recipients = {}
  /\ notices = {} /\ handlers = {} /\ burying = None
  /\ V1_1 \in BOOLEAN /\ Faults \in BOOLEAN

-----------------------------------------------------------------------------
(* Counting. *)

(* LazyLoadPlugin starts to count anew when it has to load the host.       *)
Loaded == IF running THEN count ELSE 0

(* Only a proxy in the name map is counted off.                            *)
CountedOff(s) == IF s \in named THEN count - 1 ELSE count

(* The one that makes the counter zero starts the timer.                   *)
TimerAfter(s) == IF s \in named /\ CountedOff(s) = 0 THEN UnloadTime ELSE timeout

(* Mutant: the counter is not counted down. *)
KeepCount(s) ==
  /\ named' = named \ {s}
  /\ recipients' = IF V1_1 THEN recipients ELSE recipients \ {s}
  /\ count' = count
  /\ timeout' = TimerAfter(s)

(* The recipient of a 1.1 proxy is filed under the 1.0 proxy it was cast   *)
(* from, so it is not found and stays attached.                            *)
ReleaseSevices(s) ==
  /\ named' = named \ {s}
  /\ recipients' = IF V1_1 THEN recipients ELSE recipients \ {s}
  /\ count' = CountedOff(s)
  /\ timeout' = TimerAfter(s)

-----------------------------------------------------------------------------
(* Using the plugin.  GetServices loads the host if it does not run.       *)

Called == burying = None

Fresh(s) == s \notin named \cup held \cup recipients \cup notices \cup handlers

(* LoadDevice fails: there is no host at all, or none of the others        *)
(* supports the plugin, and then a counter of zero is timed.               *)
LoadFails ==
  /\ Called
  /\ ~ running
  /\ count = 0
  /\ timeout' \in {timeout, UnloadTime}
  /\ UNCHANGED <<running, count, mapVars, deathVars>>

(* The host does not support the plugin; one loaded for this call is timed.*)
Unsupported ==
  /\ Called
  /\ running' = TRUE
  /\ count' = Loaded
  /\ timeout' = IF ~ running THEN UnloadTime ELSE timeout
  /\ UNCHANGED <<mapVars, deathVars>>

(* AddDeathRecipient is refused: the call ends, and the host is not timed. *)
RecipientRefused ==
  /\ Called
  /\ Faults
  /\ running' = TRUE
  /\ count' = Loaded
  /\ UNCHANGED <<timeout, mapVars, deathVars>>

(* The three IsMediaKeySystemSupported and GetMediaKeySystemUuid: a proxy  *)
(* comes and goes.                                                         *)
Query ==
  /\ Called
  /\ running' = TRUE
  /\ count' = Loaded
  /\ timeout' = IF Loaded = 0 THEN UnloadTime ELSE timeout
  /\ UNCHANGED <<mapVars, deathVars>>

(* The HDI creates nothing: the proxy goes again.                          *)
CreateFails(s) ==
  /\ Called
  /\ Fresh(s)
  /\ running' = TRUE
  /\ count' = Loaded
  /\ timeout' = IF Loaded = 0 THEN UnloadTime ELSE timeout
  /\ recipients' = IF V1_1 THEN recipients \cup {s} ELSE recipients
  /\ UNCHANGED <<named, held, current, deathVars>>

CreateMediaKeySystem(s) ==
  /\ Called
  /\ Fresh(s)
  /\ running' = TRUE
  /\ count' = Loaded + 1
  /\ named' = named \cup {s}
  /\ recipients' = recipients \cup {s}
  /\ held' = held \cup {s}
  /\ current' = current \cup {s}
  /\ UNCHANGED <<timeout, deathVars>>

(* The HDI reports success and no key system: nobody can release it.       *)
CreateNull(s) ==
  /\ Called
  /\ Faults
  /\ Fresh(s)
  /\ running' = TRUE
  /\ count' = Loaded + 1
  /\ named' = named \cup {s}
  /\ recipients' = recipients \cup {s}
  /\ UNCHANGED <<timeout, held, current, deathVars>>

GiveBack(s) ==
  /\ s \in held
  /\ held' = held \ {s}
  /\ current' = current \ {s}
  /\ ReleaseSevices(s)
  /\ UNCHANGED <<running, deathVars>>

ReleaseMediaKeySystem(s) == Called /\ GiveBack(s)

-----------------------------------------------------------------------------
(* The host goes. *)

HostExits ==
  /\ running' = FALSE
  /\ current' = {}
  /\ notices' = notices \cup recipients
  /\ recipients' = {}

HostDies ==
  /\ Faults
  /\ running
  /\ HostExits
  /\ UNCHANGED <<count, timeout, named, held, handlers, burying>>

(* Mutant: the timer alone decides. *)
IgnoreCount == count > NOT_LAZY_LOADDED

Unused == count > NOT_LAZY_LOADDED /\ count <= 0

(* Mutant: the unload comes one check too late. *)
Overdue == timeout < CheckTime

Due == timeout <= CheckTime

(* The minutely check of the message thread; the minutes are not modelled, *)
(* it may come at any time.                                                *)
DelayedLazyUnLoad ==
  /\ Unused
  /\ timeout > NOT_LAZY_LOADDED
  /\ \/ /\ Due
        /\ count' = NOT_LAZY_LOADDED
        /\ timeout' = NOT_LAZY_LOADDED
        /\ \/ HostExits
           \/ Faults /\ UNCHANGED <<running, current, notices, recipients>>
     \/ /\ ~ Due
        /\ timeout' = timeout - CheckTime
        /\ UNCHANGED <<running, count, current, notices, recipients>>
  /\ UNCHANGED <<named, held, handlers, burying>>

(* A notice: whatever host runs now, the plugin is booked as not loaded.   *)
ClearDeathService(s) ==
  /\ s \in notices
  /\ notices' = notices \ {s}
  /\ handlers' = handlers \cup {s}
  /\ count' = NOT_LAZY_LOADDED
  /\ timeout' = NOT_LAZY_LOADDED
  /\ named' = {}
  /\ UNCHANGED <<running, held, current, recipients, burying>>

(* Mutant: the factory is not told. *)
TellNobody(s) ==
  /\ s \in handlers
  /\ handlers' = handlers \ {s}
  /\ UNCHANGED <<running, count, timeout, mapVars, notices, burying>>

(* The callback: the factory owns its mutex_ ...                           *)
OnDrmPluginDied(s) ==
  /\ Called
  /\ s \in handlers
  /\ burying' = s
  /\ UNCHANGED <<running, count, timeout, mapVars, notices, handlers>>

(* ... closes every key system of the plugin ...                           *)
Bury(s) == burying # None /\ GiveBack(s)

(* ... and returns.                                                        *)
Buried ==
  /\ burying # None
  /\ held = {}
  /\ handlers' = handlers \ {burying}
  /\ burying' = None
  /\ UNCHANGED <<running, count, timeout, mapVars, notices>>

-----------------------------------------------------------------------------

Use ==
  \/ LoadFails \/ Unsupported \/ RecipientRefused \/ Query
  \/ \E s \in System : CreateFails(s) \/ CreateMediaKeySystem(s) \/ CreateNull(s)

Next ==
  /\ \/ Use
     \/ \E s \in System : ReleaseMediaKeySystem(s)
     \/ HostDies
     \/ DelayedLazyUnLoad
     \/ \E s \in System : ClearDeathService(s) \/ OnDrmPluginDied(s) \/ Bury(s)
     \/ Buried
  /\ UNCHANGED given

Spec == Init /\ [][Next]_vars

(* The message thread checks every minute as long as it runs, a death      *)
(* notice is delivered and the thread that handles it goes on.             *)
FairSpec ==
  /\ Spec
  /\ WF_hostVars(DelayedLazyUnLoad)
  /\ \A s \in System : WF_hostVars(ClearDeathService(s))
  /\ \A s \in System : WF_hostVars(OnDrmPluginDied(s)) /\ WF_hostVars(Bury(s))
  /\ WF_hostVars(Buried)

-----------------------------------------------------------------------------
(* Properties. *)

(* The types: the counter never leaves the reach of zero and of             *)
(* NOT_LAZY_LOADDED by more than the proxies there are, and the timer is    *)
(* gone before it reaches zero.                                             *)
TypeOK ==
  /\ running \in BOOLEAN
  /\ count \in (NOT_LAZY_LOADDED - Cardinality(System)) .. Cardinality(System)
  /\ timeout \in {NOT_LAZY_LOADDED} \cup 1..UnloadTime
  /\ named \subseteq System
  /\ held \subseteq System
  /\ current \subseteq held
  /\ recipients \subseteq System
  /\ notices \subseteq System
  /\ handlers \subseteq System
  /\ burying \in handlers \cup {None}

(* Whenever all death notices are handled the counter is the number of     *)
(* proxies in use, or off by the whole of NOT_LAZY_LOADDED: a notice that  *)
(* came after the host was loaded again (line 91) moves it there, and the  *)
(* host is then never unloaded, rather than unloaded too early.            *)
CountMatches ==
  notices = {} =>
    count \in {Cardinality(named), NOT_LAZY_LOADDED + Cardinality(named)}

(* The host is not unloaded under a key system that lives in it, unless    *)
(* the death of an earlier host is still being dealt with: then counter    *)
(* and timer may belong to the dead one.                                   *)
UnloadedOnlyUnused ==
  [][(DelayedLazyUnLoad /\ ~ running' /\ notices \cup handlers = {})
       => current = {}]_vars

(* Without faults a host that nobody uses any more is unloaded, if it has  *)
(* version 1.0.  A recipient that stays attached to a host of version 1.1  *)
(* tells of the unloading, and when the host was loaded again by then its  *)
(* counter is booked as not loaded and its timer is lost.                  *)
UnusedIsUnloaded ==
  ~ Faults /\ ~ V1_1 => (<>[][~ Use]_hostVars => []<>(~ running \/ held # {}))

(* Every key system whose host is gone is given back by the factory.       *)
DeadSystemsReleased ==
  \A s \in System : (s \in held \ current) ~> (s \notin held)

=============================================================================
