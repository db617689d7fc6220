-------------------- MODULE MediaKeySystemFactoryService --------------------
(***************************************************************************)
(* The system ability of the DRM framework: it creates MediaKeySystem      *)
(* services for client processes, keeps them per pid, counts them per      *)
(* plugin, watches its clients and its plugins die, and lets itself be     *)
(* unloaded when idle                                                      *)
(* (services/drm_service/server/src/mediakeysystemfactory_service.cpp).    *)
(*                                                                         *)
(* Handlers run on IPC threads.  Everything done under mutex_ is one       *)
(* action.  Three handlers do something before they own mutex_ and are     *)
(* split there: CreateMediaKeySystem (it looks up the listener under       *)
(* factoryServiceMutex_ and releases that lock), Release (it promotes the  *)
(* callback of the system) and the client death handler (it keeps          *)
(* factoryServiceMutex_, modelled by "dying", while it waits for mutex_).  *)
(*                                                                         *)
(* What MediaKeySystemService and DrmHostManager do inside is abstracted:  *)
(* a system is open until CloseMediaKeySystemServiceByCallback has run,    *)
(* and the host manager holds a reference for each HDI key system it       *)
(* created and was not asked to release.                                   *)
(***************************************************************************)
EXTENDS Integers, FiniteSets

CONSTANTS
  Pid,           \* the client processes
  Plugin,        \* the names of the DRM plugins
  System,        \* the MediaKeySystemService objects ever allocated
  MaxSystems,    \* KEY_SYSTEM_INSTANCES_MAX_NUMBER
  MaxListeners,  \* MAX_LISTNER_NUM
  None

ASSUME FactoryAssumption ==
  /\ None \notin Pid
  /\ None \notin Plugin
  /\ MaxSystems \in Nat \ {0}
  /\ MaxListeners \in Nat \ {0}

VARIABLES
  mediaKeySystemForPid_,      \* pid -> its registered systems (a std::map)
  currentMediaKeySystemNum_,  \* plugin -> its counter (a std::map)
  clientListenerMap_,         \* pids with a listener and a recipient on file
  watched,                    \* those whose recipient is attached
  slighted,                   \* clients whose last SetListenerObject failed, or
                              \* whose recipient was refused, for the properties
  dying,                      \* the pid whose death handler owns factoryServiceMutex_
  pluginName,                 \* system -> statisticsInfo_.pluginName
  open,                       \* systems whose hdiKeySystem_ and callback are set
  hostRefs,                   \* systems the host manager still counts
  creating,                   \* CreateMediaKeySystem calls past the listener check
  releasing,                  \* Release calls that promoted the callback
  alive,                      \* client processes that run
  obituary,                   \* death notices not handled yet
  ability                     \* SystemAbilityState of this process

callVars == <<creating, releasing>>
listenerVars == <<clientListenerMap_, watched, slighted, dying>>
clientVars == <<alive, obituary>>
registryVars == <<mediaKeySystemForPid_, currentMediaKeySystemNum_, pluginName,
                  open, hostRefs>>
vars == <<registryVars, callVars, listenerVars, clientVars, ability>>

-----------------------------------------------------------------------------
(* Partial functions, the std::map of the code. *)

IsMap(f, S, T) == DOMAIN f \subseteq S /\ f \in [DOMAIN f -> T]

Put(f, k, v) == [x \in DOMAIN f \cup {k} |-> IF x = k THEN v ELSE f[x]]

Erase(f, k) == [x \in DOMAIN f \ {k} |-> f[x]]

Systems(p) ==
  IF p \in DOMAIN mediaKeySystemForPid_ THEN mediaKeySystemForPid_[p] ELSE {}

Num(n) ==
  IF n \in DOMAIN currentMediaKeySystemNum_ THEN currentMediaKeySystemNum_[n] ELSE 0

Registered == UNION {mediaKeySystemForPid_[p] : p \in DOMAIN mediaKeySystemForPid_}

Live(n) == {s \in open : pluginName[s] = n}

Init ==
  /\ mediaKeySystemForPid_ = [p \in {} |-> {}]
  /\ currentMediaKeySystemNum_ = [n \in {} |-> 0]
  /\ clientListenerMap_ = {}
  /\ watched = {}
  /\ slighted = {}
  /\ dying = None
  /\ pluginName = [s \in System |-> None]
  /\ open = {}
  /\ hostRefs = {}
  /\ creating = {}
  /\ releasing = {}
  /\ alive = Pid
  /\ obituary = {}
  /\ ability = "ACTIVE"

Running == ability # "STOPPED"

-----------------------------------------------------------------------------
(* Listeners and the unloading of an idle ability. *)

RoomForListener(others) == Cardinality(others) < MaxListeners

(* A client hands over its listener and the service watches it for death.  *)
(* The old entry of the client is gone, and its recipient taken off,       *)
(* before anything can fail: the table is full, or there is no memory for  *)
(* the recipient.  That the recipient is attached is not looked at.        *)
ListenerFiled(p) ==
  /\ RoomForListener(clientListenerMap_ \ {p})
  /\ clientListenerMap_' = clientListenerMap_ \cup {p}

ListenerWatched(p) ==
  /\ ListenerFiled(p)
  /\ watched' = watched \cup {p}
  /\ slighted' = slighted \ {p}

ListenerUnwatched(p) ==
  /\ ListenerFiled(p) \/ clientListenerMap_' = clientListenerMap_ \ {p}
  /\ watched' = watched \ {p}
  /\ slighted' = slighted \cup {p}

SetListenerObject(p) ==
  /\ Running
  /\ dying = None
  /\ p \in alive
  /\ ListenerWatched(p) \/ ListenerUnwatched(p)
  /\ UNCHANGED <<dying, registryVars, callVars, clientVars, ability>>

(* Mutant: the answer of CancelIdle is not looked at. *)
IgnoreCancelIdle(done) ==
  done /\ ability' \in IF ability = "IDLE" THEN {"IDLE", "ACTIVE"} ELSE {ability}

(* An operation under an idle ability first has the ability manager cancel *)
(* the idle state; if it refuses, the operation fails there (not done).    *)
CancelAbilityIdle(done) ==
  \/ done /\ ability' = IF ability = "IDLE" THEN "ACTIVE" ELSE ability
  \/ ~ done /\ ability = "IDLE" /\ UNCHANGED ability

(* IsMediaKeySystemSupported, GetMediaKeySystems, GetMediaKeySystemUuid:   *)
(* all that stays of them in this process is the cancelled idle state.     *)
Query ==
  /\ Running
  /\ \E done \in BOOLEAN : CancelAbilityIdle(done)
  /\ UNCHANGED <<registryVars, callVars, listenerVars, clientVars>>

(* The ability manager proposes to unload: accepted when no pid has an     *)
(* entry, an empty one included.                                           *)
OnIdle ==
  /\ ability = "ACTIVE"
  /\ DOMAIN mediaKeySystemForPid_ = {}
  /\ ability' = "IDLE"
  /\ UNCHANGED <<registryVars, callVars, listenerVars, clientVars>>

(* The ability manager stops an ability that is still idle.                *)
OnStop ==
  /\ ability = "IDLE"
  /\ ability' = "STOPPED"
  /\ UNCHANGED <<registryVars, callVars, listenerVars, clientVars>>

-----------------------------------------------------------------------------
(* CreateMediaKeySystem. *)

(* Mutant: a client without a listener passes the check. *)
AnyListener(p) == p \in Pid

HasListener(p) == p \in clientListenerMap_

(* The listener check, under factoryServiceMutex_ only.                    *)
IsListenerObjectSet(p, n) ==
  /\ Running
  /\ dying = None
  /\ p \in alive
  /\ HasListener(p)
  /\ <<p, n>> \notin creating
  /\ creating' = creating \cup {<<p, n>>}
  /\ UNCHANGED <<releasing, registryVars, listenerVars, clientVars, ability>>

Fresh(s) == pluginName[s] = None /\ s \notin hostRefs

(* The call owns mutex_ and fails: the idle state is not cancelled, the    *)
(* plugin is at its quota, or the host manager creates nothing.            *)
CreateFails(p, n) ==
  /\ Running
  /\ <<p, n>> \in creating
  /\ creating' = creating \ {<<p, n>>}
  /\ \E done \in BOOLEAN : CancelAbilityIdle(done)
  /\ UNCHANGED <<releasing, registryVars, listenerVars, clientVars>>

(* Mutant: the limit is off by one. *)
AtMostQuota(n) == Num(n) <= MaxSystems

BelowQuota(n) == Num(n) < MaxSystems

(* The HDI key system exists but its service object cannot be allocated:   *)
(* the host manager keeps its reference.                                   *)
CreateNoMemory(p, n, s) ==
  /\ Running
  /\ <<p, n>> \in creating
  /\ BelowQuota(n)
  /\ Fresh(s)
  /\ creating' = creating \ {<<p, n>>}
  /\ CancelAbilityIdle(TRUE)
  /\ hostRefs' = hostRefs \cup {s}
  /\ UNCHANGED <<mediaKeySystemForPid_, currentMediaKeySystemNum_, pluginName, open,
                 releasing, listenerVars, clientVars>>

CreateMediaKeySystem(p, n, s) ==
  /\ Running
  /\ <<p, n>> \in creating
  /\ BelowQuota(n)
  /\ Fresh(s)
  /\ creating' = creating \ {<<p, n>>}
  /\ CancelAbilityIdle(TRUE)
  /\ hostRefs' = hostRefs \cup {s}
  /\ pluginName' = [pluginName EXCEPT ![s] = n]
  /\ open' = open \cup {s}
  /\ mediaKeySystemForPid_' = Put(mediaKeySystemForPid_, p, Systems(p) \cup {s})
  /\ currentMediaKeySystemNum_' = Put(currentMediaKeySystemNum_, n, Num(n) + 1)
  /\ UNCHANGED <<releasing, listenerVars, clientVars>>

-----------------------------------------------------------------------------
(* Closing. *)

(* MediaKeySystemService::Release up to the promoted callback.  Bound: one *)
(* Release of a system is in flight at a time.                             *)
Release(s) ==
  /\ Running
  /\ s \in open
  /\ s \notin releasing
  /\ \E p \in alive : s \in Systems(p)
  /\ releasing' = releasing \cup {s}
  /\ UNCHANGED <<creating, registryVars, listenerVars, clientVars, ability>>

(* Mutant: the HDI key system is read after it was destroyed and nulled. *)
ReleaseNothing(S) == hostRefs' = hostRefs \ (S \cap (open \ S))

(* The systems of S give back the reference of the HDI key system they     *)
(* still have; it is read before the system is closed.                     *)
ReleaseMediaKeySystem(S) == hostRefs' = hostRefs \ (S \cap open)

CloseMediaKeySystemService(s) ==
  LET n == pluginName[s] IN
  /\ Running
  /\ s \in releasing
  /\ releasing' = releasing \ {s}
  /\ open' = IF s \in Registered THEN open \ {s} ELSE open
  /\ mediaKeySystemForPid_' = [p \in DOMAIN mediaKeySystemForPid_ |->
                                 mediaKeySystemForPid_[p] \ {s}]
  /\ currentMediaKeySystemNum_' =
       IF Num(n) > 0 THEN Put(currentMediaKeySystemNum_, n, Num(n) - 1)
                     ELSE currentMediaKeySystemNum_
  /\ ReleaseMediaKeySystem({s})
  /\ UNCHANGED <<pluginName, creating, listenerVars, clientVars, ability>>

(* The process p dies: its death recipient is told, if it has one.         *)
ClientDies(p) ==
  /\ p \in alive
  /\ alive' = alive \ {p}
  /\ obituary' = IF p \in watched THEN obituary \cup {p} ELSE obituary
  /\ UNCHANGED <<registryVars, callVars, listenerVars, ability>>

(* Mutant: the handler forgets the systems of the dead client. *)
ForgetClient(p) ==
  /\ Running
  /\ p \in obituary
  /\ dying = None
  /\ obituary' = obituary \ {p}
  /\ clientListenerMap_' = clientListenerMap_ \ {p}
  /\ watched' = watched \ {p}
  /\ UNCHANGED <<slighted, dying, registryVars, callVars, alive, ability>>

(* The notice is handled: listener and recipient go, factoryServiceMutex_  *)
(* is kept.                                                                *)
MediaKeySystemFactoryClientDied(p) ==
  /\ Running
  /\ p \in obituary
  /\ dying = None
  /\ obituary' = obituary \ {p}
  /\ clientListenerMap_' = clientListenerMap_ \ {p}
  /\ watched' = watched \ {p}
  /\ dying' = p
  /\ UNCHANGED <<slighted, registryVars, callVars, alive, ability>>

(* Mutant: the systems of a dead client stay counted. *)
KeepCounting(S) == currentMediaKeySystemNum_

(* Every system of a dead client is counted off, below zero if need be.    *)
CountOff(S) ==
  [n \in DOMAIN currentMediaKeySystemNum_ |->
     currentMediaKeySystemNum_[n] - Cardinality({s \in S : pluginName[s] = n})]

DistroyForClientDied(p) ==
  LET S == Systems(p) IN
  /\ Running
  /\ dying = p
  /\ p # None
  /\ dying' = None
  /\ open' = open \ S
  /\ ReleaseMediaKeySystem(S)
  /\ currentMediaKeySystemNum_' = CountOff(S)
  /\ mediaKeySystemForPid_' = Erase(mediaKeySystemForPid_, p)
  /\ UNCHANGED <<pluginName, callVars, clientListenerMap_, watched, slighted, clientVars,
                 ability>>

(* The host of plugin n died: every registered system of n is closed, pids *)
(* left without a system lose their entry, the counter is dropped.         *)
OnDrmPluginDied(n) ==
  LET S == {s \in Registered : pluginName[s] = n}
      left == {p \in DOMAIN mediaKeySystemForPid_ : mediaKeySystemForPid_[p] \ S # {}}
  IN
  /\ Running
  /\ open' = open \ S
  /\ ReleaseMediaKeySystem(S)
  /\ mediaKeySystemForPid_' = [p \in left |-> mediaKeySystemForPid_[p] \ S]
  /\ currentMediaKeySystemNum_' = Erase(currentMediaKeySystemNum_, n)
  /\ UNCHANGED <<pluginName, callVars, listenerVars, clientVars, ability>>

-----------------------------------------------------------------------------

Next ==
  \/ \E p \in Pid : SetListenerObject(p)
  \/ Query
  \/ OnIdle
  \/ OnStop
  \/ \E p \in Pid, n \in Plugin : IsListenerObjectSet(p, n)
  \/ \E p \in Pid, n \in Plugin : CreateFails(p, n)
  \/ \E p \in Pid, n \in Plugin, s \in System : CreateNoMemory(p, n, s)
  \/ \E p \in Pid, n \in Plugin, s \in System : CreateMediaKeySystem(p, n, s)
  \/ \E s \in System : Release(s)
  \/ \E s \in System : CloseMediaKeySystemService(s)
  \/ \E p \in Pid : ClientDies(p)
  \/ \E p \in Pid : MediaKeySystemFactoryClientDied(p)
  \/ \E p \in Pid : DistroyForClientDied(p)
  \/ \E n \in Plugin : OnDrmPluginDied(n)

Spec == Init /\ [][Next]_vars

(* A death notice and the thread that handles it are not postponed for     *)
(* ever: binder delivers obituaries and the handler only waits for locks   *)
(* that every other handler gives back.                                    *)
FairSpec ==
  /\ Spec
  /\ \A p \in Pid : WF_vars(MediaKeySystemFactoryClientDied(p))
  /\ \A p \in Pid : WF_vars(DistroyForClientDied(p))

-----------------------------------------------------------------------------
(* Properties. *)

(* The types, and the two limits the code keeps: no more listeners than     *)
(* MAX_LISTNER_NUM, and no counter above KEY_SYSTEM_INSTANCES_MAX_NUMBER.   *)
TypeOK ==
  /\ IsMap(mediaKeySystemForPid_, Pid, SUBSET System)
  /\ IsMap(currentMediaKeySystemNum_, Plugin, Int)
  /\ clientListenerMap_ \subseteq Pid
  /\ watched \subseteq clientListenerMap_
  /\ slighted \subseteq Pid
  /\ dying \in Pid \cup {None}
  /\ pluginName \in [System -> Plugin \cup {None}]
  /\ open \subseteq System
  /\ hostRefs \subseteq System
  /\ creating \subseteq Pid \X Plugin
  /\ releasing \subseteq System
  /\ alive \subseteq Pid
  /\ obituary \subseteq Pid
  /\ ability \in {"ACTIVE", "IDLE", "STOPPED"}
  /\ Cardinality(clientListenerMap_) <= MaxListeners
  /\ \A n \in Plugin : Num(n) <= MaxSystems

(* The books agree however creates, releases, client deaths and plugin     *)
(* deaths interleave: the registered systems are exactly the open ones,    *)
(* each belongs to one pid, the host manager counts each of them once, and *)
(* it counts nothing else than key systems whose service object could not  *)
(* be allocated.                                                           *)
RegistryMatchesHost ==
  /\ Registered = open
  /\ \A p, q \in DOMAIN mediaKeySystemForPid_ :
       p # q => mediaKeySystemForPid_[p] \cap mediaKeySystemForPid_[q] = {}
  /\ \A s \in open : s \in hostRefs /\ pluginName[s] # None
  /\ \A s \in hostRefs \ open : pluginName[s] = None

(* The quota counter of a plugin never exceeds the number of its open      *)
(* systems, whatever raced: a client is never told that the maximum is     *)
(* reached (line 265) while fewer than MaxSystems systems are open.        *)
NeverOvercounts ==
  \A n \in Plugin : Num(n) <= Cardinality(Live(n))

(* A client is gone, nobody will be told of it or deals with it, and the   *)
(* service would have known of its death: still it has systems.            *)
Orphaned(p) ==
  /\ p \notin alive \cup obituary \cup slighted \cup {dying}
  /\ Systems(p) # {}

(* Every living client that owns a system is watched for its death, unless *)
(* the service slighted it; and a system that nobody will close then comes *)
(* about in one way only, by a create that was under way when its client   *)
(* died.                                                                   *)
OwnersAreWatched ==
  /\ [](\A p \in alive : Systems(p) # {} => p \in watched \cup slighted)
  /\ [][\A p \in Pid : Orphaned(p)' =>
          Orphaned(p) \/ \E n \in Plugin : <<p, n>> \in creating \ creating']_vars

(* The ability is never unloaded under a client: no system is open once    *)
(* the ability manager stopped it, nor while it is idle.                   *)
UnloadedOnlyWhenEmpty ==
  ability # "ACTIVE" => open = {}

(* The systems a client leaves behind when it dies are closed, and the     *)
(* host manager gets their references back.                                *)
LeftBehindIsClosed ==
  \A p \in Pid, s \in System :
    (p \in obituary /\ s \in Systems(p)) ~> (s \notin open /\ s \notin hostRefs)

(* native_mediakeysystem.h:144 and the log of line 266 name a maximum      *)
(* number of media key systems: no more than MaxSystems of a plugin are    *)
(* open at a time.  The code does not keep it: the counter is decremented  *)
(* twice when a Release races with the death of the client or the plugin.  *)
QuotaHolds ==
  \A n \in Plugin : Cardinality(Live(n)) <= MaxSystems

(* "destroy all system objects for this pid": once the death of a client   *)
(* was handled no system of it is open.  A CreateMediaKeySystem call that  *)
(* had passed the listener check registers one afterwards.                 *)
NoOrphanedSystem == \A p \in Pid : ~ Orphaned(p)

=============================================================================
