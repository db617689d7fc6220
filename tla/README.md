# A TLA+ development of the DRM framework

This directory models `multimedia_drm_framework` in TLA+, its services, its native client and
the C and JavaScript bindings: what they keep, which locks they hold, how calls, deaths of
processes, threads and timers interleave. TLC
checks the models on small instances; TLAPS proves theorems about them for every value
of their constants. Line numbers refer to the sources under `src/`.

## 1. Inventory

### The system ability `MediaKeySystemFactoryService`
`services/drm_service/server/src/mediakeysystemfactory_service.cpp`

| state | meaning |
|---|---|
| `mediaKeySystemForPid_` | pid → set of the `MediaKeySystemService`s it owns |
| `currentMediaKeySystemNum_` | plugin → number of systems, at most 64 |
| `clientListenerMap_`, `deathRecipientMap_` | pid → listener and death recipient |
| idle state of the ability | kept by the ability manager |

Operations: `SetListenerObject`, `CreateMediaKeySystem`, `CloseMediaKeySystemService`,
the three `IsMediaKeySystemSupported`, `GetMediaKeySystems`, `GetMediaKeySystemUuid`,
`OnIdle`, `OnStop`, `Dump`, and the handlers of two kinds of deaths:
`MediaKeySystemFactoryClientDied` and `OnDrmPluginDied`. Two locks: `mutex_`
for the registry, `factoryServiceMutex_` for the listeners.

Correct when: the registry, the counters and what the host manager holds agree; no
client is refused below the limit; whatever a dead client leaves behind is closed; the
ability is never unloaded under a client.

### `MediaKeySystemService` and `MediaKeySessionService`
`mediakeysystem_service.cpp`, `key_session_service.cpp`

A key system keeps its HDI object, the set of its sessions and their number (at most
64); a session keeps its HDI object, a way back to its system and a cached decrypt
module. Four kinds of locks are taken in different orders: `mutex_`,
`sessionsSetMutex_`, `sessionMutex_` of each session, and `mutex_` of the factory.

Correct when: no HDI object is called after it was destroyed and none is lost; the
number is exact while it is used; no call waits for ever.

### `DrmHostManager`
`drm_host_manager.cpp`

Loads the hosts of plugins on demand (`LoadDevice`), keeps for each lazily loaded plugin
a count of the proxies in use and a timeout in minutes, unloads a host that was not used
for three minutes, and cleans up when a host dies. It also loads the libraries that
provision OEM certificates, on a thread of their own, and handles their messages.

Correct when: the count is the number of proxies in use; a host is not unloaded under a
key system; an unused host is unloaded in the end; key systems of a dead host are given
back.

### OEM provisioning
`drm_host_manager.cpp:107-372,799-828`, on a TV or PC also `drm_net_observer.cpp`

A service thread loads the provisioning libraries, waits for the user's agreement, creates
a key system for each and starts it; a library says through a message queue that it is
finished, and the message thread closes it; `StopServiceThread` joins both threads and closes
the rest. The network observer tells the manager that there is a network.

Correct when: a library is closed once and nobody runs in it any more; no exit message is
lost; the key systems are destroyed; the stop returns.

### `MediaKeySystemImpl` and `MediaKeySessionImpl`
`frameworks/native/drm/media_key_system_impl.cpp`, `key_session_impl.cpp`

The client's half of a key system or session: the proxy and its death recipient under
`mutex_`, and a callback object whose thread hands the events of the service to the
application. Operations of any thread, `Release`, the destructor, the death notice and the
event thread meet here.

Correct when: events arrive in order, once, and none after `Release`; the bare pointers that
the event thread and the death recipient hold are valid; `Release` returns; nothing is left
open in the service.

### `MediaKeySystemFactoryImpl`
`frameworks/native/drm/media_key_system_factory_impl.cpp`

The connection of a client process to the service: the cached proxy, its death recipient, and
the listener by which the service notices the death of the client. `GetServiceProxy` makes the
three under `serviceProxyMutex_`, for any operation and for the handler of the service's death,
which reconnects up to `RETRY_TIMES` times.

Correct when: a cached proxy is always watched, whatever step the service died at; one that works
is not thrown away; a service that stays up stays connected.

### `MediaDecryptModuleService`
`media_decrypt_module_service.cpp`, made and kept by `key_session_service.cpp:255-290`

The HDI object of a session that decrypts, its lock, and statistics of 32 bits that start
again when they are full. `DecryptMediaData` owns two file descriptors that come with the call.

Correct when: the module is not released under a decryption; descriptors are closed; what the
dump and the report say is true of the decryptions, past the restart too.

### The JavaScript binding
`frameworks/js/drm_napi`, `services/utils/include/napi_async_work.h`, `napi_param_utils.h`

Every object of a script has a native half, which `ObjectRefMap` counts: one for the object, one
for each executor inside. Asynchronous methods go through a worker thread and a completion on
the script's thread. Listeners are `AutoRef`s that a map and events on their way share.

Correct when: the native half lives exactly as long as it may be used; a promise settles once and
by what was done; a listener is not deleted before the event that calls it; every method tells
a wrong argument from a failing service.

### The C API
`frameworks/c/drm_capi`, `interfaces/kits/c/drm_capi`

A handle owns a native object and the object that takes its events to two callbacks of the
application, an older and a newer one, each with or without the handle as an argument. A system
copies its callbacks under `mutex_` and calls them without it; a session calls them under it.
Thirty-three functions check arguments and translate errors by hand.

Correct when: no callback runs with a deleted handle; setting and destroying return; every
function answers what its header lists, for the reason it names.

### The rest
* **ArkTS static (taihe) binding**: the same native objects again, with calls that block.
* **Network observer**: tells the host manager that there is a network.
* **dfx, helpers, IDL files**: reporting, conversions, interface definitions.

### How they interact
An application calls a binding, the binding a native object, and that, through the proxy it got
over the process's one connection, the service: on any thread of the service's IPC.
The factory calls the host manager with `mutex_` held; systems and sessions call the HDI
with their own locks held. Upwards there are callbacks: a system asks the factory to close
it, a session asks its system, the host manager tells the factory that a plugin died.
A session or system of the service sends events to the
listener of the client, whose event thread hands them to the binding and the binding to the
application. Death notices arrive on threads of their own, in the service and in the client.

### What is hard
`PROJECT.json` lists the hazards, each at its line, with the properties aimed at it.
The main ones: a `Release` racing the death of its client or plugin; checks made under a
lock that is given back before the answer is used; the gap between two locks in the
closing of a system; late death notices that meet a host loaded again; a reference
counter that is reset under its users; a service that dies in the middle of a connection; a
native half that its object and a worker thread leave at the same time; a callback that is
replaced from within itself while another thread destroys its handle.

## 2. Plan

Done in this order, most important behaviour first:

1. `MediaKeySystemFactoryService` with its proofs.
2. `MediaKeySystemService` (with its sessions), the abstract `InstanceQuota` it implements, its
   proofs and the order of its locks.
3. `DrmHostManager` with its proofs.
4. `OemProvisioning` with its proofs: service thread, message thread, workers, shutdown.
5. `MediaKeySystemImpl`, for both client objects, and the abstract `EventChannel` it implements,
   with its proofs.
6. `ServiceConnection` with its proofs: the connection, reconnection and late notices.
7. `MediaDecryptModuleService` with its proofs: the cached module, its descriptors and its
   statistics.
8. `NapiMethods` and `NapiBinding` with its proofs, and the abstract `PromiseCall` it implements.
9. `CapiMethods` and `DrmCapi` with its proofs; those of 8 and 9 cover the answers of every method.

Left:

10. Composition of factory and host manager: one death of a host through both.

## 3. Modules

| module | what it is |
|---|---|
| `MediaKeySystemFactoryService` | the factory: registry, counters, listeners, deaths, idle state |
| `MediaKeySystemFactoryServiceProofs` | inductive invariant and theorems of the factory |
| `MediaKeySystemService` | one key system and its sessions at the grain of their locks |
| `MediaKeySystemServiceProofs` | its theorems, the refinement of `InstanceQuota`, the order of its locks; the theorems of `MediaDecryptModuleService` |
| `InstanceQuota` | abstract: a bounded pool of instances that are used, freed and shut |
| `DrmHostManager` | load, count, time out, unload and bury the host of one lazily loaded plugin |
| `DrmHostManagerProofs` | theorems about its counting, timing and unloading |
| `OemProvisioning` | the provisioning libraries, their two threads and the stop |
| `OemProvisioningProofs` | theorems about its handles, workers and key systems |
| `MediaKeySystemImpl` | the client's key system or key session with its event thread |
| `MediaKeySystemImplProofs` | its theorems, and the refinement of `EventChannel` |
| `EventChannel` | abstract: an ordered channel that its reader closes |
| `ServiceConnection` | the client's connection to the service |
| `ServiceConnectionProofs` | its theorems |
| `MediaDecryptModuleService` | the decrypt module of a session and its statistics |
| `NapiMethods` | what each JavaScript method answers to which arguments |
| `NapiBinding` | native halves, asynchronous calls and listeners of the JavaScript binding |
| `NapiBindingProofs` | its theorems, those about `NapiMethods`, and the refinement of `PromiseCall` |
| `PromiseCall` | abstract: a promise settles once, by what was done |
| `CapiMethods` | what each function of the C API answers to which arguments |
| `DrmCapi` | a handle of the C API, its callbacks and its destruction |
| `DrmCapiProofs` | its theorems, and those about `CapiMethods` |
| `MC...` | instances for TLC |

### `MediaKeySystemFactoryService`
State variables carry the names of the code. A handler that runs under `mutex_` is one
action. Three are split where they act before they own it:

* `CreateMediaKeySystem` looks the listener up under `factoryServiceMutex_`
  (`IsListenerObjectSet`) and goes on later as `CreateMediaKeySystem`, `CreateFails` or
  `CreateNoMemory`; the calls in between are the set `creating`.
* `Release` promotes the callback of its system (`Release`) and closes the system later
  (`CloseMediaKeySystemService`); the set `releasing`.
* The handler of a client's death holds `factoryServiceMutex_` (`dying`) while it waits
  for `mutex_` (`DistroyForClientDied`).

`open` and `hostRefs` abstract the two neighbours: systems whose HDI object is there, and
key systems the host manager still counts. `std::map`s are partial functions, so that an
empty set under a pid differs from no entry (`OnIdle` can tell).

`CancelAbilityIdle` asks the ability manager to cancel the idle state; if it refuses, every
one of the six callers fails on it (lines 258, 337, 355, 374, 392, 403), which is the disjunct
`~ done`. `SetListenerObject` erases the client's old listener and detaches its recipient first (lines
202-209) and may fail behind that, whatever the client owns; and it does not look at the result of
`AddDeathRecipient` (line 223). So a listener on file (`clientListenerMap_`) need not be
`watched`. The clients it left so are the ghost set `slighted`: `OwnersAreWatched` excepts them
and nobody else.

Assumption: one `Release` of a system is in flight at a time.

### `MediaKeySystemService`
A call is a thread with a program counter; a state is a wait for a lock or for the HDI.
Every thread makes one call. `callbackMutex_` guards single assignments and is part of
the action that makes them. A client releases a session once, since
`MediaKeySessionImpl::Release` holds its lock over the call and drops the proxy
(`frameworks/native/drm/key_session_impl.cpp:67-91`). The factory closes a system once, under
its own lock, which the dump also holds.

`InstanceQuota` says what all that is for: instances are acquired below the limit, used
only while they live, freed once, and not acquired after the owner is gone. The refinement
mapping takes `live` to the sessions with an HDI object, `freed` to the allocated ones
without, `used` to the locked ones and `shut` to the destroyed key system.

What fails in a create fails in two ways. If the HDI makes no session nothing is left
(`HdiCreateFails`). If there is no memory for the session's service (`mediakeysystem_service.cpp:261-266`)
the HDI session exists and the code neither destroys, files nor counts it (`HdiCreateNoMemory`,
`dropped`): it is lost, and `SessionsAccountedFor` and the pool speak of the sessions that got a
service. A session created while the system is being closed stays in `sessionsSet_`, which
nobody empties any more; the client's `Release` still reaches it.

### `DrmHostManager`
The maps are indexed by plugin and their entries do not meet, so one plugin stands for
all. Every operation holds `drmHostMapMutex` from beginning to end; `ClearDeathService`
gives it back before it calls the factory, and is split there (`handlers`). The factory
calls with its own `mutex_` held: while it closes the key systems of a dead host one after the
other (`burying`) it calls nothing else, but the host, its notices and the timer go on. A key system,
the proxy it was created through and that proxy's death recipient carry one name. A host
that dies sends one notice per attached recipient (`notices`). `V1_1`, which `Init` chooses and
nothing changes, says which interface version the host has: a 1.1 proxy is counted under the cast
proxy, and its recipient, filed under the 1.0 proxy, is never detached. `Faults`, chosen
likewise, allows the death of the host, a refused recipient, a null key system and a refused
unload. The minute between two
checks of the timer is not modelled: the check may come at any time. The provisioning
libraries call `LoadDevice` and `ReleaseMediaKeySystem` from threads of their own, without the
factory's lock; those calls are not composed with this module yet.

### `OemProvisioning`
What is done under `drmHostMapMutex` or `queueMutex` is one action; the service thread gives
the first back between `CreateMediaKeySystem`, the entries in the maps and `StartThread`. The
libraries are not in the repository: `worker` is what the manager sees of one. Assumptions:
every library names a plugin of its own (`OemAssumption`; two with the same name would share an
entry of `pluginNameAndHandleMap`); a library says once that it is finished; `StartThread` has
returned before the library may be closed; there is one manager (`messageQueue` is static).
The wait of the message thread has a timeout, so a missed notification only delays it.
An HDI that reports success with no key system makes `ProcessProvision` answer success (lines
291-292): the library then stays loaded without a worker (`NoKeySystem`).
`WaitForNetwork` is written as the code is: it returns at once when there is no network, and
waits for the network when there is one. Who tells the manager that there is a network, the
observer, is the action `SetIsNetWork`.

### `MediaKeySystemImpl`
One object of a client; `isSession`, chosen at the start, says which of the two classes it is.
They differ in what they do with the proxy when `Release` fails and with the recipient when
the service died. `mutex_` is held by an operation until its call to the service returns.
The event thread has the states of its loop and of an application's callback, which may call
one operation. `Destroy` is the destructor, with its own `Release`. Assumptions, read from the
bindings: `SetCallback` is called once, by the thread that makes the object; releases come one
after the other; the object is not destroyed under an operation; the application does not
release it from within a callback, which would make the event thread join itself; a call to a
living service is answered. A death notice that has begun (`OnRemoteDied`) is not taken back
by `RemoveDeathRecipient` and may find the object destroyed, since nothing in the code waits for it:
the model reaches that state. `NothingDangles` says that the event thread never uses what is
destroyed and that no notice begins after the destruction; of a notice that had begun it says nothing.

`EventChannel` says what events are for. Its `queue` is the thread's local queue followed by the
shared one (`Undelivered`); in `Phase` it is `closing` once `Release` has cleared
`serviceThreadRunning`, `closed` when the thread has ended.

### `ServiceConnection`
Each step of `GetServiceProxy` talks to another process that may die before the next, so each
is an action, and `owner` has `serviceProxyMutex_` meanwhile. A notice carries the name of its
recipient and is a thread itself: its handler (`MediaKeySystemFactoryServerDied`) drops the
proxy, sleeps, and connects like an operation. Whatever refers to a process of the service is
`live` or `dead`. An attempt that fails behind `AddDeathRecipient` leaves its recipient attached
(`strays`), and a `SetListenerObject` that the service refuses may have erased the listener it
had (`mediakeysystemfactory_service.cpp:202`). Recipients are recycled when nothing refers to them.

### `MediaDecryptModuleService`
The names of this module are qualified (`ModuleNext`, `ModuleTypes`), for it belongs to a session of
`MediaKeySystemService` and the proofs about both stand in one module.
`DecryptMediaData` is three steps: it comes with its descriptors, it gets `moduleLock_` and
calls the plugin, and it returns, with `UpdateDecryptionStatistics` in the same step, under the
lock. A duration is in milliseconds and often 0, and stands for a size as well. `UINT32_MAX` is a constant,
so that the restart is met. `topThree` is a queue of `int` (`services/utils/include/drm_dfx.h:109`), and
a duration is a `uint32_t` cast from the difference of two readings of the system clock
(`drm_dfx_utils.cpp:114-120`), negative if the clock was set back: `AsInt` is the conversion to the
queue, `AsUnsigned` the one back for the dump. A duration above `INT32_MAX` ranks least and is
the first to be popped, while the maximum compares unsigned; `StatisticsAreTrue` therefore tells the
three longest of those an `int` can hold, and the longest of all.
`history` is a ghost: the statistics are checked against it. The code as the model has it:
a released module refuses before the descriptors are closed, so that both stay open
(`media_decrypt_module_service.cpp:98-101`); `errorDecryptTimes` is never reset; after the
restart fewer than `MIN_DECRYPTION_TIMES` decryptions are not reported; a duration includes the
wait for the lock. Of the buffers only the descriptors are modelled: that `SetDrmBufferInfo` sets
the source's descriptor twice and its `sharedMemType` never is outside.

### `NapiMethods` and `NapiBinding`
`NapiMethods` is a function per method, from the kinds of the arguments and the state of the object
to the answers the script may see: the checks in their order, then the native object's answer,
translated as the method does. `NapiBinding` is the state. `js` is an object as script and
collector see it, `heap` its native half, `refMap` the count. `Guard`, `Execute` and `Skip` are a
worker thread, `Complete` the completion; `Held` are the calls whose `napi_create_reference`
succeeded, which pins the object. `EnvExits` ends the script, finalises what is left and
runs no more completions. `refs` are `AutoRef`s, deleted on the script's thread only.
Not modelled: a new native half at the address of a freed one (`ObjectRefMap` is keyed by
pointer, so an executor without a reference to its object might enter it), and a work item that
the engine refuses to make (its result is ignored, and the promise then never settles). The
executor that finds no native half any more signs no error and resolves with nothing; it
cannot happen to a call of `Held`, for which alone `IsPromise` speaks.
An object whose `napi_wrap` failed is bare, and every method is checked on it.

### `CapiMethods` and `DrmCapi`
`CapiMethods` has a function per entry point, as above; `DrmCapi` the handle. `side` says whether it
is a system or a session. Setting a callback waits for `mutex_` (`Begin`, `SetCallbackReference`),
from outside or from `inside` a callback. The event thread (`thread`) takes or copies
the callbacks, calls the older one, then the newer. `DestroyBegins` stops and joins it as
`MediaKeySystemImpl::Release` does, `Destroys` releases the proxy and deletes the handle if that
succeeded. The application destroys a handle while no other thread is in a function
with it and not from a callback. What the code does and the model shows: setting a
session's callback from within its callback waits for itself; a handle whose service died can
never be freed, for each `Destroy` of it fails; a replaced callback of a system may still be
called once, from the copy. `OH_MediaKeySystem_GetMediaKeySystems` returns `DRM_ERR_NO_MEMORY`
(`native_mediakeysystem.cpp:109`), which its header (`native_mediakeysystem.h:95-99`) does not list.
`Documented` is what the headers list, and `Unlisted` the answers beyond it: `AnswersTellTheCause` says
that there is this one and no other. `*count` counts names whose uuid
was skipped too; that is data the model leaves out.

## 4. Runs

| run | instance | states | what it shows |
|---|---|---|---|
| Factory | 2 pids, 2 plugins, 2 systems, limit 1 | 433,991 | registry, counter, host references and idle state agree; owners are watched unless slighted; what a dead watched client leaves behind is closed |
| FactoryQuota | 3 systems, limit 1 | violated | more systems than the documented maximum |
| FactoryOrphan | 3 systems, limit 1 | violated | a system of a dead client that nobody will close |
| Session | 5 calls, 2 sessions, room for 1 | 118,804 | no use after destroy, no session with a service lost, exact counter; `InstanceQuota` is implemented; every call returns |
| Host | 3 key systems, both versions, with and without faults | 29,323 | the counter matches, no unload under a user, key systems of a dead host are given back, an unused host is unloaded |
| OemThreads | 2 libraries, a TV or PC | 7,232 | handles closed once, workers safe, no message lost, the stop returns |
| OemNetwork | same | violated | a library starts without a network |
| ClientEvents | 2 operations, 3 events, 2 releases | 87,886 | `EventChannel` is implemented; pointers valid, nothing left open, releases end |
| Connection | 2 threads, 4 recipients, 2 deaths, 1 refusal, 2 retries | 731,068 | a proxy is watched, a working one is kept, a service that stays up stays connected |
| Napi | a system, a session, 2 calls, 2 references, 1 event, argument lists up to 4 | 855,514 | native halves and listeners live as long as they are used; `PromiseCall` is implemented; answers blame the right side |
| Capi | 2 setters, 2 events, 2 attempts to destroy, both sides | 69,293 | callbacks run with a live handle; calls return; answers are those of the headers, but for one |
| Decrypt | 2 threads, 5 decryptions of 0 to 3 ms, `INT32_MAX` 2, `UINT32_MAX` 3 | 1,198,370 | statistics are true past the restart; no release under a decryption |

Bounds. The limits of 64 are constants; 1 makes "full" and "empty" occur with two
systems, and the theorems cover every other limit. Two pids and two plugins are enough for one
to disturb another; in the runs that find a violation a third system lets one be created
after two raced. Five calls let two creates, a release and an operation run
against a closing system. `NotLoadedMark` is 65536 in the code; any
number above the number of proxies keeps the two bands of the counter apart, which is
assumed. Two libraries let one be at hand while the other's message is handled. Three events
let one be in the application, one behind it and one in the shared queue; two operations and
the callback's compete for `mutex_`. Two deaths of the service let one fall into the reconnection
after the other; four recipients are enough that an attempt, the published proxy, and two left
behind have one each, and a run in which all are in use would only wait for one. One refusal lets
a stray exist; its notice then meets a newer connection. Two calls of the binding, one with a
reference to its object and one without, are enough for the finalizer to be the last, or not;
both references to listeners are then in use while a third `on` must wait. Five decryptions
pass `UINT32_MAX` of 3 and fill the queue of three with something to pop; a duration of 3 is one
that no `int` of at most 2 can hold, and becomes -1. Two setters let one be
inside the callback the other replaces. Systems, sessions and threads are never reused, so they
bound the length of behaviours. Deadlock is checked
except in `Factory`, `ClientEvents`, `Napi`, `Capi` and `Decrypt`, where a behaviour may really end:
the ability is unloaded, the client's object or the handle is gone, the script has ended, the
module is released.

Fairness. A death notice is delivered and the handler goes on (binder, locks that
are given back); a call that was let in goes on when it can; the message thread of the host
manager checks every minute. Nothing is assumed of clients, of creates or of deaths.
The threads of the host manager run, and so does the event thread of a client; calls
to the service return, and an application's callback does. Nothing makes a provisioning library
finish, the user agree, an application release anything. Worker threads run, and the loop of a
script does while the script is there. In `StaysConnected` the premise, not the fairness, says that
the service stays up and attempts no longer fail.
With finitely many calls weak fairness for a mutex is enough: nobody can be overtaken for ever.

### What the runs found
* **FactoryQuota**: `CloseMediaKeySystemService` (line 321) counts down even if the
  system was closed meanwhile by a death handler: counted off twice, the counter falls
  below the number of open systems and the maximum is not kept.
* **FactoryOrphan**: the listener check of `CreateMediaKeySystem` (line 255) is made
  before `mutex_` is owned; a client that dies in between gets a system after its cleanup.
* **OemNetwork**: `WaitForNetwork` (line 817) has its condition the wrong way round; its logs
  say that it waits when there is no network, and it returns then.
* `StopReturns` excepts a stop that meets a service thread asleep until the user agrees (lines
  799-813): nothing wakes it.
* `WorkingProxyKept`: a proxy that works is dropped when the notice of a recipient arrives that
  a failed attempt left behind (lines 88-90); without such attempts it is kept.
* `CallsReturn` excepts a session whose callback sets a callback, which waits for itself.
* `AnswersTellTheCause` names the one answer of the C API that its header does not list, the
  `NO_MEMORY` of `OH_MediaKeySystem_GetMediaKeySystems`.
* `OwnersAreWatched` excepts the clients whose listener `SetListenerObject` lost or whose recipient was
  refused (lines 202-225): they own systems and nobody will be told of their death.
* `SessionsAccountedFor` excepts the HDI session of a failed allocation (lines 261-266), which is lost.
* `StatisticsAreTrue` excepts durations above `INT32_MAX`, which rank least in the queue of `int`.
* `NeverOvercounts` is the half of the counter's meaning that does hold: it errs to
  one side only.
* `UnloadedOnlyUnused` holds only while no death of a host is being dealt with: a host
  loaded again before the notices of the old one are handled has its counter moved by the
  release of old key systems, and the timer of the old one may unload it under its user.
  A notice that comes after the new load leaves the counter at `NOT_LAZY_LOADDED` plus the
  users, so that the host is never unloaded. `CountMatches` states both bands.
* `UnusedIsUnloaded` needs the absence of faults: a host loaded for a call whose
  `AddDeathRecipient` is refused (line 536) has no timer.

## 5. Proofs

`MediaKeySystemFactoryServiceProofs` proves the four invariants of `Factory` and `OwnersAreWatched`,
which has an action property in it, for any sets of clients, plugins and systems and any limits, from
`FactoryAssumption` (named in the module: `None` is no pid and no plugin, limits positive).

None of the invariants is inductive alone. `IInv` is their conjunction with three
strengthenings: sets are finite where they are counted (`Finite`); who owns a system or has a
create under way is watched, slighted, or dead (`Watched`); an idle ability has an empty registry,
not just no open system (`EmptyWhenIdle`). `NeverOvercounts` rests on `RegistryMatchesHost`: only
because the registered systems are the open ones does a death handler count off exactly what it
closes, and a late `Release` can only count down further. The proof has one lemma per action and a
`PTL` step at the end.

`MediaKeySystemServiceProofs` proves the three invariants of `Session` and that the
module implements `InstanceQuota`, for any sets of calls and sessions and any positive
maximum (`SessionAssumption`). The hard part of the refinement is that `Acquire` needs fewer HDI
sessions than the maximum, and the code looks at a counter instead. The two agree while the system
is open (`OpenExact`), but a closing system destroys sessions without counting them off, and a
`Release` that was waiting counts off one that is gone already. What the counter never falls below
is the number of sessions that are `Charged`: handed out, and either still there or on the way of a
`Release` from its start to `EraseSession`. A release only counts off what it alone charges, because
a client releases a session once and a session is cut off from its system before it is destroyed
(`Departure`). `mutex_` makes the check of a create and its insertion one (`LockOwners`,
`Creation`). There is one lemma per conjunct and in it one step per action.

`DeadlockFree` is about the same module: `mutex_`, `sessionsSetMutex_` and a `sessionMutex_` are waited
for in that order by create, release, dump and close. `Height` is how far up the order a call
is, `SetOwners` says that who has `sessionsSetMutex_` is closing or dumping, and then every call
waits for a higher one only (`LocksInOrder`). Since there are three heights, behind each call that
waits there is one that waits for nobody (`NoCircularWait`), however many calls there are. That it
then goes on, and that all return, is liveness: `EveryCallReturns` stays with TLC.

The second half of `MediaKeySystemServiceProofs` proves both invariants of `Decrypt`, for any callers,
any durations up to `UINT32_MAX`, any number of decryptions and any `INT32_MAX` below that, from
`DecryptAssumption`. `DecryptionIsSafe` needs that nobody is inside before the session has made the
module (`Unmade`). For `StatisticsAreTrue` the invariant says of each statistic what it is of the
history (`StatisticsKept`): the sums are those of its last part (`SumsKept`), the maximum was
reached and never passed (`MaximumKept`), and for every x that is an `int` the queue has as many
entries of at least x as were pushed (the history behind `AsInt`), up to three (`LongestKept`). That
says which three are the largest without ranking the history, and it goes through `Push` and the pop
by counting; from 1 to `INT32_MAX` the two conversions give back what they got (`Converted`). The
restart is a remainder. What a sum over a history is for one more decryption is a statement about a
recursive function; where it needs induction the proof takes the least counterexample instead
(`Least`), which exists because the order of the natural numbers is well founded.

`DrmHostManagerProofs` proves the invariants of `Host` and its action property, for any
finite set of key systems, from `HostAssumption` (the mark is further from zero than there
are key systems; times are positive). The difference of counter and proxies in use
changes only when the counter is reset, so it stays in a band (`Band`), which
bounds the counter. Every proxy in use has a recipient, attached or notified
(`WatchedNames`): with no notice pending and no host running there is none, and
starting to count at zero is right. A counter that is off by the mark is never timed
(`Counted`): it would have to be zero to start the timer. Together with
`LivingCounted` (with no death being handled, key systems in the running host are counted) an
unload finds nobody in the host.

`OemProvisioningProofs` proves the two invariants of `OemThreads` for any number of libraries,
from `OemAssumption`. A library may be closed by its message, by a failure of the service thread
or by the stop, and the proof is that the three do not meet: the library at hand has no
worker yet, so no message can be about it (`AtHand`); a queued message is about a loaded library
whose worker has finished (`Announced`), and no two are about the same (`Once`), so the first to
be handled does not take the handle from under the second; what is closed leaves `loadedLibs`, which
is all the stop closes (`Libraries`), after both threads have ended (`Stopping`).

`MediaKeySystemImplProofs` proves the three invariants of `ClientEvents` and
`Spec => Channel!Safety`, for any operations, events and number of releases, from
`ClientAssumption`. What it rests on is the join in `Release`: while the event thread runs there
is a callback object (`Threads`), and a release goes on to the proxy only without one
(`Releases`). `Proxies` ties the proxy, the recipient and the service's object together: what has
no proxy has no recipient, and nothing open in a living service. In the refinement `SwapQueue` and all
that does not concern the queues are stutters, an event that arrives after the thread has ended
too; `HandleEvent` delivers, since the local queue stands before the shared one.

`ServiceConnectionProofs` proves the two invariants of `Connection` and `WorkingProxyKept`, for any
threads, recipients and bounds, from `ConnectionAssumption`. While nobody has the lock there is no
attempt, and while somebody has it there is no proxy: the strengthening says how far the
attempt is, for each `pc` of its owner, and that its candidate is attached to a live object or
notified of a dead one (`Attempt`); that proxy and recipient come and go together and nobody is
notified while still attached (`Pairs`); and that without failed attempts no recipient is about but
these two (`Strays`). A notice then either belongs to the dead proxy or to a stray.

`NapiBindingProofs` proves `TypeOK`, `LivesWhileUsed`, `ListenersKept`, `AnswersTellTheCause` and
`Spec => Promises!Safety`, for any objects, calls, references and bounds, from `NapiAssumption`.
The count of a native half is its object and the
executors inside, and it is alive exactly while the count is not zero (`Alive`): then the
decrement that finds one, be it the finalizer's or an executor's, is the only one that deletes.
A call under way has a target (`Targeted`). For the listeners
what is referred to is live, and `Unreferenced` only takes what neither map nor queue has.
`PromisesKept` adds that a call that holds a reference pins its object while it is under way
(`Pinning`), so that its executor finds the native half, and that a call whose executor has not run
has no result (`Fresh`). `AnswersCorrect` goes through the methods one by one, or by groups that
check alike; there is no bound on the number of arguments, since a method looks at the first few and
at how many there are.

`DrmCapiProofs` proves `TypeOK`, `CallbacksAreCurrent` and `AnswersTellTheCause` for any setters and
bounds, from `CapiAssumption`. A thread that
has not ended has a live handle, since only a joined `Destroy` deletes (`Alive`); a session calls
under the mutex, which every setter needs, so that what runs is what is set (`Current`).
For the answers, each function is a sequence of checks that ends in the native object's answer: the
lemmas `CheckedFair` and `AskedFair` say of the two halves that a refusal has a wrong argument behind
it and a wrong argument is refused, and there is a lemma for each function or group of like ones.
`NobodyMisled` puts them together, and `OneUnlisted` says that `NO_MEMORY` of `GetMediaKeySystems`
is the one answer outside its header's list.

Proved are thus all invariants and action properties of the passing runs, and the safety parts of
their three refinements. Only model-checked are the liveness properties `LeftBehindIsClosed`,
`DeadSystemsReleased`, `UnusedIsUnloaded`, `EveryCallReturns`, `FinishedIsClosed`, `StopReturns`,
`ReleaseEnds`, `StaysConnected` and `CallsReturn`, and the fairness in `IsChannel` and `IsPromise`:
liveness under fairness and `ENABLED` are beyond the prover's reach. So is induction over data in
general, for a theorem that takes a predicate cannot be instantiated; the sums of `Decrypt` are the
one place that needs it. That the ghost `history` stands for what was decrypted, like every
translation, is for the reader to compare with the source.

## 6. Not modelled

Listed with their reasons in `PROJECT.json`:

* **Network observer**: a registration with the network manager, whose threads and
  repetitions the repository does not show. That its callback takes a mutex it holds
  (`drm_net_observer.cpp:127`) can be seen without a model.
* **ArkTS static (taihe) binding**: conversions around the same native objects, in calls that block
  their thread. What is hard in it, who keeps the native object and what happens to events on their
  way, is modelled for the JavaScript binding.
* **dfx and helpers**: reporting and conversions without state that another component reads; the
  report of the decryption statistics is in `MediaDecryptModuleService`.
* **IPC interfaces**: definitions from which stubs and proxies are generated.

Inside modelled components: the contents of requests, responses and buffers; the reports; memory
pressure; the text of the dump; the names of events; enumerations of the bindings; plugins
that are not lazily loaded, whose hosts are never unloaded; `ClearCallbackReference`, which nothing
calls. Components are modelled apart: the factory sees the host manager as `hostRefs` and a death
at a time, and the provisioning libraries see it as two calls.
