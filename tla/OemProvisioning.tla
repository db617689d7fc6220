-------------------------- MODULE OemProvisioning --------------------------
(***************************************************************************)
(* The OEM certificate libraries of the host manager: a thread of its own  *)
(* loads them and starts them with a key system each, a message thread     *)
(* unloads a library that says it is finished, and StopServiceThread       *)
(* clears up (services/drm_service/server/src/drm_host_manager.cpp).       *)
(*                                                                         *)
(* What holds drmHostMapMutex or queueMutex is one action.  The libraries  *)
(* are not in the repository; what they do is read from their use:         *)
(* StartThread starts a worker, the worker calls                           *)
(* UnLoadOEMCertifaicateService once when it is finished, StopThread ends  *)
(* it, StartThread has returned before the library can be unloaded.        *)
(***************************************************************************)
EXTENDS Integers, Sequences

CONSTANTS
  Lib,        \* the libraries in OEM_CERTIFICATE_PATH
  Plugin,     \* the plugins they name
  PluginOf,   \* QueryMediaKeySystemName
  Asks,       \* a TV or a PC: the user has to agree first
  None

ASSUME OemAssumption ==
  /\ None \notin Lib
  /\ PluginOf \in [Lib -> Plugin]
  /\ \A l, m \in Lib : PluginOf[l] = PluginOf[m] => l = m
  /\ Asks \in BOOLEAN

VARIABLES
  serviceThreadRunning,
  service, lib,           \* ServiceThreadMain: where it is, the library at hand
  todo,                   \* libsToLoad it has not seen
  loadedLibs,
  pluginNameAndHandleMap,
  handleAndKeySystemMap,  \* libraries with a key system in it
  keySystems,             \* libraries whose key system was not destroyed
  closes,                 \* of a library: how often it was dlclosed
  worker,                 \* of a library: its own thread
  messageQueue, localQueue,
  message,                \* where the message thread is
  stop,                   \* where StopServiceThread is
  statement,              \* the basic statement
  isNetWork

serviceVars == <<service, lib, todo>>
libraryVars == <<loadedLibs, handleAndKeySystemMap, keySystems, closes, worker>>
messageVars == <<messageQueue, localQueue, message>>
outside == <<statement, isNetWork>>
vars == <<serviceThreadRunning, serviceVars, pluginNameAndHandleMap, libraryVars,
          messageVars, stop, outside>>

Init ==
  /\ serviceThreadRunning = FALSE
  /\ service = "off" /\ lib = None /\ todo = Lib
  /\ loadedLibs = {} /\ handleAndKeySystemMap = {} /\ keySystems = {}
  /\ pluginNameAndHandleMap = [p \in Plugin |-> None]
  /\ closes = [l \in Lib |-> 0]
  /\ worker = [l \in Lib |-> "none"]
  /\ messageQueue = <<>> /\ localQueue = <<>> /\ message = "off"
  /\ stop = "off"
  /\ statement \in {"unset", "agreed", "invalid"}
  /\ isNetWork \in BOOLEAN

OemCertificateManager ==
  /\ service = "off"
  /\ serviceThreadRunning' = TRUE
  /\ service' = "next"
  /\ message' = "top"
  /\ UNCHANGED <<lib, todo, pluginNameAndHandleMap, libraryVars, messageQueue, localQueue,
                 stop, outside>>

-----------------------------------------------------------------------------
(* StopThread and dlclose of a set of libraries. *)

(* Mutant: the workers are not stopped. *)
CloseOnly(L) ==
  /\ worker' = worker
  /\ closes' = [l \in Lib |-> IF l \in L THEN closes[l] + 1 ELSE closes[l]]

Close(L) ==
  /\ worker' = [l \in Lib |-> IF l \in L /\ worker[l] = "running" THEN "stopped"
                                                                  ELSE worker[l]]
  /\ closes' = [l \in Lib |-> IF l \in L THEN closes[l] + 1 ELSE closes[l]]

(* Mutant: the closed library stays in the list of the loaded ones. *)
ReleaseAndKeepLoaded(l) ==
  /\ keySystems' = keySystems \ (handleAndKeySystemMap \cap {l})
  /\ handleAndKeySystemMap' = handleAndKeySystemMap \ {l}
  /\ loadedLibs' = loadedLibs
  /\ Close({l})

(* Mutant: the key system is not destroyed. *)
ReleaseLibraryOnly(l) ==
  /\ keySystems' = keySystems
  /\ handleAndKeySystemMap' = handleAndKeySystemMap \ {l}
  /\ loadedLibs' = loadedLibs \ {l}
  /\ Close({l})

ReleaseHandleAndKeySystemMap(l) ==
  /\ keySystems' = keySystems \ (handleAndKeySystemMap \cap {l})
  /\ handleAndKeySystemMap' = handleAndKeySystemMap \ {l}
  /\ loadedLibs' = loadedLibs \ {l}
  /\ Close({l})

-----------------------------------------------------------------------------
(* ServiceThreadMain. *)

DlopenFails(l) ==
  /\ service = "next"
  /\ l \in todo
  /\ todo' = todo \ {l}
  /\ UNCHANGED <<serviceThreadRunning, service, lib, pluginNameAndHandleMap, libraryVars,
                 messageVars, stop, outside>>

Dlopen(l) ==
  /\ service = "next"
  /\ l \in todo
  /\ todo' = todo \ {l}
  /\ lib' = l
  /\ service' = "statement"
  /\ loadedLibs' = loadedLibs \cup {l}
  /\ UNCHANGED <<serviceThreadRunning, pluginNameAndHandleMap, handleAndKeySystemMap,
                 keySystems, closes, worker, messageVars, stop, outside>>

ServiceThreadEnds ==
  /\ service = "next"
  /\ todo = {}
  /\ service' = "done"
  /\ UNCHANGED <<serviceThreadRunning, lib, todo, pluginNameAndHandleMap, libraryVars,
                 messageVars, stop, outside>>

(* It returns at once when there is no network, and waits for the network  *)
(* when there is one.                                                      *)
WaitForNetwork == isNetWork => isNetWork

(* QueryBasicStatement sleeps as long as the statement is unset.           *)
QueryBasicStatement ==
  /\ service = "statement"
  /\ Asks => (statement = "agreed" /\ WaitForNetwork)
  /\ service' = "create"
  /\ UNCHANGED <<serviceThreadRunning, lib, todo, pluginNameAndHandleMap, libraryVars,
                 messageVars, stop, outside>>

(* CreateMediaKeySystem, with its own lock ...                             *)
CreateMediaKeySystem ==
  /\ service = "create"
  /\ keySystems' = keySystems \cup {lib}
  /\ service' = "insert"
  /\ UNCHANGED <<serviceThreadRunning, lib, todo, pluginNameAndHandleMap, loadedLibs,
                 handleAndKeySystemMap, closes, worker, messageVars, stop, outside>>

(* The HDI reports success and no key system: ProcessProvision answers     *)
(* success too, and the library stays loaded without a worker.             *)
NoKeySystem ==
  /\ service = "create"
  /\ service' = "next"
  /\ UNCHANGED <<serviceThreadRunning, lib, todo, pluginNameAndHandleMap, libraryVars,
                 messageVars, stop, outside>>

(* Mutant: the message will not find the library. *)
InsertKeySystem ==
  /\ service = "insert"
  /\ handleAndKeySystemMap' = handleAndKeySystemMap \cup {lib}
  /\ service' = "start"
  /\ UNCHANGED <<serviceThreadRunning, lib, todo, pluginNameAndHandleMap, loadedLibs,
                 keySystems, closes, worker, messageVars, stop, outside>>

(* ... and the entries of the two maps with another.                       *)
InsertHandle ==
  /\ service = "insert"
  /\ pluginNameAndHandleMap' = [pluginNameAndHandleMap EXCEPT ![PluginOf[lib]] = lib]
  /\ handleAndKeySystemMap' = handleAndKeySystemMap \cup {lib}
  /\ service' = "start"
  /\ UNCHANGED <<serviceThreadRunning, lib, todo, loadedLibs, keySystems, closes, worker,
                 messageVars, stop, outside>>

StartThread ==
  /\ service = "start"
  /\ worker' = [worker EXCEPT ![lib] = "running"]
  /\ service' = "next"
  /\ UNCHANGED <<serviceThreadRunning, lib, todo, pluginNameAndHandleMap, loadedLibs,
                 handleAndKeySystemMap, keySystems, closes, messageVars, stop, outside>>

(* No valid statement; a function is missing, the library has no name, or  *)
(* the HDI no key system; the library does not take it, needs nothing, or  *)
(* does not start.                                                         *)
ProcessProvisionFails ==
  /\ \/ service = "statement" /\ Asks /\ statement = "invalid"
     \/ service \in {"create", "start"}
  /\ ReleaseHandleAndKeySystemMap(lib)
  /\ service' = "next"
  /\ UNCHANGED <<serviceThreadRunning, lib, todo, pluginNameAndHandleMap, messageVars, stop,
                 outside>>

-----------------------------------------------------------------------------
(* The worker of a library, and the messages. *)

UnLoadOEMCertifaicateService(l) ==
  /\ worker[l] = "running"
  /\ worker' = [worker EXCEPT ![l] = "finished"]
  /\ messageQueue' = Append(messageQueue, PluginOf[l])
  /\ UNCHANGED <<serviceThreadRunning, serviceVars, pluginNameAndHandleMap, loadedLibs,
                 handleAndKeySystemMap, keySystems, closes, localQueue, message, stop,
                 outside>>

(* The head of the loop of ProcessMessage.                                 *)
MessageLoop ==
  /\ message = "top"
  /\ message' = IF serviceThreadRunning THEN "wait" ELSE "done"
  /\ UNCHANGED <<serviceThreadRunning, serviceVars, pluginNameAndHandleMap, libraryVars,
                 messageQueue, localQueue, stop, outside>>

(* Mutant: the stop does not wake the thread. *)
MessageThere == messageQueue # <<>>

(* The condition of the wait, polled by its timeout: a missed notification *)
(* only delays.                                                            *)
Woken == messageQueue # <<>> \/ ~ serviceThreadRunning

(* Mutant: the queue is cleared and not swapped. *)
Cleared == <<>>

Swapped == messageQueue

SwapQueue ==
  /\ message = "wait"
  /\ Woken
  /\ localQueue' = Swapped
  /\ messageQueue' = <<>>
  /\ message' = "handle"
  /\ UNCHANGED <<serviceThreadRunning, serviceVars, pluginNameAndHandleMap, libraryVars,
                 stop, outside>>

HandleMessage ==
  /\ message = "handle"
  /\ localQueue # <<>>
  /\ localQueue' = Tail(localQueue)
  /\ LET l == pluginNameAndHandleMap[Head(localQueue)]
     IN  IF l # None THEN ReleaseHandleAndKeySystemMap(l) ELSE UNCHANGED libraryVars
  /\ UNCHANGED <<serviceThreadRunning, serviceVars, pluginNameAndHandleMap, messageQueue,
                 message, stop, outside>>

QueueHandled ==
  /\ message = "handle"
  /\ localQueue = <<>>
  /\ message' = IF serviceThreadRunning THEN "top" ELSE "done"
  /\ UNCHANGED <<serviceThreadRunning, serviceVars, pluginNameAndHandleMap, libraryVars,
                 messageQueue, localQueue, stop, outside>>

-----------------------------------------------------------------------------
(* StopServiceThread. *)

StopBegin ==
  /\ serviceThreadRunning
  /\ serviceThreadRunning' = FALSE
  /\ stop' = "join"
  /\ UNCHANGED <<serviceVars, pluginNameAndHandleMap, libraryVars, messageVars, outside>>

Joined == service = "done" /\ message = "done"

StopEnd ==
  /\ stop = "join"
  /\ Joined
  /\ Close(loadedLibs)
  /\ loadedLibs' = {}
  /\ stop' = "done"
  /\ UNCHANGED <<serviceThreadRunning, serviceVars, pluginNameAndHandleMap,
                 handleAndKeySystemMap, keySystems, messageVars, outside>>

-----------------------------------------------------------------------------
(* The user and the network. *)

Agree ==
  /\ statement' \in {"agreed", "invalid"}
  /\ UNCHANGED <<serviceThreadRunning, serviceVars, pluginNameAndHandleMap, libraryVars,
                 messageVars, stop, isNetWork>>

SetIsNetWork ==
  /\ isNetWork' = TRUE
  /\ UNCHANGED <<serviceThreadRunning, serviceVars, pluginNameAndHandleMap, libraryVars,
                 messageVars, stop, statement>>

ServiceThread ==
  \/ \E l \in Lib : DlopenFails(l) \/ Dlopen(l)
  \/ ServiceThreadEnds
  \/ QueryBasicStatement
  \/ CreateMediaKeySystem \/ NoKeySystem \/ InsertHandle \/ StartThread
  \/ ProcessProvisionFails

MessageThread == MessageLoop \/ SwapQueue \/ HandleMessage \/ QueueHandled

Next ==
  \/ OemCertificateManager
  \/ ServiceThread
  \/ MessageThread
  \/ \E l \in Lib : UnLoadOEMCertifaicateService(l)
  \/ StopBegin \/ StopEnd
  \/ Agree \/ SetIsNetWork

Spec == Init /\ [][Next]_vars

(* The threads run, and the stop goes on once it can.  Nothing makes a     *)
(* worker finish, the manager stop, or the user agree.                     *)
FairSpec ==
  /\ Spec
  /\ WF_vars(ServiceThread)
  /\ WF_vars(MessageThread)
  /\ WF_vars(StopEnd)

-----------------------------------------------------------------------------
(* Properties. *)

(* The types; no library is closed twice, neither for its message nor by   *)
(* the stop after it.                                                      *)
TypeOK ==
  /\ serviceThreadRunning \in BOOLEAN
  /\ service \in {"off", "next", "statement", "create", "insert", "start", "done"}
  /\ lib \in Lib \cup {None}
  /\ todo \subseteq Lib
  /\ loadedLibs \subseteq Lib
  /\ pluginNameAndHandleMap \in [Plugin -> Lib \cup {None}]
  /\ handleAndKeySystemMap \subseteq Lib
  /\ keySystems \subseteq Lib
  /\ closes \in [Lib -> 0..1]
  /\ worker \in [Lib -> {"none", "running", "finished", "stopped"}]
  /\ messageQueue \in Seq(Plugin)
  /\ localQueue \in Seq(Plugin)
  /\ message \in {"off", "top", "wait", "handle", "done"}
  /\ stop \in {"off", "join", "done"}
  /\ statement \in {"unset", "agreed", "invalid"}
  /\ isNetWork \in BOOLEAN

Loaded(p) == pluginNameAndHandleMap[p] \in loadedLibs

(* The handle a message leads to is still open when the message is         *)
(* handled, whatever the service thread and the stop do: line 207 calls    *)
(* into the library.                                                       *)
MessagesFindTheirLibrary ==
  stop # "done" =>
    /\ \A i \in DOMAIN messageQueue : Loaded(messageQueue[i])
    /\ \A i \in DOMAIN localQueue : Loaded(localQueue[i])

(* No worker runs in a library that was closed, or with a key system that  *)
(* was destroyed.                                                          *)
WorkersAreSafe ==
  \A l \in Lib : worker[l] = "running" => l \in loadedLibs \cap keySystems

(* A key system the libraries got is destroyed when its library is closed; *)
(* only those of the libraries that are open at the stop are left to the   *)
(* unloading of all hosts.                                                 *)
KeySystemsDestroyed ==
  \A l \in keySystems : l \in loadedLibs \/ (stop = "done" /\ l \in handleAndKeySystemMap)

(* A library is closed only when it is done with: no message for it waits, *)
(* no worker runs in it and its key system is destroyed.                   *)
ClosedIsDoneWith == MessagesFindTheirLibrary /\ WorkersAreSafe /\ KeySystemsDestroyed

AwaitsUser == service = "statement" /\ statement = "unset"

(* A library that says it is finished is closed, though its message may be *)
(* left in the queue by the stop, unless the stop waits for the user.      *)
FinishedIsClosed ==
  \A l \in Lib :
    worker[l] = "finished" ~> (closes[l] = 1 \/ (stop = "join" /\ AwaitsUser))

(* The stop returns, unless it waits for the user: the two joins wait for  *)
(* a thread that goes on without the manager and for one that may miss the *)
(* notification.                                                           *)
StopReturns == stop = "join" ~> (stop = "done" \/ AwaitsUser)

(* What the log of line 818 says, "DRM Net Is Not Connected - waiting for  *)
(* network...": on a TV or a PC no library starts without the network.     *)
StartedWithNetwork == \A l \in Lib : (Asks /\ worker[l] # "none") => isNetWork

=============================================================================
