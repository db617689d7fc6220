----------------------- MODULE OemProvisioningProofs -----------------------
(***************************************************************************)
(* Theorems about OemProvisioning, for any set of libraries.               *)
(*                                                                         *)
(* A library is closed by its message, by a failure of the service thread, *)
(* or by the stop.  The three do not meet: the library at hand has no      *)
(* worker yet (AtHand), a message is about a library whose worker is       *)
(* finished and there is one per library (Announced, Once), and what is    *)
(* closed leaves loadedLibs (Libraries).                                   *)
(***************************************************************************)
EXTENDS OemProvisioning, TLAPS

Libraries ==
  \A l \in Lib :
    /\ l \in todo => l \notin loadedLibs /\ worker[l] = "none" /\ closes[l] = 0
    /\ l \in loadedLibs => closes[l] = 0
    /\ l \in handleAndKeySystemMap => l \in loadedLibs \/ stop = "done"
    /\ worker[l] = "running" =>
         /\ l \in loadedLibs \cap keySystems
         /\ pluginNameAndHandleMap[PluginOf[l]] = l
    /\ l \in keySystems => l \in handleAndKeySystemMap \/ (service = "insert" /\ l = lib)

AtHand ==
  service \in {"statement", "create", "insert", "start"} =>
    /\ lib \in loadedLibs
    /\ worker[lib] = "none"
    /\ service \in {"insert", "start"} => lib \in keySystems
    /\ service = "start" => pluginNameAndHandleMap[PluginOf[lib]] = lib

Stopping ==
  /\ service = "off" => stop = "off" /\ ~ serviceThreadRunning
  /\ stop # "off" => ~ serviceThreadRunning
  /\ stop = "done" => service = "done" /\ message = "done"

AnnouncedBy(p) ==
  LET l == pluginNameAndHandleMap[p]
  IN  l \in loadedLibs /\ worker[l] = "finished" /\ PluginOf[l] = p

Announced ==
  stop # "done" =>
    /\ \A i \in 1..Len(messageQueue) : AnnouncedBy(messageQueue[i])
    /\ \A i \in 1..Len(localQueue) : AnnouncedBy(localQueue[i])

Once ==
  stop # "done" =>
    /\ \A i, j \in 1..Len(messageQueue) : messageQueue[i] = messageQueue[j] => i = j
    /\ \A i, j \in 1..Len(localQueue) : localQueue[i] = localQueue[j] => i = j
    /\ \A i \in 1..Len(messageQueue), j \in 1..Len(localQueue) :
         messageQueue[i] # localQueue[j]

IInv == TypeOK /\ Libraries /\ AtHand /\ Stopping /\ Announced /\ Once

-----------------------------------------------------------------------------

(* The initial states satisfy it. *)
LEMMA InitInv == Init => IInv
<1> SUFFICES ASSUME Init PROVE IInv
  OBVIOUS
<1> USE OemAssumption DEF Init
<1>1. TypeOK
  <2>1. /\ pluginNameAndHandleMap \in [Plugin -> {None}]
        /\ closes \in [Lib -> {0}]
        /\ worker \in [Lib -> {"none"}]
        /\ messageQueue \in Seq(Plugin) /\ localQueue \in Seq(Plugin)
    OBVIOUS
  <2>2. /\ pluginNameAndHandleMap \in [Plugin -> Lib \cup {None}]
        /\ closes \in [Lib -> 0..1]
        /\ worker \in [Lib -> {"none", "running", "finished", "stopped"}]
    BY <2>1
  <2> QED BY <2>1, <2>2 DEF TypeOK
<1>2. Libraries /\ AtHand /\ Stopping /\ Announced /\ Once
  BY DEF Libraries, AtHand, Stopping, Announced, Once
<1> QED BY <1>1, <1>2 DEF IInv

-----------------------------------------------------------------------------
(* The steps, one conjunct at a time. *)

(* What is closed was loaded, and what is loaded was not closed.             *)
LEMMA TypeStep == IInv /\ [Next]_vars => TypeOK'
<1> SUFFICES ASSUME IInv, [Next]_vars PROVE TypeOK'
  OBVIOUS
<1> USE OemAssumption DEF IInv, TypeOK, Libraries, AtHand, Stopping, Announced, Once, AnnouncedBy,
            serviceVars, libraryVars, messageVars, outside, ReleaseHandleAndKeySystemMap, Close
<1>1. CASE OemCertificateManager
  BY <1>1 DEF OemCertificateManager
<1>2. ASSUME NEW l \in Lib, DlopenFails(l) \/ Dlopen(l) PROVE TypeOK'
  BY <1>2 DEF DlopenFails, Dlopen
<1>3. CASE ServiceThreadEnds \/ QueryBasicStatement \/ NoKeySystem
  BY <1>3 DEF ServiceThreadEnds, QueryBasicStatement, NoKeySystem
<1>4. CASE CreateMediaKeySystem
  BY <1>4 DEF CreateMediaKeySystem
<1>5. CASE InsertHandle
  BY <1>5 DEF InsertHandle
<1>6. CASE StartThread
  BY <1>6 DEF StartThread
<1>7. CASE ProcessProvisionFails
  BY <1>7 DEF ProcessProvisionFails
<1>8. ASSUME NEW l \in Lib, UnLoadOEMCertifaicateService(l) PROVE TypeOK'
  <2>1. messageQueue' \in Seq(Plugin)
    BY <1>8 DEF UnLoadOEMCertifaicateService
  <2>2. worker' \in [Lib -> {"none", "running", "finished", "stopped"}]
    BY <1>8 DEF UnLoadOEMCertifaicateService
  <2> QED BY <1>8, <2>1, <2>2 DEF UnLoadOEMCertifaicateService
<1>9. CASE MessageLoop \/ QueueHandled
  BY <1>9 DEF MessageLoop, QueueHandled
<1>10. CASE SwapQueue
  BY <1>10 DEF SwapQueue, Swapped
<1>11. CASE HandleMessage
  <2> DEFINE l == pluginNameAndHandleMap[Head(localQueue)]
  <2>1. localQueue' \in Seq(Plugin)
    BY <1>11 DEF HandleMessage
  <2>2. CASE l = None
    <3>1. UNCHANGED libraryVars
      BY <1>11, <2>2 DEF HandleMessage
    <3> QED BY <1>11, <2>1, <3>1 DEF HandleMessage
  <2>3. CASE l # None
    <3>1. ReleaseHandleAndKeySystemMap(l)
      BY <1>11, <2>3 DEF HandleMessage
    <3>2. l \in loadedLibs
      BY <1>11 DEF HandleMessage
    <3>3. closes' \in [Lib -> 0..1]
      BY <3>1, <3>2
    <3>4. worker' \in [Lib -> {"none", "running", "finished", "stopped"}]
      BY <3>1
    <3> QED BY <1>11, <2>1, <3>1, <3>3, <3>4 DEF HandleMessage
  <2> QED BY <2>2, <2>3
<1>12. CASE StopBegin
  BY <1>12 DEF StopBegin
<1>13. CASE StopEnd
  <2>1. closes' \in [Lib -> 0..1]
    BY <1>13 DEF StopEnd
  <2>2. worker' \in [Lib -> {"none", "running", "finished", "stopped"}]
    BY <1>13 DEF StopEnd
  <2>3. UNCHANGED <<serviceThreadRunning, service, lib, todo, pluginNameAndHandleMap,
                    handleAndKeySystemMap, keySystems, messageQueue, localQueue, message,
                    statement, isNetWork>>
    BY <1>13 DEF StopEnd
  <2>4. loadedLibs' \subseteq Lib /\ stop' \in {"off", "join", "done"}
    BY <1>13 DEF StopEnd
  <2> QED BY <2>1, <2>2, <2>3, <2>4
<1>14. CASE Agree \/ SetIsNetWork
  <2>1. UNCHANGED <<serviceThreadRunning, service, lib, todo, pluginNameAndHandleMap,
                    loadedLibs, handleAndKeySystemMap, keySystems, closes, worker,
                    messageQueue, localQueue, message, stop>>
    BY <1>14 DEF Agree, SetIsNetWork
  <2>2. statement' \in {"unset", "agreed", "invalid"} /\ isNetWork' \in BOOLEAN
    BY <1>14 DEF Agree, SetIsNetWork
  <2> QED BY <2>1, <2>2
<1>15. CASE UNCHANGED vars
  BY <1>15 DEF vars
<1> QED
  BY <1>1, <1>2, <1>3, <1>4, <1>5, <1>6, <1>7, <1>8,
     <1>9, <1>10, <1>11, <1>12, <1>13, <1>14, <1>15
  DEF Next, ServiceThread, MessageThread

(* A closed library leaves the list, and a running worker keeps its own.    *)
LEMMA LibrariesStep == IInv /\ [Next]_vars => Libraries'
<1> SUFFICES ASSUME IInv, [Next]_vars PROVE Libraries'
  OBVIOUS
<1> USE OemAssumption DEF IInv, TypeOK, Libraries, AtHand, Stopping, Announced, Once, AnnouncedBy,
            serviceVars, libraryVars, messageVars, outside, ReleaseHandleAndKeySystemMap, Close
<1>1. CASE OemCertificateManager
  BY <1>1 DEF OemCertificateManager
<1>2. ASSUME NEW l \in Lib, DlopenFails(l) \/ Dlopen(l) PROVE Libraries'
  BY <1>2 DEF DlopenFails, Dlopen
<1>3. CASE ServiceThreadEnds \/ QueryBasicStatement \/ NoKeySystem
  BY <1>3 DEF ServiceThreadEnds, QueryBasicStatement, NoKeySystem
<1>4. CASE CreateMediaKeySystem
  BY <1>4 DEF CreateMediaKeySystem
<1>5. CASE InsertHandle
  BY <1>5 DEF InsertHandle
<1>6. CASE StartThread
  BY <1>6 DEF StartThread
<1>7. CASE ProcessProvisionFails
  BY <1>7 DEF ProcessProvisionFails
<1>8. ASSUME NEW l \in Lib, UnLoadOEMCertifaicateService(l) PROVE Libraries'
  BY <1>8 DEF UnLoadOEMCertifaicateService
<1>9. CASE MessageLoop \/ QueueHandled
  BY <1>9 DEF MessageLoop, QueueHandled
<1>10. CASE SwapQueue
  BY <1>10 DEF SwapQueue, Swapped
<1>11. CASE HandleMessage
  BY <1>11 DEF HandleMessage
<1>12. CASE StopBegin
  BY <1>12 DEF StopBegin
<1>13. CASE StopEnd
  BY <1>13 DEF StopEnd, Joined
<1>14. CASE Agree \/ SetIsNetWork
  BY <1>14 DEF Agree, SetIsNetWork
<1>15. CASE UNCHANGED vars
  BY <1>15 DEF vars
<1> QED
  BY <1>1, <1>2, <1>3, <1>4, <1>5, <1>6, <1>7, <1>8,
     <1>9, <1>10, <1>11, <1>12, <1>13, <1>14, <1>15
  DEF Next, ServiceThread, MessageThread

(* The library at hand has no worker, so no message is about it.            *)
LEMMA AtHandStep == IInv /\ [Next]_vars => AtHand'
<1> SUFFICES ASSUME IInv, [Next]_vars PROVE AtHand'
  OBVIOUS
<1> USE OemAssumption DEF IInv, TypeOK, Libraries, AtHand, Stopping, Announced, Once, AnnouncedBy,
            serviceVars, libraryVars, messageVars, outside, ReleaseHandleAndKeySystemMap, Close
<1>1. CASE OemCertificateManager
  BY <1>1 DEF OemCertificateManager
<1>2. ASSUME NEW l \in Lib, DlopenFails(l) \/ Dlopen(l) PROVE AtHand'
  BY <1>2 DEF DlopenFails, Dlopen
<1>3. CASE ServiceThreadEnds \/ QueryBasicStatement \/ NoKeySystem
  BY <1>3 DEF ServiceThreadEnds, QueryBasicStatement, NoKeySystem
<1>4. CASE CreateMediaKeySystem
  BY <1>4 DEF CreateMediaKeySystem
<1>5. CASE InsertHandle
  BY <1>5 DEF InsertHandle
<1>6. CASE StartThread
  BY <1>6 DEF StartThread
<1>7. CASE ProcessProvisionFails
  BY <1>7 DEF ProcessProvisionFails
<1>8. ASSUME NEW l \in Lib, UnLoadOEMCertifaicateService(l) PROVE AtHand'
  BY <1>8 DEF UnLoadOEMCertifaicateService
<1>9. CASE MessageLoop \/ QueueHandled
  BY <1>9 DEF MessageLoop, QueueHandled
<1>10. CASE SwapQueue
  BY <1>10 DEF SwapQueue, Swapped
<1>11. CASE HandleMessage
  BY <1>11 DEF HandleMessage
<1>12. CASE StopBegin
  BY <1>12 DEF StopBegin
<1>13. CASE StopEnd
  BY <1>13 DEF StopEnd, Joined
<1>14. CASE Agree \/ SetIsNetWork
  BY <1>14 DEF Agree, SetIsNetWork
<1>15. CASE UNCHANGED vars
  BY <1>15 DEF vars
<1> QED
  BY <1>1, <1>2, <1>3, <1>4, <1>5, <1>6, <1>7, <1>8,
     <1>9, <1>10, <1>11, <1>12, <1>13, <1>14, <1>15
  DEF Next, ServiceThread, MessageThread

(* The stop closes when both threads are gone.                              *)
LEMMA StoppingStep == IInv /\ [Next]_vars => Stopping'
<1> SUFFICES ASSUME IInv, [Next]_vars PROVE Stopping'
  OBVIOUS
<1> USE OemAssumption DEF IInv, TypeOK, Libraries, AtHand, Stopping, Announced, Once, AnnouncedBy,
            serviceVars, libraryVars, messageVars, outside, ReleaseHandleAndKeySystemMap, Close
<1>1. CASE OemCertificateManager
  BY <1>1 DEF OemCertificateManager
<1>2. ASSUME NEW l \in Lib, DlopenFails(l) \/ Dlopen(l) PROVE Stopping'
  BY <1>2 DEF DlopenFails, Dlopen
<1>3. CASE ServiceThreadEnds \/ QueryBasicStatement \/ NoKeySystem
  BY <1>3 DEF ServiceThreadEnds, QueryBasicStatement, NoKeySystem
<1>4. CASE CreateMediaKeySystem
  BY <1>4 DEF CreateMediaKeySystem
<1>5. CASE InsertHandle
  BY <1>5 DEF InsertHandle
<1>6. CASE StartThread
  BY <1>6 DEF StartThread
<1>7. CASE ProcessProvisionFails
  BY <1>7 DEF ProcessProvisionFails
<1>8. ASSUME NEW l \in Lib, UnLoadOEMCertifaicateService(l) PROVE Stopping'
  BY <1>8 DEF UnLoadOEMCertifaicateService
<1>9. CASE MessageLoop \/ QueueHandled
  BY <1>9 DEF MessageLoop, QueueHandled
<1>10. CASE SwapQueue
  BY <1>10 DEF SwapQueue, Swapped
<1>11. CASE HandleMessage
  BY <1>11 DEF HandleMessage
<1>12. CASE StopBegin
  BY <1>12 DEF StopBegin
<1>13. CASE StopEnd
  BY <1>13 DEF StopEnd, Joined
<1>14. CASE Agree \/ SetIsNetWork
  BY <1>14 DEF Agree, SetIsNetWork
<1>15. CASE UNCHANGED vars
  BY <1>15 DEF vars
<1> QED
  BY <1>1, <1>2, <1>3, <1>4, <1>5, <1>6, <1>7, <1>8,
     <1>9, <1>10, <1>11, <1>12, <1>13, <1>14, <1>15
  DEF Next, ServiceThread, MessageThread

(* Messages are about loaded libraries whose worker is finished.            *)
LEMMA AnnouncedStep == IInv /\ [Next]_vars => Announced'
<1> SUFFICES ASSUME IInv, [Next]_vars PROVE Announced'
  OBVIOUS
<1> USE OemAssumption DEF IInv, TypeOK, Libraries, AtHand, Stopping, Announced, Once, AnnouncedBy,
            serviceVars, libraryVars, messageVars, outside, ReleaseHandleAndKeySystemMap, Close
<1>1. CASE OemCertificateManager
  BY <1>1 DEF OemCertificateManager
<1>2. ASSUME NEW l \in Lib, DlopenFails(l) \/ Dlopen(l) PROVE Announced'
  BY <1>2 DEF DlopenFails, Dlopen
<1>3. CASE ServiceThreadEnds \/ QueryBasicStatement \/ NoKeySystem
  BY <1>3 DEF ServiceThreadEnds, QueryBasicStatement, NoKeySystem
<1>4. CASE CreateMediaKeySystem
  BY <1>4 DEF CreateMediaKeySystem
<1>5. CASE InsertHandle
  BY <1>5 DEF InsertHandle
<1>6. CASE StartThread
  BY <1>6 DEF StartThread
<1>7. CASE ProcessProvisionFails
  BY <1>7 DEF ProcessProvisionFails
<1>8. ASSUME NEW l \in Lib, UnLoadOEMCertifaicateService(l) PROVE Announced'
  BY <1>8 DEF UnLoadOEMCertifaicateService
<1>9. CASE MessageLoop \/ QueueHandled
  BY <1>9 DEF MessageLoop, QueueHandled
<1>10. CASE SwapQueue
  BY <1>10 DEF SwapQueue, Swapped
<1>11. CASE HandleMessage
  BY <1>11 DEF HandleMessage
<1>12. CASE StopBegin
  BY <1>12 DEF StopBegin
<1>13. CASE StopEnd
  BY <1>13 DEF StopEnd, Joined
<1>14. CASE Agree \/ SetIsNetWork
  BY <1>14 DEF Agree, SetIsNetWork
<1>15. CASE UNCHANGED vars
  BY <1>15 DEF vars
<1> QED
  BY <1>1, <1>2, <1>3, <1>4, <1>5, <1>6, <1>7, <1>8,
     <1>9, <1>10, <1>11, <1>12, <1>13, <1>14, <1>15
  DEF Next, ServiceThread, MessageThread

(* There is one message per library.                                        *)
LEMMA OnceStep == IInv /\ [Next]_vars => Once'
<1> SUFFICES ASSUME IInv, [Next]_vars PROVE Once'
  OBVIOUS
<1> USE OemAssumption DEF IInv, TypeOK, Libraries, AtHand, Stopping, Announced, Once, AnnouncedBy,
            serviceVars, libraryVars, messageVars, outside, ReleaseHandleAndKeySystemMap, Close
<1>1. CASE OemCertificateManager
  BY <1>1 DEF OemCertificateManager
<1>2. ASSUME NEW l \in Lib, DlopenFails(l) \/ Dlopen(l) PROVE Once'
  BY <1>2 DEF DlopenFails, Dlopen
<1>3. CASE ServiceThreadEnds \/ QueryBasicStatement \/ NoKeySystem
  BY <1>3 DEF ServiceThreadEnds, QueryBasicStatement, NoKeySystem
<1>4. CASE CreateMediaKeySystem
  BY <1>4 DEF CreateMediaKeySystem
<1>5. CASE InsertHandle
  BY <1>5 DEF InsertHandle
<1>6. CASE StartThread
  BY <1>6 DEF StartThread
<1>7. CASE ProcessProvisionFails
  BY <1>7 DEF ProcessProvisionFails
<1>8. ASSUME NEW l \in Lib, UnLoadOEMCertifaicateService(l) PROVE Once'
  BY <1>8 DEF UnLoadOEMCertifaicateService
<1>9. CASE MessageLoop \/ QueueHandled
  BY <1>9 DEF MessageLoop, QueueHandled
<1>10. CASE SwapQueue
  BY <1>10 DEF SwapQueue, Swapped
<1>11. CASE HandleMessage
  BY <1>11 DEF HandleMessage
<1>12. CASE StopBegin
  BY <1>12 DEF StopBegin
<1>13. CASE StopEnd
  BY <1>13 DEF StopEnd, Joined
<1>14. CASE Agree \/ SetIsNetWork
  BY <1>14 DEF Agree, SetIsNetWork
<1>15. CASE UNCHANGED vars
  BY <1>15 DEF vars
<1> QED
  BY <1>1, <1>2, <1>3, <1>4, <1>5, <1>6, <1>7, <1>8,
     <1>9, <1>10, <1>11, <1>12, <1>13, <1>14, <1>15
  DEF Next, ServiceThread, MessageThread

-----------------------------------------------------------------------------
(* The theorems. *)

(* The inductive invariant holds in every reachable state.                 *)
THEOREM Invariance == Spec => []IInv
<1>1. IInv /\ [Next]_vars => IInv'
  BY TypeStep, LibrariesStep, AtHandStep, StoppingStep, AnnouncedStep, OnceStep DEF IInv
<1> QED BY <1>1, InitInv, PTL DEF Spec

(* The types, and with them that no library is closed twice, by            *)
(* ReleaseHandleAndKeySystemMap or StopServiceThread.                      *)
THEOREM TypeCorrect == Spec => []TypeOK
<1>1. IInv => TypeOK
  BY DEF IInv
<1> QED BY <1>1, Invariance, PTL

(* The handle ProcessMessage finds for a message is still open.            *)
THEOREM MessagesCorrect == Spec => []MessagesFindTheirLibrary
<1>1. IInv => MessagesFindTheirLibrary
  BY DEF IInv, TypeOK, Announced, AnnouncedBy, MessagesFindTheirLibrary, Loaded
<1> QED BY <1>1, Invariance, PTL

(* No worker runs in a closed library or with a destroyed key system.      *)
THEOREM WorkersCorrect == Spec => []WorkersAreSafe
<1>1. IInv => WorkersAreSafe
  BY DEF IInv, Libraries, WorkersAreSafe
<1> QED BY <1>1, Invariance, PTL

(* The key system of a library is destroyed when it is closed, unless by   *)
(* the stop.                                                               *)
THEOREM KeySystemsCorrect == Spec => []KeySystemsDestroyed
<1>1. IInv => KeySystemsDestroyed
  BY DEF IInv, TypeOK, Libraries, AtHand, Stopping, KeySystemsDestroyed
<1> QED BY <1>1, Invariance, PTL

(* ReleaseHandleAndKeySystemMap and StopServiceThread close a library that *)
(* is done with: no message, no worker, no key system of it is left.       *)
THEOREM ClosingCorrect == Spec => []ClosedIsDoneWith
<1>1. MessagesFindTheirLibrary /\ WorkersAreSafe /\ KeySystemsDestroyed => ClosedIsDoneWith
  BY DEF ClosedIsDoneWith
<1> QED BY <1>1, MessagesCorrect, WorkersCorrect, KeySystemsCorrect, PTL

=============================================================================
