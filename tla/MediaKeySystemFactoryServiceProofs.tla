---------------- MODULE MediaKeySystemFactoryServiceProofs ----------------
(***************************************************************************)
(* Theorems about MediaKeySystemFactoryService, for any sets of clients,   *)
(* plugins and systems and any limits.                                     *)
(*                                                                         *)
(* No safety invariant is inductive alone.  The counter argument needs the *)
(* registry to agree with the open systems and the open set to be finite;  *)
(* OwnersAreWatched needs that whoever has a listener on file, or a create *)
(* in flight past its check, is watched, slighted or dead; the unloading   *)
(* argument needs that an idle ability has no pid entry at all.  IInv is   *)
(* their conjunction.                                                      *)
(***************************************************************************)
EXTENDS MediaKeySystemFactoryService, FiniteSetTheorems, TLAPS

Finite == IsFiniteSet(clientListenerMap_) /\ IsFiniteSet(open)

Watched ==
  /\ obituary \cap alive = {}
  /\ clientListenerMap_ \cap alive \subseteq watched \cup slighted
  /\ \A p \in alive, n \in Plugin : <<p, n>> \in creating => p \in watched \cup slighted
  /\ \A p \in alive : Systems(p) # {} => p \in watched \cup slighted

EmptyWhenIdle == ability # "ACTIVE" => DOMAIN mediaKeySystemForPid_ = {}

IInv ==
  TypeOK /\ Finite /\ RegistryMatchesHost /\ NeverOvercounts /\ Watched /\ EmptyWhenIdle

-----------------------------------------------------------------------------
(* Maps. *)

(* Inserting a key keeps a map a map.                                      *)
LEMMA PutIsMap ==
  ASSUME NEW S, NEW T, NEW f, IsMap(f, S, T), NEW k \in S, NEW v \in T
  PROVE  IsMap(Put(f, k, v), S, T)
BY DEF IsMap, Put

(* Erasing a key keeps a map a map.                                        *)
LEMMA EraseIsMap ==
  ASSUME NEW S, NEW T, NEW f, IsMap(f, S, T), NEW k
  PROVE  IsMap(Erase(f, k), S, T)
BY DEF IsMap, Erase

(* The systems of a pid are registered ones.                               *)
LEMMA SystemsRegistered ==
  ASSUME NEW p
  PROVE  Systems(p) \subseteq Registered
BY DEF Systems, Registered

-----------------------------------------------------------------------------
(* The initial states. *)

(* The initial states satisfy it. *)
LEMMA InitInv == Init => IInv
<1> SUFFICES ASSUME Init PROVE IInv
  OBVIOUS
<1> USE FactoryAssumption DEF Init
<1>1. TypeOK
  <2>1. Cardinality(clientListenerMap_) <= MaxListeners
    BY FS_EmptySet
  <2>2. /\ IsMap(mediaKeySystemForPid_, Pid, SUBSET System)
        /\ IsMap(currentMediaKeySystemNum_, Plugin, Int)
    BY DEF IsMap
  <2>3. \A n \in Plugin : Num(n) <= MaxSystems
    BY DEF Num
  <2>4. pluginName \in [System -> Plugin \cup {None}]
    OBVIOUS
  <2> QED BY <2>1, <2>2, <2>3, <2>4 DEF TypeOK
<1>2. Finite
  BY FS_EmptySet DEF Finite
<1>3. RegistryMatchesHost
  BY DEF RegistryMatchesHost, Registered
<1>4. NeverOvercounts
  <2>1. \A n : Live(n) = {} /\ Num(n) = 0
    BY DEF Live, Num
  <2>2. Cardinality({}) = 0
    BY FS_EmptySet
  <2>3. \A n \in Plugin : Num(n) <= Cardinality(Live(n))
    <3>1. 0 <= 0
      OBVIOUS
    <3> QED BY <2>1, <2>2, <3>1, Zenon
  <2> QED BY <2>3 DEF NeverOvercounts
<1>5. Watched /\ EmptyWhenIdle
  BY DEF Watched, Systems, EmptyWhenIdle
<1> QED BY <1>1, <1>2, <1>3, <1>4, <1>5 DEF IInv


-----------------------------------------------------------------------------
(* Types. *)

(* The listener table keeps its bound and the open set stays finite.       *)
LEMMA FiniteStep ==
  ASSUME TypeOK, Finite, [Next]_vars
  PROVE  Finite' /\ (Cardinality(clientListenerMap_) <= MaxListeners)'
<1> USE FactoryAssumption
<1>1. CASE UNCHANGED <<clientListenerMap_, open>>
  BY <1>1 DEF Finite, TypeOK
<1>2. ASSUME NEW p \in Pid, SetListenerObject(p)
      PROVE  Finite' /\ (Cardinality(clientListenerMap_) <= MaxListeners)'
  <2> DEFINE others == clientListenerMap_ \ {p}
  <2>1. IsFiniteSet(others) /\ Cardinality(others) <= MaxListeners
        /\ Cardinality(others) \in Nat
    BY FS_RemoveElement, FS_CardinalityType DEF TypeOK, Finite
  <2>2. /\ IsFiniteSet(others \cup {p})
        /\ Cardinality(others \cup {p}) = Cardinality(others) + 1
    BY <2>1, FS_AddElement
  <2>3. open' = open
    BY <1>2 DEF SetListenerObject, registryVars
  <2>4. CASE ListenerFiled(p)
    <3>1. RoomForListener(others) /\ clientListenerMap_' = others \cup {p}
      BY <2>4 DEF ListenerFiled
    <3> QED BY <2>1, <2>2, <2>3, <3>1 DEF RoomForListener, Finite
  <2>5. CASE clientListenerMap_' = others
    BY <2>1, <2>3, <2>5 DEF Finite
  <2> QED BY <1>2, <2>4, <2>5 DEF SetListenerObject, ListenerWatched, ListenerUnwatched
<1>3. ASSUME NEW s \in System, open' = open \cup {s}, UNCHANGED clientListenerMap_
      PROVE  Finite' /\ (Cardinality(clientListenerMap_) <= MaxListeners)'
  BY <1>3, FS_AddElement DEF Finite, TypeOK
<1>4. ASSUME open' \subseteq open, UNCHANGED clientListenerMap_
      PROVE  Finite' /\ (Cardinality(clientListenerMap_) <= MaxListeners)'
  BY <1>4, FS_Subset DEF Finite, TypeOK
<1>5. ASSUME NEW p \in Pid, MediaKeySystemFactoryClientDied(p)
      PROVE  Finite' /\ (Cardinality(clientListenerMap_) <= MaxListeners)'
  <2>1. clientListenerMap_' = clientListenerMap_ \ {p} /\ open' = open
    BY <1>5 DEF MediaKeySystemFactoryClientDied, registryVars
  <2>2. /\ IsFiniteSet(clientListenerMap_ \ {p})
        /\ Cardinality(clientListenerMap_ \ {p}) <= Cardinality(clientListenerMap_)
    BY FS_Subset DEF Finite
  <2>3. Cardinality(clientListenerMap_ \ {p}) \in Nat /\ Cardinality(clientListenerMap_) \in Nat
    BY <2>2, FS_CardinalityType DEF Finite
  <2> QED BY <2>1, <2>2, <2>3 DEF Finite, TypeOK
<1> USE DEF listenerVars, registryVars
<1>6. CASE Query \/ OnIdle \/ OnStop \/ UNCHANGED vars
  BY <1>1, <1>6 DEF Query, OnIdle, OnStop, vars
<1>7. ASSUME NEW p \in Pid, NEW n \in Plugin, IsListenerObjectSet(p, n)
      PROVE  UNCHANGED <<clientListenerMap_, open>>
  BY <1>7 DEF IsListenerObjectSet
<1>8. ASSUME NEW p \in Pid, NEW n \in Plugin, CreateFails(p, n)
      PROVE  UNCHANGED <<clientListenerMap_, open>>
  BY <1>8 DEF CreateFails
<1>9. ASSUME NEW p \in Pid, NEW n \in Plugin, NEW s \in System, CreateNoMemory(p, n, s)
      PROVE  UNCHANGED <<clientListenerMap_, open>>
  BY <1>9 DEF CreateNoMemory
<1>10. ASSUME NEW p \in Pid, NEW n \in Plugin, NEW s \in System,
              CreateMediaKeySystem(p, n, s)
       PROVE  open' = open \cup {s} /\ UNCHANGED clientListenerMap_
  BY <1>10 DEF CreateMediaKeySystem
<1>11. ASSUME NEW s \in System, Release(s)
       PROVE  UNCHANGED <<clientListenerMap_, open>>
  BY <1>11 DEF Release
<1>12. ASSUME NEW s \in System, CloseMediaKeySystemService(s)
       PROVE  open' \subseteq open /\ UNCHANGED clientListenerMap_
  BY <1>12 DEF CloseMediaKeySystemService
<1>13. ASSUME NEW p \in Pid, ClientDies(p)
       PROVE  UNCHANGED <<clientListenerMap_, open>>
  BY <1>13 DEF ClientDies
<1>14. ASSUME NEW p \in Pid, DistroyForClientDied(p)
       PROVE  open' \subseteq open /\ UNCHANGED clientListenerMap_
  BY <1>14 DEF DistroyForClientDied
<1>15. ASSUME NEW n \in Plugin, OnDrmPluginDied(n)
       PROVE  open' \subseteq open /\ UNCHANGED clientListenerMap_
  BY <1>15 DEF OnDrmPluginDied
<1> QED BY <1>1, <1>2, <1>3, <1>4, <1>5, <1>6, <1>7, <1>8, <1>9, <1>10, <1>11, <1>12,
           <1>13, <1>14, <1>15 DEF Next

(* A counter loses at most what it had: the quota bound survives every     *)
(* decrement.                                                              *)
LEMMA CountOffType ==
  ASSUME TypeOK, Finite, RegistryMatchesHost, NEW p
  PROVE  /\ IsMap(CountOff(Systems(p)), Plugin, Int)
         /\ DOMAIN CountOff(Systems(p)) = DOMAIN currentMediaKeySystemNum_
         /\ \A n \in DOMAIN currentMediaKeySystemNum_ :
              /\ CountOff(Systems(p))[n] <= currentMediaKeySystemNum_[n]
              /\ Cardinality({s \in Systems(p) : pluginName[s] = n}) \in Nat
<1> DEFINE gone(n) == {s \in Systems(p) : pluginName[s] = n}
<1>1. \A n : gone(n) \subseteq open
  BY SystemsRegistered DEF RegistryMatchesHost
<1>2. \A n : Cardinality(gone(n)) \in Nat
  BY <1>1, FS_Subset, FS_CardinalityType DEF Finite
<1> HIDE DEF gone
<1>3. CountOff(Systems(p)) =
        [n \in DOMAIN currentMediaKeySystemNum_ |->
           currentMediaKeySystemNum_[n] - Cardinality(gone(n))]
  BY DEF CountOff, gone
<1>4. \A n \in DOMAIN currentMediaKeySystemNum_ : currentMediaKeySystemNum_[n] \in Int
  BY DEF TypeOK, IsMap
<1>5. DOMAIN currentMediaKeySystemNum_ \subseteq Plugin
  BY DEF TypeOK, IsMap
<1>6. \A n \in DOMAIN currentMediaKeySystemNum_ :
        /\ CountOff(Systems(p))[n] \in Int
        /\ CountOff(Systems(p))[n] <= currentMediaKeySystemNum_[n]
  BY <1>2, <1>3, <1>4
<1> QED BY <1>2, <1>3, <1>5, <1>6 DEF IsMap, gone

(* Every step keeps the types.                                             *)
LEMMA TypeStep ==
  ASSUME TypeOK, Finite, RegistryMatchesHost, [Next]_vars
  PROVE  TypeOK'
<1> DEFINE
  Rest == /\ clientListenerMap_ \subseteq Pid
          /\ watched \subseteq clientListenerMap_
          /\ slighted \subseteq Pid
          /\ dying \in Pid \cup {None}
          /\ pluginName \in [System -> Plugin \cup {None}]
          /\ open \subseteq System
          /\ hostRefs \subseteq System
          /\ creating \subseteq Pid \X Plugin
          /\ releasing \subseteq System
          /\ alive \subseteq Pid
          /\ obituary \subseteq Pid
          /\ ability \in {"ACTIVE", "IDLE", "STOPPED"}
  Maps == /\ IsMap(mediaKeySystemForPid_, Pid, SUBSET System)
          /\ IsMap(currentMediaKeySystemNum_, Plugin, Int)
          /\ \A n \in Plugin : Num(n) <= MaxSystems
<1> USE FactoryAssumption DEF callVars, listenerVars, clientVars, registryVars
<1>0. Maps /\ Rest
  BY DEF TypeOK
<1>1. Rest'
  <2> USE <1>0
  <2>1. CASE UNCHANGED vars
    BY <2>1 DEF vars
  <2>2. ASSUME NEW p \in Pid, SetListenerObject(p) PROVE Rest'
    BY <2>2 DEF SetListenerObject, ListenerWatched, ListenerUnwatched, ListenerFiled
  <2>3. CASE Query \/ OnIdle \/ OnStop
    BY <2>3 DEF Query, OnIdle, OnStop, CancelAbilityIdle
  <2>4. ASSUME NEW p \in Pid, NEW n \in Plugin, IsListenerObjectSet(p, n) \/ CreateFails(p, n)
        PROVE  Rest'
    BY <2>4 DEF IsListenerObjectSet, CreateFails, CancelAbilityIdle
  <2>5. ASSUME NEW p \in Pid, NEW n \in Plugin, NEW s \in System,
               CreateNoMemory(p, n, s) \/ CreateMediaKeySystem(p, n, s)
        PROVE  Rest'
    BY <2>5 DEF CreateNoMemory, CreateMediaKeySystem, CancelAbilityIdle
  <2>6. ASSUME NEW s \in System, Release(s) \/ CloseMediaKeySystemService(s) PROVE Rest'
    BY <2>6 DEF Release, CloseMediaKeySystemService, ReleaseMediaKeySystem
  <2>7. ASSUME NEW p \in Pid, ClientDies(p) \/ MediaKeySystemFactoryClientDied(p)
                                \/ DistroyForClientDied(p)
        PROVE  Rest'
    BY <2>7 DEF ClientDies, MediaKeySystemFactoryClientDied, DistroyForClientDied,
                ReleaseMediaKeySystem
  <2>8. ASSUME NEW n \in Plugin, OnDrmPluginDied(n) PROVE Rest'
    BY <2>8 DEF OnDrmPluginDied, ReleaseMediaKeySystem
  <2> QED BY <2>1, <2>2, <2>3, <2>4, <2>5, <2>6, <2>7, <2>8 DEF Next
<1>2. Maps'
  <2> USE <1>0
  <2> DEFINE same == UNCHANGED <<mediaKeySystemForPid_, currentMediaKeySystemNum_>>
  <2>1. CASE same
    BY <2>1 DEF IsMap, Num
  <2>2. ASSUME NEW p \in Pid, NEW n \in Plugin, NEW s \in System,
               CreateMediaKeySystem(p, n, s)
        PROVE  Maps'
    <3>1. /\ mediaKeySystemForPid_' = Put(mediaKeySystemForPid_, p, Systems(p) \cup {s})
          /\ currentMediaKeySystemNum_' = Put(currentMediaKeySystemNum_, n, Num(n) + 1)
          /\ Num(n) < MaxSystems
      BY <2>2 DEF CreateMediaKeySystem, BelowQuota
    <3>2. Systems(p) \cup {s} \in SUBSET System
      BY DEF Systems, IsMap
    <3>3. Num(n) + 1 \in Int
      BY DEF Num, IsMap
    <3>4. \A m \in Plugin : Num(m)' <= MaxSystems
      BY <3>1, <3>3 DEF Num, Put, IsMap
    <3>5. IsMap(mediaKeySystemForPid_', Pid, SUBSET System)
      BY <3>1, <3>2, PutIsMap
    <3>6. IsMap(currentMediaKeySystemNum_', Plugin, Int)
      BY <3>1, <3>3, PutIsMap
    <3> QED BY <3>4, <3>5, <3>6 DEF Num
  <2>3. ASSUME NEW s \in System, CloseMediaKeySystemService(s) PROVE Maps'
    <3>1. IsMap(mediaKeySystemForPid_', Pid, SUBSET System)
      BY <2>3 DEF CloseMediaKeySystemService, IsMap
    <3>2. CASE Num(pluginName[s]) > 0
      <4>1. /\ pluginName[s] \in Plugin
            /\ Num(pluginName[s]) - 1 \in Int
            /\ currentMediaKeySystemNum_' =
                 Put(currentMediaKeySystemNum_, pluginName[s], Num(pluginName[s]) - 1)
        BY <2>3, <3>2 DEF CloseMediaKeySystemService, Num, IsMap
      <4>2. IsMap(currentMediaKeySystemNum_', Plugin, Int)
        BY <4>1, PutIsMap
      <4>3. \A m \in Plugin : Num(m)' <= MaxSystems
        BY <4>1 DEF Num, Put, IsMap
      <4> QED BY <3>1, <4>2, <4>3
    <3>3. CASE ~ (Num(pluginName[s]) > 0)
      BY <2>3, <3>1, <3>3 DEF CloseMediaKeySystemService, Num
    <3> QED BY <3>2, <3>3
  <2>4. ASSUME NEW p \in Pid, DistroyForClientDied(p) PROVE Maps'
    <3>1. /\ mediaKeySystemForPid_' = Erase(mediaKeySystemForPid_, p)
          /\ currentMediaKeySystemNum_' = CountOff(Systems(p))
      BY <2>4 DEF DistroyForClientDied
    <3>2. IsMap(mediaKeySystemForPid_', Pid, SUBSET System)
      BY <3>1, EraseIsMap
    <3>3. IsMap(currentMediaKeySystemNum_', Plugin, Int)
      BY <3>1, CountOffType
    <3>4. \A m \in Plugin : Num(m) \in Int /\ Num(m)' \in Int
      BY <3>3 DEF Num, IsMap
    <3>5. /\ DOMAIN currentMediaKeySystemNum_' = DOMAIN currentMediaKeySystemNum_
          /\ \A m \in DOMAIN currentMediaKeySystemNum_ :
               currentMediaKeySystemNum_'[m] <= currentMediaKeySystemNum_[m]
      BY <3>1, CountOffType
    <3>6. \A m \in Plugin : Num(m)' <= Num(m)
      BY <3>5 DEF Num
    <3>7. \A m \in Plugin : Num(m)' <= MaxSystems
      BY <3>4, <3>6
    <3> QED BY <3>2, <3>3, <3>7
  <2>5. ASSUME NEW n \in Plugin, OnDrmPluginDied(n) PROVE Maps'
    <3>1. IsMap(mediaKeySystemForPid_', Pid, SUBSET System)
      BY <2>5 DEF OnDrmPluginDied, IsMap
    <3>2. currentMediaKeySystemNum_' = Erase(currentMediaKeySystemNum_, n)
      BY <2>5 DEF OnDrmPluginDied
    <3>3. IsMap(currentMediaKeySystemNum_', Plugin, Int)
      BY <3>2, EraseIsMap
    <3>4. \A m \in Plugin : Num(m)' <= MaxSystems
      BY <3>2 DEF Erase, Num, IsMap
    <3> QED BY <3>1, <3>3, <3>4
  <2>6. ASSUME NEW p \in Pid, SetListenerObject(p) \/ ClientDies(p)
                                \/ MediaKeySystemFactoryClientDied(p)
        PROVE  same
    BY <2>6 DEF SetListenerObject, ClientDies, MediaKeySystemFactoryClientDied
  <2>7. ASSUME Query \/ OnIdle \/ OnStop \/ UNCHANGED vars PROVE same
    BY <2>7 DEF Query, OnIdle, OnStop, vars
  <2>8. ASSUME NEW p \in Pid, NEW n \in Plugin, IsListenerObjectSet(p, n) \/ CreateFails(p, n)
        PROVE  same
    BY <2>8 DEF IsListenerObjectSet, CreateFails
  <2>9. ASSUME NEW p \in Pid, NEW n \in Plugin, NEW s \in System, CreateNoMemory(p, n, s)
        PROVE  same
    BY <2>9 DEF CreateNoMemory
  <2>10. ASSUME NEW s \in System, Release(s) PROVE same
    BY <2>10 DEF Release
  <2> HIDE DEF same, Maps
  <2> QED BY <2>1, <2>2, <2>3, <2>4, <2>5, <2>6, <2>7, <2>8, <2>9, <2>10 DEF Next
<1> QED BY <1>1, <1>2, FiniteStep DEF TypeOK


-----------------------------------------------------------------------------
(* The registry, the host and the counters. *)

(* Everything that touches the registry does it in one of five ways; the   *)
(* other steps leave its variables alone.                                  *)
LEMMA RegistryUntouched ==
  ASSUME Next,
         ~ \E p \in Pid, n \in Plugin, s \in System :
             CreateNoMemory(p, n, s) \/ CreateMediaKeySystem(p, n, s),
         ~ \E s \in System : CloseMediaKeySystemService(s),
         ~ \E p \in Pid : DistroyForClientDied(p),
         ~ \E n \in Plugin : OnDrmPluginDied(n)
  PROVE  UNCHANGED registryVars
BY DEF Next, SetListenerObject, Query, OnIdle, OnStop, IsListenerObjectSet, CreateFails,
       Release, ClientDies, MediaKeySystemFactoryClientDied, registryVars

(* Registered systems, open systems and the references of the host stay    *)
(* in step.                                                                *)
LEMMA RegistryStep ==
  ASSUME TypeOK, RegistryMatchesHost, [Next]_vars
  PROVE  RegistryMatchesHost'
<1> USE FactoryAssumption
<1>1. CASE UNCHANGED registryVars
  BY <1>1 DEF registryVars, RegistryMatchesHost, Registered
<1>2. ASSUME NEW p \in Pid, NEW n \in Plugin, NEW s \in System, CreateNoMemory(p, n, s)
      PROVE  RegistryMatchesHost'
  BY <1>2 DEF CreateNoMemory, RegistryMatchesHost, Registered, Fresh
<1>3. ASSUME NEW p \in Pid, NEW n \in Plugin, NEW s \in System,
             CreateMediaKeySystem(p, n, s)
      PROVE  RegistryMatchesHost'
  <2>1. s \notin Registered /\ s \notin open
    BY <1>3 DEF CreateMediaKeySystem, Fresh, RegistryMatchesHost
  <2>2. /\ DOMAIN mediaKeySystemForPid_' = DOMAIN mediaKeySystemForPid_ \cup {p}
        /\ mediaKeySystemForPid_'[p] = Systems(p) \cup {s}
        /\ \A q \in DOMAIN mediaKeySystemForPid_ \ {p} :
             mediaKeySystemForPid_'[q] = mediaKeySystemForPid_[q]
    BY <1>3 DEF CreateMediaKeySystem, Put
  <2>3. Registered' = Registered \cup {s}
    BY <2>2 DEF Registered, Systems
  <2>4. \A q, r \in DOMAIN mediaKeySystemForPid_' :
          q # r => mediaKeySystemForPid_'[q] \cap mediaKeySystemForPid_'[r] = {}
    BY <2>1, <2>2 DEF Registered, Systems, RegistryMatchesHost
  <2>5. /\ open' = open \cup {s}
        /\ hostRefs' = hostRefs \cup {s}
        /\ pluginName' = [pluginName EXCEPT ![s] = n]
    BY <1>3 DEF CreateMediaKeySystem
  <2>6. \A x \in System : pluginName'[x] = IF x = s THEN n ELSE pluginName[x]
    BY <2>5 DEF TypeOK
  <2>7. hostRefs \subseteq System /\ open \subseteq System /\ n # None
    BY DEF TypeOK
  <2> QED BY <2>1, <2>3, <2>4, <2>5, <2>6, <2>7 DEF RegistryMatchesHost
<1>4. ASSUME NEW s \in System, CloseMediaKeySystemService(s) PROVE RegistryMatchesHost'
  <2>1. /\ DOMAIN mediaKeySystemForPid_' = DOMAIN mediaKeySystemForPid_
        /\ \A q \in DOMAIN mediaKeySystemForPid_ :
             mediaKeySystemForPid_'[q] = mediaKeySystemForPid_[q] \ {s}
        /\ open' = open \ {s}
        /\ hostRefs' = hostRefs \ ({s} \cap open)
        /\ UNCHANGED pluginName
    BY <1>4 DEF CloseMediaKeySystemService, ReleaseMediaKeySystem, RegistryMatchesHost
  <2>2. Registered' = Registered \ {s}
    BY <2>1 DEF Registered
  <2> QED BY <2>1, <2>2 DEF RegistryMatchesHost
<1>5. ASSUME NEW p \in Pid, DistroyForClientDied(p) PROVE RegistryMatchesHost'
  <2>1. /\ DOMAIN mediaKeySystemForPid_' = DOMAIN mediaKeySystemForPid_ \ {p}
        /\ \A q \in DOMAIN mediaKeySystemForPid_ \ {p} :
             mediaKeySystemForPid_'[q] = mediaKeySystemForPid_[q]
        /\ open' = open \ Systems(p)
        /\ hostRefs' = hostRefs \ (Systems(p) \cap open)
        /\ UNCHANGED pluginName
    BY <1>5 DEF DistroyForClientDied, ReleaseMediaKeySystem, Erase
  <2>2. Registered' = Registered \ Systems(p)
    BY <2>1 DEF Registered, Systems, RegistryMatchesHost
  <2> QED BY <2>1, <2>2 DEF RegistryMatchesHost
<1>6. ASSUME NEW n \in Plugin, OnDrmPluginDied(n) PROVE RegistryMatchesHost'
  <2> DEFINE S == {s \in Registered : pluginName[s] = n}
             left == {p \in DOMAIN mediaKeySystemForPid_ : mediaKeySystemForPid_[p] \ S # {}}
  <2>1. /\ mediaKeySystemForPid_' = [p \in left |-> mediaKeySystemForPid_[p] \ S]
        /\ open' = open \ S
        /\ hostRefs' = hostRefs \ (S \cap open)
        /\ UNCHANGED pluginName
    BY <1>6 DEF OnDrmPluginDied, ReleaseMediaKeySystem
  <2> HIDE DEF S
  <2>2. Registered' = Registered \ S
    BY <2>1 DEF Registered
  <2>3. \A q, r \in DOMAIN mediaKeySystemForPid_' :
          q # r => mediaKeySystemForPid_'[q] \cap mediaKeySystemForPid_'[r] = {}
    BY <2>1 DEF RegistryMatchesHost
  <2> QED BY <2>1, <2>2, <2>3 DEF RegistryMatchesHost
<1>7. UNCHANGED vars => UNCHANGED registryVars
  BY DEF vars
<1> QED BY <1>1, <1>2, <1>3, <1>4, <1>5, <1>6, <1>7, RegistryUntouched

(* The open systems of a plugin can be counted.                            *)
LEMMA LiveIsFinite ==
  ASSUME Finite, NEW n
  PROVE  IsFiniteSet(Live(n)) /\ Cardinality(Live(n)) \in Nat
<1>1. Live(n) \subseteq open
  BY DEF Live
<1>2. IsFiniteSet(Live(n))
  BY <1>1, FS_Subset DEF Finite
<1> QED BY <1>2, FS_CardinalityType

(* A counter is counted up with a system that opens and down at least as   *)
(* often as one closes.                                                    *)
LEMMA CounterStep ==
  ASSUME TypeOK, Finite, RegistryMatchesHost, NeverOvercounts, [Next]_vars, Finite'
  PROVE  NeverOvercounts'
<1> USE FactoryAssumption
<1>0. \A n \in Plugin : /\ Num(n) \in Int
                        /\ Num(n) <= Cardinality(Live(n))
                        /\ IsFiniteSet(Live(n))
                        /\ Cardinality(Live(n)) \in Nat
                        /\ IsFiniteSet(Live(n)')
                        /\ Cardinality(Live(n)') \in Nat
  <2>1. \A n : IsFiniteSet(Live(n)) /\ Cardinality(Live(n)) \in Nat
    BY LiveIsFinite
  <2>2. \A n : Live(n)' \subseteq open'
    BY DEF Live
  <2>3. \A n : IsFiniteSet(Live(n)') /\ Cardinality(Live(n)') \in Nat
    BY <2>2, FS_Subset, FS_CardinalityType DEF Finite
  <2>4. \A n \in Plugin : Num(n) \in Int
    BY DEF Num, TypeOK, IsMap
  <2> QED BY <2>1, <2>3, <2>4 DEF NeverOvercounts
<1>1. CASE UNCHANGED registryVars
  BY <1>1 DEF registryVars, NeverOvercounts, Num, Live
<1>2. ASSUME NEW p \in Pid, NEW n \in Plugin, NEW s \in System, CreateNoMemory(p, n, s)
      PROVE  NeverOvercounts'
  BY <1>2 DEF CreateNoMemory, NeverOvercounts, Num, Live
<1>3. ASSUME NEW p \in Pid, NEW n \in Plugin, NEW s \in System,
             CreateMediaKeySystem(p, n, s)
      PROVE  NeverOvercounts'
  <2>1. s \notin open
    BY <1>3 DEF CreateMediaKeySystem, Fresh, RegistryMatchesHost
  <2>2. \A x \in System : pluginName'[x] = IF x = s THEN n ELSE pluginName[x]
    BY <1>3 DEF CreateMediaKeySystem, TypeOK
  <2>3. open' = open \cup {s} /\ open \subseteq System
    BY <1>3 DEF CreateMediaKeySystem, TypeOK
  <2>4. Live(n)' = Live(n) \cup {s} /\ s \notin Live(n)
    BY <2>1, <2>2, <2>3 DEF Live
  <2>5. \A m \in Plugin \ {n} : Live(m)' = Live(m)
    BY <2>1, <2>2, <2>3 DEF Live
  <2>6. Cardinality(Live(n)') = Cardinality(Live(n)) + 1
    BY <1>0, <2>4, FS_AddElement
  <2>7. Num(n)' = Num(n) + 1 /\ \A m \in Plugin \ {n} : Num(m)' = Num(m)
    BY <1>3 DEF CreateMediaKeySystem, Put, Num
  <2> QED BY <1>0, <2>5, <2>6, <2>7 DEF NeverOvercounts
<1>4. ASSUME NEW s \in System, CloseMediaKeySystemService(s) PROVE NeverOvercounts'
  <2> SUFFICES ASSUME NEW n \in Plugin PROVE Num(n)' <= Cardinality(Live(n)')
    BY DEF NeverOvercounts
  <2>1. open' = open \ {s} /\ UNCHANGED pluginName
    BY <1>4 DEF CloseMediaKeySystemService, RegistryMatchesHost
  <2>2. CASE pluginName[s] # n
    <3>1. Live(n)' = Live(n) /\ Num(n)' = Num(n)
      BY <1>4, <2>1, <2>2 DEF CloseMediaKeySystemService, Live, Num, Put
    <3> QED BY <1>0, <3>1
  <2>3. CASE pluginName[s] = n
    <3>1. Live(n)' = Live(n) \ {s}
      BY <2>1 DEF Live
    <3>2. Cardinality(Live(n) \ {s}) >= Cardinality(Live(n)) - 1
      BY <1>0, FS_RemoveElement
    <3>3. IF Num(n) > 0 THEN Num(n)' = Num(n) - 1 ELSE Num(n)' = Num(n)
      BY <1>4, <2>3 DEF CloseMediaKeySystemService, Num, Put
    <3> QED BY <1>0, <3>1, <3>2, <3>3
  <2> QED BY <2>2, <2>3
<1>5. ASSUME NEW p \in Pid, DistroyForClientDied(p) PROVE NeverOvercounts'
  <2> SUFFICES ASSUME NEW n \in Plugin PROVE Num(n)' <= Cardinality(Live(n)')
    BY DEF NeverOvercounts
  <2> DEFINE gone == {s \in Systems(p) : pluginName[s] = n}
  <2>1. open' = open \ Systems(p) /\ UNCHANGED pluginName
        /\ currentMediaKeySystemNum_' = CountOff(Systems(p))
    BY <1>5 DEF DistroyForClientDied
  <2>2. gone \subseteq Live(n) /\ Live(n)' = Live(n) \ gone
    BY <2>1, SystemsRegistered DEF Live, RegistryMatchesHost
  <2>3. Cardinality(Live(n)') = Cardinality(Live(n)) - Cardinality(gone)
        /\ Cardinality(gone) \in Nat
    <3> HIDE DEF gone
    <3>1. Live(n) \cap gone = gone
      BY <2>2
    <3>2. IsFiniteSet(gone) /\ Cardinality(gone) \in Nat
      BY <1>0, <2>2, FS_Subset, FS_CardinalityType
    <3>3. Cardinality(Live(n) \ gone) = Cardinality(Live(n)) - Cardinality(Live(n) \cap gone)
      BY <1>0, <3>2, FS_Difference
    <3> QED BY <2>2, <3>1, <3>2, <3>3
  <2>4. CASE n \in DOMAIN currentMediaKeySystemNum_
    <3>1. Num(n)' = Num(n) - Cardinality(gone)
      BY <2>1, <2>4 DEF CountOff, Num
    <3> QED BY <1>0, <2>3, <3>1
  <2>5. CASE n \notin DOMAIN currentMediaKeySystemNum_
    <3>1. Num(n)' = 0
      BY <2>1, <2>5 DEF CountOff, Num
    <3> QED BY <1>0, <3>1
  <2> QED BY <2>4, <2>5
<1>6. ASSUME NEW n \in Plugin, OnDrmPluginDied(n) PROVE NeverOvercounts'
  <2>1. Num(n)' = 0 /\ \A m \in Plugin \ {n} : Num(m)' = Num(m)
    BY <1>6 DEF OnDrmPluginDied, Num, Erase
  <2>2. \A m \in Plugin \ {n} : Live(m)' = Live(m)
    BY <1>6 DEF OnDrmPluginDied, Live
  <2>3. Num(n)' <= Cardinality(Live(n)')
    BY <1>0, <2>1
  <2> QED BY <1>0, <2>1, <2>2, <2>3 DEF NeverOvercounts
<1>7. UNCHANGED vars => UNCHANGED registryVars
  BY DEF vars
<1> QED BY <1>1, <1>2, <1>3, <1>4, <1>5, <1>6, <1>7, RegistryUntouched

-----------------------------------------------------------------------------
(* Clients are watched; an idle ability has no client. *)

(* A create call that passed its check belongs to a client that is watched,*)
(* slighted or dead, and a client that is neither never owns a system.     *)
LEMMA WatchedStep ==
  ASSUME TypeOK, Watched, [Next]_vars
  PROVE  Watched'
<1> USE FactoryAssumption DEF Watched, callVars, listenerVars, clientVars
<1>1. CASE UNCHANGED vars \/ Query \/ OnIdle \/ OnStop
  BY <1>1 DEF vars, registryVars, Query, OnIdle, OnStop, Systems
<1>2. ASSUME NEW p \in Pid, SetListenerObject(p) PROVE Watched'
  <2>1. /\ UNCHANGED <<obituary, alive, creating, mediaKeySystemForPid_>>
        /\ clientListenerMap_' \subseteq clientListenerMap_ \cup {p}
        /\ p \in watched' \cup slighted'
        /\ (watched \cup slighted) \subseteq (watched' \cup slighted')
    BY <1>2 DEF SetListenerObject, ListenerWatched, ListenerUnwatched, ListenerFiled,
       registryVars
  <2>2. \A q \in alive : Systems(q)' = Systems(q)
    BY <2>1 DEF Systems
  <2> QED BY <2>1, <2>2
<1>3. ASSUME NEW p \in Pid, NEW n \in Plugin,
             IsListenerObjectSet(p, n) \/ CreateFails(p, n)
      PROVE  Watched'
  BY <1>3 DEF IsListenerObjectSet, CreateFails, HasListener, registryVars, Systems
<1>4. ASSUME NEW p \in Pid, NEW n \in Plugin, NEW s \in System, CreateNoMemory(p, n, s)
      PROVE  Watched'
  BY <1>4 DEF CreateNoMemory, Systems
<1>5. ASSUME NEW p \in Pid, NEW n \in Plugin, NEW s \in System,
             CreateMediaKeySystem(p, n, s)
      PROVE  Watched'
  BY <1>5 DEF CreateMediaKeySystem, Systems, Put
<1>6. ASSUME NEW s \in System, Release(s) \/ CloseMediaKeySystemService(s) PROVE Watched'
  BY <1>6 DEF Release, CloseMediaKeySystemService, registryVars, Systems
<1>7. ASSUME NEW p \in Pid, ClientDies(p) PROVE Watched'
  BY <1>7 DEF ClientDies, registryVars, Systems
<1>8. ASSUME NEW p \in Pid, MediaKeySystemFactoryClientDied(p) PROVE Watched'
  BY <1>8 DEF MediaKeySystemFactoryClientDied, registryVars, Systems, TypeOK
<1>9. ASSUME NEW p \in Pid, DistroyForClientDied(p) PROVE Watched'
  BY <1>9 DEF DistroyForClientDied, Systems, Erase
<1>10. ASSUME NEW n \in Plugin, OnDrmPluginDied(n) PROVE Watched'
  BY <1>10 DEF OnDrmPluginDied, Systems
<1> QED BY <1>1, <1>2, <1>3, <1>4, <1>5, <1>6, <1>7, <1>8, <1>9, <1>10 DEF Next

(* The ability turns idle when no pid has an entry, and an entry made      *)
(* cancels the idle state.                                                 *)
LEMMA IdleStep ==
  ASSUME TypeOK, EmptyWhenIdle, [Next]_vars
  PROVE  EmptyWhenIdle'
<1> USE DEF EmptyWhenIdle, callVars, listenerVars, clientVars, registryVars
<1>1. CASE UNCHANGED vars \/ Query \/ OnIdle \/ OnStop
  BY <1>1 DEF vars, Query, OnIdle, OnStop, CancelAbilityIdle
<1>2. ASSUME NEW p \in Pid, SetListenerObject(p) \/ ClientDies(p)
                              \/ MediaKeySystemFactoryClientDied(p)
                              \/ DistroyForClientDied(p)
      PROVE  EmptyWhenIdle'
  BY <1>2 DEF SetListenerObject, ClientDies, MediaKeySystemFactoryClientDied,
              DistroyForClientDied, Erase
<1>3. ASSUME NEW p \in Pid, NEW n \in Plugin,
             IsListenerObjectSet(p, n) \/ CreateFails(p, n)
      PROVE  EmptyWhenIdle'
  BY <1>3 DEF IsListenerObjectSet, CreateFails, CancelAbilityIdle
<1>4. ASSUME NEW p \in Pid, NEW n \in Plugin, NEW s \in System,
             CreateNoMemory(p, n, s) \/ CreateMediaKeySystem(p, n, s)
      PROVE  EmptyWhenIdle'
  BY <1>4 DEF CreateNoMemory, CreateMediaKeySystem, CancelAbilityIdle, Running, TypeOK
<1>5. ASSUME NEW s \in System, Release(s) \/ CloseMediaKeySystemService(s)
      PROVE  EmptyWhenIdle'
  BY <1>5 DEF Release, CloseMediaKeySystemService
<1>6. ASSUME NEW n \in Plugin, OnDrmPluginDied(n) PROVE EmptyWhenIdle'
  BY <1>6 DEF OnDrmPluginDied
<1> QED BY <1>1, <1>2, <1>3, <1>4, <1>5, <1>6 DEF Next

-----------------------------------------------------------------------------
(* The theorems. *)

(* Every step keeps it. *)
LEMMA InvStep == IInv /\ [Next]_vars => IInv'
<1> SUFFICES ASSUME IInv, [Next]_vars PROVE IInv'
  OBVIOUS
<1>1. TypeOK /\ Finite /\ RegistryMatchesHost /\ NeverOvercounts /\ Watched /\ EmptyWhenIdle
  BY DEF IInv
<1>2. TypeOK' /\ Finite'
  BY <1>1, TypeStep, FiniteStep
<1>3. RegistryMatchesHost' /\ Watched' /\ EmptyWhenIdle'
  BY <1>1, RegistryStep, WatchedStep, IdleStep
<1>4. NeverOvercounts'
  BY <1>1, <1>2, CounterStep
<1> QED BY <1>2, <1>3, <1>4 DEF IInv

(* The conjunction holds in every reachable state.                         *)
THEOREM Invariance == Spec => []IInv
BY InitInv, InvStep, PTL DEF Spec

(* The variables keep their types, the listener table its limit of         *)
(* MAX_LISTNER_NUM (line 210) and every plugin counter stays at or below   *)
(* the quota (line 265).                                                   *)
THEOREM TypeCorrect == Spec => []TypeOK
<1>1. IInv => TypeOK
  BY DEF IInv
<1> QED BY <1>1, Invariance, PTL

(* The pid registry, the open systems and the references of the host       *)
(* manager agree, for any number of clients, plugins and systems.          *)
THEOREM RegistryCorrect == Spec => []RegistryMatchesHost
<1>1. IInv => RegistryMatchesHost
  BY DEF IInv
<1> QED BY <1>1, Invariance, PTL

(* No interleaving of creates, releases and deaths lets a counter exceed   *)
(* the open systems of its plugin: the quota refuses nobody it should not. *)
THEOREM CounterCorrect == Spec => []NeverOvercounts
<1>1. IInv => NeverOvercounts
  BY DEF IInv
<1> QED BY <1>1, Invariance, PTL

(* Systems come to a client by a create only, and an unwatched client that *)
(* dies was slighted.                                                      *)
LEMMA OrphanStep ==
  ASSUME TypeOK, Watched, [Next]_vars, NEW p \in Pid, Orphaned(p)', ~ Orphaned(p)
  PROVE  \E n \in Plugin : <<p, n>> \in creating \ creating'
<1> USE FactoryAssumption DEF Orphaned, callVars, listenerVars, clientVars
<1>1. CASE UNCHANGED vars \/ Query \/ OnIdle \/ OnStop
  BY <1>1 DEF vars, registryVars, Query, OnIdle, OnStop, Systems
<1>2. ASSUME NEW q \in Pid, SetListenerObject(q) PROVE FALSE
  <2>1. p \notin slighted => q # p
    BY <1>2 DEF SetListenerObject
  <2> QED BY <1>2, <2>1 DEF SetListenerObject, ListenerWatched, ListenerUnwatched,
          registryVars, Systems
<1>3. ASSUME NEW q \in Pid, NEW n \in Plugin,
             \/ IsListenerObjectSet(q, n) \/ CreateFails(q, n)
             \/ \E s \in System : CreateNoMemory(q, n, s)
      PROVE  FALSE
  BY <1>3 DEF IsListenerObjectSet, CreateFails, CreateNoMemory, registryVars, Systems
<1>4. ASSUME NEW q \in Pid, NEW n \in Plugin, NEW s \in System,
             CreateMediaKeySystem(q, n, s)
      PROVE  \E m \in Plugin : <<p, m>> \in creating \ creating'
  <2>1. q # p => Systems(p)' = Systems(p)
    BY <1>4 DEF CreateMediaKeySystem, Systems, Put
  <2>2. q = p
    BY <1>4, <2>1 DEF CreateMediaKeySystem
  <2>3. <<p, n>> \in creating \ creating'
    BY <1>4, <2>2 DEF CreateMediaKeySystem
  <2> QED BY <2>3
<1>5. ASSUME NEW s \in System, Release(s) \/ CloseMediaKeySystemService(s) PROVE FALSE
  <2>1. Systems(p)' \subseteq Systems(p)
    BY <1>5 DEF Release, CloseMediaKeySystemService, registryVars, Systems
  <2> QED BY <1>5, <2>1 DEF Release, CloseMediaKeySystemService
<1>6. ASSUME NEW q \in Pid, ClientDies(q) PROVE FALSE
  BY <1>6 DEF ClientDies, Watched, registryVars, Systems
<1>7. ASSUME NEW q \in Pid, MediaKeySystemFactoryClientDied(q) PROVE FALSE
  BY <1>7 DEF MediaKeySystemFactoryClientDied, registryVars, Systems
<1>8. ASSUME NEW q \in Pid, DistroyForClientDied(q) PROVE FALSE
  <2>1. /\ Systems(p)' \subseteq Systems(p)
        /\ q = p => Systems(p)' = {}
    BY <1>8 DEF DistroyForClientDied, Systems, Erase
  <2> QED BY <1>8, <2>1 DEF DistroyForClientDied
<1>9. ASSUME NEW n \in Plugin, OnDrmPluginDied(n) PROVE FALSE
  <2>1. Systems(p)' \subseteq Systems(p)
    BY <1>9 DEF OnDrmPluginDied, Systems
  <2> QED BY <1>9, <2>1 DEF OnDrmPluginDied
<1> QED BY <1>1, <1>2, <1>3, <1>4, <1>5, <1>6, <1>7, <1>8, <1>9 DEF Next

(* Every living client that owns a system is watched for its death, unless *)
(* its last SetListenerObject failed or its recipient was refused; and the *)
(* systems of a client that was watched are left over only by a create     *)
(* that was under way when it died.                                        *)
THEOREM OwnersCorrect == Spec => OwnersAreWatched
<1>1. IInv => \A p \in alive : Systems(p) # {} => p \in watched \cup slighted
  BY DEF IInv, Watched
<1>2. IInv /\ [Next]_vars =>
        [\A p \in Pid : Orphaned(p)' =>
           Orphaned(p) \/ \E n \in Plugin : <<p, n>> \in creating \ creating']_vars
  BY OrphanStep DEF IInv
<1> QED BY <1>1, <1>2, Invariance, PTL DEF Spec, OwnersAreWatched

(* The ability is never idle or stopped under an open system.              *)
THEOREM UnloadCorrect == Spec => []UnloadedOnlyWhenEmpty
<1>1. IInv => UnloadedOnlyWhenEmpty
  BY DEF IInv, EmptyWhenIdle, UnloadedOnlyWhenEmpty, RegistryMatchesHost, Registered
<1> QED BY <1>1, Invariance, PTL

=============================================================================
