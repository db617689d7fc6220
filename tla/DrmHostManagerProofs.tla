------------------------ MODULE DrmHostManagerProofs ------------------------
(***************************************************************************)
(* Theorems about DrmHostManager, for any finite set of key systems.       *)
(*                                                                         *)
(* The difference of the counter and the proxies in use moves only when    *)
(* the counter is reset, so it has a band of its own (Band) and the        *)
(* counter is bounded.  That all notices are handled says something of the *)
(* counter only because every proxy in use has a recipient, attached or    *)
(* notified (WatchedNames), and a counter that is off is never timed       *)
(* (Counted).                                                              *)
(***************************************************************************)
EXTENDS DrmHostManager, FiniteSetTheorems, TLAPS

InBand(c, S) ==
  /\ NOT_LAZY_LOADDED - Cardinality(System) <= c - Cardinality(S)
  /\ c - Cardinality(S) <= 0

Booked(c, t, S) ==
  \/ c = Cardinality(S)
  \/ c = NOT_LAZY_LOADDED + Cardinality(S) /\ t = NOT_LAZY_LOADDED

Band == InBand(count, named)

WatchedNames ==
  /\ named \subseteq recipients \cup notices
  /\ ~ running => recipients = {}

Counted == notices = {} => Booked(count, timeout, named)

LivingCounted == handlers = {} => current \subseteq named

IInv == TypeOK /\ Band /\ WatchedNames /\ Counted /\ LivingCounted

-----------------------------------------------------------------------------
(* Counting proxies. *)

(* The proxies in use can be counted.                                      *)
LEMMA Countable ==
  ASSUME NEW S \in SUBSET System
  PROVE  /\ IsFiniteSet(S)
         /\ Cardinality(S) \in Nat
         /\ Cardinality(System) \in Nat
         /\ Cardinality(S) <= Cardinality(System)
BY HostAssumption, FS_Subset, FS_CardinalityType

(* One proxy more.                                                         *)
LEMMA OneMore ==
  ASSUME NEW S \in SUBSET System, NEW s \in System, s \notin S
  PROVE  Cardinality(S \cup {s}) = Cardinality(S) + 1
BY Countable, FS_AddElement

(* One proxy less.                                                         *)
LEMMA OneLess ==
  ASSUME NEW S \in SUBSET System, NEW s \in S
  PROVE  Cardinality(S \ {s}) = Cardinality(S) - 1
BY Countable, FS_RemoveElement

(* No proxy.                                                               *)
LEMMA NoProxy ==
  ASSUME NEW S \in SUBSET System
  PROVE  Cardinality(S) = 0 <=> S = {}
BY Countable, FS_EmptySet

(* The mark is out of reach of the counting.                               *)
LEMMA Mark ==
  /\ Cardinality(System) \in Nat
  /\ NOT_LAZY_LOADDED \in Int
  /\ NOT_LAZY_LOADDED < 0
  /\ NOT_LAZY_LOADDED + Cardinality(System) < 0
  /\ NOT_LAZY_LOADDED \notin 1..UnloadTime
BY HostAssumption, Countable DEF NOT_LAZY_LOADDED

(* A counter whose difference is in the band is within reach.              *)
LEMMA WithinReach ==
  ASSUME NEW c \in Int, NEW S \in SUBSET System,
         InBand(c, S)
  PROVE  c \in (NOT_LAZY_LOADDED - Cardinality(System)) .. Cardinality(System)
<1>1. Cardinality(S) \in Nat /\ Cardinality(System) \in Nat
      /\ Cardinality(S) <= Cardinality(System)
  BY Countable
<1> QED BY <1>1, Mark DEF InBand

-----------------------------------------------------------------------------
(* The initial state. *)

(* The initial states satisfy it. *)
LEMMA InitInv == Init => IInv
<1> SUFFICES ASSUME Init PROVE IInv
  OBVIOUS
<1> USE DEF Init
<1>1. Cardinality(named) = 0
  BY FS_EmptySet
<1>2. Band /\ Counted
  BY <1>1, Mark DEF Band, InBand, Counted, Booked
<1>3. count \in (NOT_LAZY_LOADDED - Cardinality(System)) .. Cardinality(System)
  BY Mark
<1>5. timeout \in {NOT_LAZY_LOADDED} \cup 1..UnloadTime
  OBVIOUS
<1>6. TypeOK
  BY <1>3, <1>5 DEF TypeOK
<1>4. WatchedNames /\ LivingCounted
  BY DEF WatchedNames, LivingCounted
<1> QED BY <1>2, <1>4, <1>6 DEF IInv

-----------------------------------------------------------------------------
(* The steps. *)

Shape ==
  /\ running \in BOOLEAN
  /\ timeout \in {NOT_LAZY_LOADDED} \cup 1..UnloadTime
  /\ named \subseteq System
  /\ held \subseteq System
  /\ current \subseteq held
  /\ recipients \subseteq System
  /\ notices \subseteq System
  /\ handlers \subseteq System
  /\ burying \in handlers \cup {None}

(* What of the invariant the steps use.                                    *)
LEMMA Known ==
  ASSUME IInv
  PROVE  /\ Shape /\ WatchedNames /\ LivingCounted
         /\ count \in Int /\ Cardinality(named) \in Nat
         /\ Cardinality(named) <= Cardinality(System)
         /\ InBand(count, named)
         /\ notices = {} => Booked(count, timeout, named)
<1>1. /\ TypeOK /\ Band /\ WatchedNames /\ Counted /\ LivingCounted
  BY DEF IInv
<1>2. Shape /\ count \in Int
  BY <1>1, Mark DEF TypeOK, Shape
<1>3. Cardinality(named) \in Nat /\ Cardinality(named) <= Cardinality(System)
  BY <1>2, Countable DEF Shape
<1> QED BY <1>1, <1>2, <1>3 DEF Band, Counted

(* What of the invariant a step has to establish.                          *)
LEMMA Assembled ==
  ASSUME Shape', WatchedNames', LivingCounted', count' \in Int,
         InBand(count', named'),
         notices' = {} => Booked(count', timeout', named')
  PROVE  IInv'
<1>1. Band' /\ Counted'
  BY DEF Band, Counted, InBand, Booked
<1>2. count' \in (NOT_LAZY_LOADDED - Cardinality(System)) .. Cardinality(System)
  BY WithinReach DEF Shape
<1>3. TypeOK'
  BY <1>2 DEF TypeOK, Shape
<1> QED BY <1>1, <1>3 DEF IInv

(* The counter that LazyLoadPlugin goes on with.                           *)
LEMMA LoadedBooked ==
  ASSUME IInv
  PROVE  /\ Loaded \in Int
         /\ InBand(Loaded, named)
         /\ notices = {} => Booked(Loaded, timeout, named)
<1>1. CASE running
  BY <1>1, Known DEF Loaded
<1>2. CASE ~ running
  <2>1. Loaded = 0
    BY <1>2 DEF Loaded
  <2>2. InBand(0, named)
    BY Known, Mark DEF InBand
  <2>3. notices = {} => named = {}
    BY <1>2, Known DEF WatchedNames
  <2>4. notices = {} => Cardinality(named) = 0
    BY <2>3, FS_EmptySet
  <2> QED BY <2>1, <2>2, <2>4 DEF Booked
<1> QED BY <1>1, <1>2

(* A call that leaves no proxy behind: at most it starts the timer of a    *)
(* counter at zero.                                                        *)
LEMMA PassingCall ==
  ASSUME IInv,
         running' = TRUE, count' = Loaded,
         timeout' = timeout \/ (timeout' = UnloadTime /\ Loaded = 0),
         recipients \subseteq recipients', recipients' \subseteq System,
         UNCHANGED <<named, held, current, deathVars>>
  PROVE  IInv'
<1> USE DEF deathVars
<1>1. Shape' /\ WatchedNames' /\ LivingCounted'
  <2>1. UnloadTime \in 1..UnloadTime
    BY HostAssumption
  <2> QED BY <2>1, Known DEF Shape, WatchedNames, LivingCounted
<1>2. count' \in Int /\ InBand(count', named')
  BY LoadedBooked DEF InBand
<1>3. ASSUME notices' = {} PROVE Booked(count', timeout', named')
  BY <1>3, LoadedBooked, Known, Mark DEF Booked
<1> QED BY <1>1, <1>2, <1>3, Assembled

(* A call that leaves a proxy behind.                                      *)
LEMMA CountingCall ==
  ASSUME IInv, NEW s \in System, s \notin named,
         running' = TRUE, count' = Loaded + 1,
         named' = named \cup {s}, recipients' = recipients \cup {s},
         held \subseteq held', held' \subseteq System,
         current' \subseteq current \cup {s}, current' \subseteq held',
         UNCHANGED <<timeout, deathVars>>
  PROVE  IInv'
<1> USE DEF deathVars
<1>1. Shape' /\ WatchedNames' /\ LivingCounted'
  BY Known DEF Shape, WatchedNames, LivingCounted
<1>2. Cardinality(named') = Cardinality(named) + 1
  BY OneMore, Known DEF Shape
<1>3. count' \in Int /\ InBand(count', named')
  BY <1>2, LoadedBooked, Known, Mark DEF InBand
<1>4. ASSUME notices' = {} PROVE Booked(count', timeout', named')
  BY <1>2, <1>4, LoadedBooked, Known, Mark DEF Booked
<1> QED BY <1>1, <1>3, <1>4, Assembled

(* Calls and releases keep it. *)
LEMMA UseStep == IInv /\ Use => IInv'
<1> SUFFICES ASSUME IInv, Use PROVE IInv'
  OBVIOUS
<1>1. CASE LoadFails
  <2> USE <1>1 DEF LoadFails, mapVars, deathVars
  <2>1. Shape' /\ WatchedNames' /\ LivingCounted'
    <3>1. UnloadTime \in 1..UnloadTime
      BY HostAssumption
    <3> QED BY <3>1, Known DEF Shape, WatchedNames, LivingCounted
  <2>2. count' \in Int /\ InBand(count', named')
    BY Known DEF InBand
  <2>3. ASSUME notices' = {} PROVE Booked(count', timeout', named')
    BY <2>3, Known, Mark DEF Booked
  <2> QED BY <2>1, <2>2, <2>3, Assembled
<1>2. CASE Unsupported
  BY <1>2, PassingCall, Known DEF Unsupported, Loaded, mapVars, Shape
<1>3. CASE RecipientRefused
  BY <1>3, PassingCall, Known DEF RecipientRefused, mapVars, Shape
<1>4. CASE Query
  BY <1>4, PassingCall, Known DEF Query, mapVars, Shape
<1>5. ASSUME NEW s \in System, CreateFails(s) PROVE IInv'
  BY <1>5, PassingCall, Known DEF CreateFails, Shape
<1>6. ASSUME NEW s \in System, CreateMediaKeySystem(s) PROVE IInv'
  BY <1>6, CountingCall, Known DEF CreateMediaKeySystem, Fresh, Shape
<1>7. ASSUME NEW s \in System, CreateNull(s) PROVE IInv'
  BY <1>7, CountingCall, Known DEF CreateNull, Fresh, Shape
<1> QED BY <1>1, <1>2, <1>3, <1>4, <1>5, <1>6, <1>7 DEF Use

(* A key system goes, called for or after the death of its host.           *)
LEMMA GiveBackStep ==
  ASSUME IInv, NEW s \in System, GiveBack(s)
  PROVE  IInv'
<1> USE DEF GiveBack, ReleaseSevices, deathVars
<1>1. named' = named \ {s} /\ UNCHANGED <<notices, handlers, burying, running>>
  OBVIOUS
<1>2. CASE s \in named
  <2>1. /\ Cardinality(named') = Cardinality(named) - 1
        /\ Cardinality(named') \in Nat
    BY <1>1, <1>2, OneLess, Countable, Known DEF Shape
  <2>2. count' = count - 1 /\ timeout' = IF count - 1 = 0 THEN UnloadTime ELSE timeout
    BY <1>2 DEF CountedOff, TimerAfter
  <2>3. count' \in Int /\ InBand(count', named')
    BY <2>1, <2>2, Known, Mark DEF InBand
  <2>4. ASSUME notices' = {} PROVE Booked(count', timeout', named')
    BY <1>1, <2>1, <2>2, <2>4, Known, Mark DEF Booked
  <2>5. UnloadTime \in 1..UnloadTime
    BY HostAssumption
  <2>6. Shape' /\ WatchedNames' /\ LivingCounted'
    BY <2>2, <2>5, Known DEF Shape, WatchedNames, LivingCounted
  <2> QED BY <2>3, <2>4, <2>6, Assembled
<1>3. CASE s \notin named
  <2>1. named' = named /\ count' = count /\ timeout' = timeout
    BY <1>3 DEF CountedOff, TimerAfter
  <2>2. Shape' /\ WatchedNames' /\ LivingCounted'
    BY <1>3, <2>1, Known DEF Shape, WatchedNames, LivingCounted
  <2>3. count' \in Int /\ InBand(count', named')
    BY <2>1, Known
  <2>4. ASSUME notices' = {} PROVE Booked(count', timeout', named')
    BY <1>1, <2>1, <2>4, Known
  <2> QED BY <2>2, <2>3, <2>4, Assembled
<1> QED BY <1>2, <1>3

(* The death of a host keeps it. *)
LEMMA HostDiesStep == IInv /\ HostDies => IInv'
<1> SUFFICES ASSUME IInv, HostDies PROVE IInv'
  OBVIOUS
<1> USE DEF HostDies, HostExits
<1>1. Shape' /\ WatchedNames' /\ LivingCounted'
  BY Known DEF Shape, WatchedNames, LivingCounted
<1>2. count' \in Int /\ InBand(count', named')
  BY Known
<1>3. ASSUME notices' = {} PROVE Booked(count', timeout', named')
  BY <1>3, Known
<1> QED BY <1>1, <1>2, <1>3, Assembled

(* A counter that is timed is the number of proxies.                       *)
LEMMA TimedIsUnused ==
  ASSUME IInv, Unused, timeout > NOT_LAZY_LOADDED, notices = {}
  PROVE  count = 0 /\ Cardinality(named) = 0 /\ named = {}
<1>1. count = Cardinality(named) /\ count <= 0
  BY Known, Mark DEF Booked, Unused, Shape
<1>2. Cardinality(named) = 0
  BY <1>1, Known
<1>3. named = {}
  BY <1>2, NoProxy, Known DEF Shape
<1> QED BY <1>1, <1>2, <1>3

(* The timer keeps it. *)
LEMMA DelayedLazyUnLoadStep == IInv /\ DelayedLazyUnLoad => IInv'
<1> SUFFICES ASSUME IInv, DelayedLazyUnLoad PROVE IInv'
  OBVIOUS
<1>1. /\ Unused /\ timeout > NOT_LAZY_LOADDED /\ UNCHANGED <<named, held, handlers, burying>>
      /\ \/ HostExits
         \/ UNCHANGED <<running, current, notices, recipients>>
  BY DEF DelayedLazyUnLoad
<1>2. WatchedNames' /\ LivingCounted'
  BY <1>1, Known DEF HostExits, WatchedNames, LivingCounted
<1>3. notices' = {} => notices = {}
  BY <1>1 DEF HostExits
<1>4. /\ running' \in BOOLEAN /\ named' \subseteq System /\ held' \subseteq System
      /\ current' \subseteq held' /\ recipients' \subseteq System /\ notices' \subseteq System
      /\ handlers' \subseteq System /\ burying' \in handlers' \cup {None}
  BY <1>1, Known DEF HostExits, Shape
<1>5. CASE Due
  <2>1. count' = NOT_LAZY_LOADDED /\ timeout' = NOT_LAZY_LOADDED /\ named' = named
    BY <1>1, <1>5 DEF DelayedLazyUnLoad
  <2>2. count' \in Int /\ InBand(count', named')
    BY <2>1, Known, Mark DEF InBand
  <2>3. ASSUME notices' = {} PROVE Booked(count', timeout', named')
    BY <1>1, <1>3, <2>1, <2>3, TimedIsUnused, Mark DEF Booked
  <2>4. Shape'
    BY <1>4, <2>1 DEF Shape
  <2> QED BY <1>2, <2>2, <2>3, <2>4, Assembled
<1>6. CASE ~ Due
  <2>1. count' = count /\ timeout' = timeout - CheckTime /\ named' = named
    BY <1>1, <1>6 DEF DelayedLazyUnLoad
  <2>2. count' \in Int /\ InBand(count', named')
    BY <2>1, Known
  <2>3. ASSUME notices' = {} PROVE Booked(count', timeout', named')
    BY <1>1, <1>3, <2>1, <2>3, TimedIsUnused DEF Booked
  <2>4. timeout \in 1..UnloadTime /\ timeout > CheckTime
    BY <1>1, <1>6, Known, Mark, HostAssumption DEF Shape, Due
  <2>5. timeout' \in 1..UnloadTime
    BY <2>1, <2>4, HostAssumption
  <2>6. Shape'
    BY <1>4, <2>5 DEF Shape
  <2> QED BY <1>2, <2>2, <2>3, <2>6, Assembled
<1> QED BY <1>5, <1>6

(* The death of a host: the notice, the callback of the factory and its    *)
(* return.                                                                 *)
LEMMA DeathStep ==
  ASSUME IInv,
         \/ \E s \in System : ClearDeathService(s) \/ OnDrmPluginDied(s)
         \/ Buried
  PROVE  IInv'
<1>1. ASSUME NEW s \in System, ClearDeathService(s) PROVE IInv'
  <2> USE <1>1 DEF ClearDeathService
  <2>1. Cardinality(named') = 0
    BY FS_EmptySet
  <2>2. Shape' /\ WatchedNames' /\ LivingCounted'
    BY Known DEF Shape, WatchedNames, LivingCounted
  <2>3. count' \in Int /\ InBand(count', named') /\ Booked(count', timeout', named')
    BY <2>1, Mark DEF InBand, Booked
  <2> QED BY <2>2, <2>3, Assembled
<1>2. ASSUME \/ \E s \in System : OnDrmPluginDied(s)
             \/ Buried
      PROVE  IInv'
  <2>1. UNCHANGED <<running, count, timeout, named, held, current, recipients, notices>>
    BY <1>2 DEF OnDrmPluginDied, Buried, mapVars
  <2>2. /\ handlers' \subseteq System /\ burying' \in handlers' \cup {None}
        /\ handlers' = handlers \/ held = {}
    BY <1>2, Known DEF OnDrmPluginDied, Buried, Shape
  <2>3. Shape' /\ WatchedNames' /\ LivingCounted'
    BY <2>1, <2>2, Known DEF Shape, WatchedNames, LivingCounted
  <2> QED BY <2>1, <2>3, Known, Assembled
<1> QED BY <1>1, <1>2

(* Every step keeps it. *)
LEMMA StepInv == IInv /\ [Next]_vars => IInv'
<1> SUFFICES ASSUME IInv, [Next]_vars PROVE IInv'
  OBVIOUS
<1>1. ASSUME NEW s \in System, ReleaseMediaKeySystem(s) \/ Bury(s) PROVE IInv'
  BY <1>1, GiveBackStep DEF ReleaseMediaKeySystem, Bury
<1>2. CASE UNCHANGED vars
  BY <1>2 DEF vars, hostVars, IInv, TypeOK, Band, InBand, WatchedNames, Counted, Booked, LivingCounted
<1> QED
  BY <1>1, <1>2, UseStep, HostDiesStep, DelayedLazyUnLoadStep, DeathStep DEF Next

-----------------------------------------------------------------------------
(* The theorems. *)

(* The inductive invariant holds in every reachable state.                 *)
THEOREM Invariant == Spec => []IInv
BY InitInv, StepInv, PTL DEF Spec

(* The types, and with them: the counter of LazyLoadPlugin and             *)
(* ReleaseSevices stays within |System| of zero or of NOT_LAZY_LOADDED,    *)
(* and the timer of DelayedLazyUnLoad never gets to zero.                  *)
THEOREM TypeCorrect == Spec => []TypeOK
<1>1. IInv => TypeOK
  BY DEF IInv
<1> QED BY <1>1, Invariant, PTL

(* When ClearDeathService has handled all death notices the counter is the *)
(* number of proxies in use, or off by the whole of NOT_LAZY_LOADDED.      *)
THEOREM CountingCorrect == Spec => []CountMatches
<1>1. IInv => CountMatches
  BY Known DEF CountMatches, Booked
<1> QED BY <1>1, Invariant, PTL

(* DelayedLazyUnLoad takes no host from under a key system that lives in   *)
(* it, unless a death is still being dealt with.                           *)
THEOREM UnloadSafe == Spec => UnloadedOnlyUnused
<1>1. IInv /\ [Next]_vars
        => [(DelayedLazyUnLoad /\ ~ running' /\ notices \cup handlers = {})
              => current = {}]_vars
  <2> SUFFICES ASSUME IInv, DelayedLazyUnLoad, notices \cup handlers = {}
               PROVE  current = {}
    OBVIOUS
  <2>1. named = {}
    BY TimedIsUnused DEF DelayedLazyUnLoad
  <2>2. current \subseteq named
    BY Known DEF LivingCounted
  <2> QED BY <2>1, <2>2
<1> QED BY <1>1, Invariant, PTL DEF Spec, UnloadedOnlyUnused

=============================================================================
