----------------------- MODULE ServiceConnectionProofs -----------------------
(***************************************************************************)
(* What holds of a client's connection to the service, for any callers,    *)
(* recipients, deaths and refusals.                                        *)
(*                                                                         *)
(* The argument: serviceProxyMutex_ keeps notices and other attempts out   *)
(* of an attempt, so the recipient it attached is attached still, or has   *)
(* its notice on the way, when the proxy is published (Attempt); and a     *)
(* recipient that is neither the published one nor that of the attempt     *)
(* under way comes from an attempt that failed (Strays).                   *)
(***************************************************************************)
EXTENDS ServiceConnection, TLAPS

(* An attempt starts without a proxy; it has its remote object from the    *)
(* lookup on and its recipient from AddDeathRecipient on.                  *)
Attempt ==
  /\ owner = None => object = None /\ candidate = None
  /\ owner # None =>
       /\ proxy = None /\ object # None
       /\ pc[owner] = "watch" => candidate = None
       /\ pc[owner] # "watch" =>
            /\ candidate # None
            /\ candidate \in (IF object = "live" THEN attached ELSE notices)
       /\ pc[owner] = "publish" /\ object = "live" => listening

(* Proxy and recipient come and go together; a recipient is told of one    *)
(* death at most.                                                          *)
Pairs ==
  /\ proxy = None <=> deathRecipient_ = None
  /\ attached \cap notices = {}

Strays == strays = 0 => attached \cup notices \subseteq {deathRecipient_, candidate}

IInv == TypeOK /\ ProxyIsWatched /\ Attempt /\ Pairs /\ Strays

USE DEF Caller

-----------------------------------------------------------------------------
(* There is no connection and no attempt at first.                         *)
LEMMA InitInv == Init => IInv
<1> SUFFICES ASSUME Init PROVE IInv
  OBVIOUS
<1>1. listening \in BOOLEAN
  BY Zenon DEF Init
<1>2. TypeOK
  BY <1>1, ConnectionAssumption DEF Init, TypeOK
<1> QED
  BY <1>2, ConnectionAssumption DEF Init, IInv, ProxyIsWatched, Attempt, Pairs, Strays

(* Where Got and NoProxy lead a caller, and that nobody else moves.        *)
LEMMA Moves ==
  ASSUME TypeOK, NEW t \in Caller, Got(t) \/ NoProxy(t)
  PROVE  \E to \in {"operation", "idle", "sleep"} : pc' = [pc EXCEPT ![t] = to]
BY DEF Got, NoProxy

(* Every step keeps the types.                                             *)
LEMMA TypeStep == TypeOK /\ [Next]_vars => TypeOK'
<1> SUFFICES ASSUME TypeOK, [Next]_vars PROVE TypeOK'
  OBVIOUS
<1> USE ConnectionAssumption DEF TypeOK
<1>1. ASSUME NEW t \in Caller, ReturnCached(t) PROVE TypeOK'
  BY <1>1, Moves DEF ReturnCached, memberVars, attemptVars, serviceVars
<1>2. ASSUME NEW t \in Caller, LoadSystemAbility(t) PROVE TypeOK'
  BY <1>2 DEF LoadSystemAbility, memberVars, serviceVars
<1>3. ASSUME NEW t \in Caller, LoadFails(t) PROVE TypeOK'
  BY <1>3, Moves DEF LoadFails, memberVars, attemptVars, serviceVars
<1>4. ASSUME NEW t \in Caller, AddDeathRecipient(t) PROVE TypeOK'
  BY <1>4 DEF AddDeathRecipient, memberVars
<1>5. ASSUME NEW t \in Caller, AddDeathRecipientFails(t) PROVE TypeOK'
  BY <1>5, Moves DEF AddDeathRecipientFails, EndAttempt, memberVars, serviceVars
<1>6. ASSUME NEW t \in Caller, SetListenerObject(t) PROVE TypeOK'
  <2>1. listening' \in BOOLEAN
    BY <1>6, Zenon DEF SetListenerObject
  <2> QED BY <1>6, <2>1 DEF SetListenerObject, memberVars, attemptVars
<1>7. ASSUME NEW t \in Caller, SetListenerFails(t) PROVE TypeOK'
  <2>1. listening' \in BOOLEAN
    BY <1>7, Zenon DEF SetListenerFails
  <2>2. refusals' = refusals \/ (refusals < MaxRefusals /\ refusals' = refusals + 1)
    BY <1>7, Zenon DEF SetListenerFails
  <2> QED BY <1>7, <2>1, <2>2, Moves DEF SetListenerFails, EndAttempt, memberVars
<1>8. ASSUME NEW t \in Caller, Publish(t) PROVE TypeOK'
  BY <1>8, Moves DEF Publish, EndAttempt, serviceVars
<1>9. ASSUME NEW t \in Call, Operation(t) \/ OperationReturns(t) PROVE TypeOK'
  BY <1>9 DEF Operation, OperationReturns, memberVars, attemptVars, serviceVars
<1>10. ASSUME NEW r \in Recipient, MediaKeySystemFactoryServerDied(r) PROVE TypeOK'
  BY <1>10 DEF MediaKeySystemFactoryServerDied, attemptVars
<1>11. ASSUME NEW r \in Recipient, Retry(r) PROVE TypeOK'
  BY <1>11 DEF Retry, memberVars, attemptVars, serviceVars
<1>12. CASE ServiceDies
  <2>1. listening' \in BOOLEAN
    BY <1>12, Zenon DEF ServiceDies
  <2> QED BY <1>12, <2>1 DEF ServiceDies, Dead
<1>13. CASE UNCHANGED vars
  BY <1>13 DEF vars, memberVars, attemptVars, serviceVars
<1> HIDE DEF TypeOK
<1> QED
  BY <1>1, <1>2, <1>3, <1>4, <1>5, <1>6, <1>7, <1>8, <1>9, <1>10, <1>11, <1>12, <1>13
     DEF Next, Connect, AttemptFails

-----------------------------------------------------------------------------
(* The proxy, the attempt and the recipients, step by step.                *)
Rest == ProxyIsWatched /\ Attempt /\ Pairs /\ Strays

(* Every step keeps the rest. *)
LEMMA RestStep == IInv /\ [Next]_vars => Rest'
<1> SUFFICES ASSUME IInv, [Next]_vars PROVE Rest'
  OBVIOUS
<1> USE ConnectionAssumption DEF IInv, TypeOK, Rest, ProxyIsWatched, Attempt, Pairs, Strays
<1>1. ASSUME NEW t \in Caller, ReturnCached(t) \/ LoadFails(t) PROVE Rest'
  BY <1>1 DEF ReturnCached, LoadFails, memberVars, attemptVars, serviceVars
<1>2. ASSUME NEW t \in Caller, LoadSystemAbility(t) PROVE Rest'
  BY <1>2 DEF LoadSystemAbility, Cached, memberVars, serviceVars
<1>3. ASSUME NEW t \in Caller, AddDeathRecipient(t) PROVE Rest'
  BY <1>3 DEF AddDeathRecipient, Unheld, memberVars
<1>4. ASSUME NEW t \in Caller, AddDeathRecipientFails(t) PROVE Rest'
  BY <1>4 DEF AddDeathRecipientFails, EndAttempt, memberVars, serviceVars
<1>5. ASSUME NEW t \in Caller, SetListenerObject(t) PROVE Rest'
  BY <1>5 DEF SetListenerObject, memberVars, attemptVars
<1>6. ASSUME NEW t \in Caller, SetListenerFails(t) PROVE Rest'
  BY <1>6 DEF SetListenerFails, EndAttempt, memberVars
<1>7. ASSUME NEW t \in Caller, Publish(t) PROVE Rest'
  BY <1>7 DEF Publish, EndAttempt, serviceVars
<1>8. ASSUME NEW t \in Call, Operation(t) \/ OperationReturns(t) PROVE Rest'
  BY <1>8 DEF Operation, OperationReturns, memberVars, attemptVars, serviceVars
<1>9. ASSUME NEW r \in Recipient, MediaKeySystemFactoryServerDied(r) PROVE Rest'
  BY <1>9 DEF MediaKeySystemFactoryServerDied, attemptVars
<1>10. ASSUME NEW r \in Recipient, Retry(r) PROVE Rest'
  BY <1>10 DEF Retry, memberVars, attemptVars, serviceVars
<1>11. CASE ServiceDies
  BY <1>11 DEF ServiceDies, Dead
<1>12. CASE UNCHANGED vars
  BY <1>12 DEF vars, memberVars, attemptVars, serviceVars
<1> HIDE DEF IInv, TypeOK, Rest
<1> QED
  BY <1>1, <1>2, <1>3, <1>4, <1>5, <1>6, <1>7, <1>8, <1>9, <1>10, <1>11, <1>12
     DEF Next, Connect, AttemptFails

-----------------------------------------------------------------------------
(* The invariant of the connection.                                        *)
THEOREM Invariance == Spec => []IInv
<1>1. IInv /\ [Next]_vars => IInv'
  BY TypeStep, RestStep DEF IInv, Rest
<1> QED BY <1>1, InitInv, PTL DEF Spec

(* The types, and with them that serviceProxyMutex_ has one owner, the     *)
(* attempt under way.                                                      *)
THEOREM TypeCorrect == Spec => []TypeOK
<1>1. IInv => TypeOK
  BY DEF IInv
<1> QED BY <1>1, Invariance, PTL

(* GetServiceProxy publishes no proxy whose death nobody will report.      *)
THEOREM ProxyCorrect == Spec => []ProxyIsWatched
<1>1. IInv => ProxyIsWatched
  BY DEF IInv
<1> QED BY <1>1, Invariance, PTL

(* MediaKeySystemFactoryServerDied drops a proxy that works only for the   *)
(* recipient of an attempt that failed.                                    *)
THEOREM KeptCorrect == Spec => WorkingProxyKept
<1>1. IInv /\ [Next]_vars => (proxy = "live" /\ proxy' = None => strays > 0)
  <2> SUFFICES ASSUME IInv, [Next]_vars, proxy = "live", proxy' = None PROVE strays > 0
    OBVIOUS
  <2> USE ConnectionAssumption DEF IInv, TypeOK
  <2>1. ASSUME NEW r \in Recipient, MediaKeySystemFactoryServerDied(r) PROVE strays > 0
    BY <2>1 DEF MediaKeySystemFactoryServerDied, ProxyIsWatched, Attempt, Pairs, Strays
  <2>2. ASSUME NEW t \in Caller, Publish(t) PROVE FALSE
    BY <2>2 DEF Publish, Attempt
  <2>3. CASE ServiceDies
    BY <2>3 DEF ServiceDies, Dead
  <2>4. CASE UNCHANGED proxy
    BY <2>4
  <2>5. ASSUME NEW t \in Caller,
               \/ ReturnCached(t) \/ LoadSystemAbility(t) \/ AddDeathRecipient(t)
               \/ SetListenerObject(t) \/ AttemptFails(t)
        PROVE  UNCHANGED proxy
    BY <2>5 DEF ReturnCached, LoadSystemAbility, AddDeathRecipient, SetListenerObject,
                AttemptFails, LoadFails, AddDeathRecipientFails, SetListenerFails, memberVars
  <2>6. ASSUME NEW t \in Call, Operation(t) \/ OperationReturns(t) PROVE UNCHANGED proxy
    BY <2>6 DEF Operation, OperationReturns, memberVars
  <2>7. ASSUME NEW r \in Recipient, Retry(r) PROVE UNCHANGED proxy
    BY <2>7 DEF Retry, memberVars
  <2>8. UNCHANGED vars => UNCHANGED proxy
    BY DEF vars, memberVars
  <2> HIDE DEF IInv, TypeOK
  <2> QED BY <2>1, <2>2, <2>3, <2>4, <2>5, <2>6, <2>7, <2>8 DEF Next, Connect
<1>2. IInv /\ [Next]_vars => [proxy = "live" /\ proxy' = None => strays > 0]_vars
  BY <1>1
<1> QED BY <1>2, Invariance, PTL DEF Spec, WorkingProxyKept

=============================================================================
