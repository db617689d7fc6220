---------------------- MODULE MediaKeySystemImplProofs ----------------------
(***************************************************************************)
(* Theorems about MediaKeySystemImpl, for any operations, events and       *)
(* number of releases.                                                     *)
(*                                                                         *)
(* Everything rests on the join in Release: until the event thread has     *)
(* ended there is a callback object (Threads), and the destructor's        *)
(* release goes on only without one (Releases).  The proxy, the recipient  *)
(* and the service's object go together (Proxies).                         *)
(***************************************************************************)
EXTENDS MediaKeySystemImpl, SequenceTheorems, TLAPS

Threads ==
  /\ thread = "off" => object = "new" /\ ~ serviceCallback_ /\ eventQueue = <<>>
  /\ object = "new" => thread = "off" /\ release = "none" /\ ~ serviceThreadRunning
  /\ thread # "off" /\ thread # "done" => serviceCallback_
  /\ thread = "done" => ~ serviceThreadRunning
  /\ thread \in {"off", "top", "wait"} => localQueue = <<>>
  /\ serviceCallback_ /\ release = "none" => serviceThreadRunning
  /\ thread = "off" => ~ known

Releases ==
  /\ release = "join" => serviceCallback_ /\ ~ serviceThreadRunning
  /\ release \in {"lock", "ipc"} => ~ serviceCallback_
  /\ object = "dying" => release # "none"
  /\ object \in {"new", "setting"} => release = "none"
  /\ object = "gone" => release = "none" /\ ~ serviceCallback_ /\ ~ serviceProxy_
  /\ mutex_ = "release" => release = "ipc"

Proxies ==
  /\ ~ serviceProxy_ => ~ served /\ deathRecipient_ = "none"
  /\ service = "dead" => ~ served
  /\ notice # "none" => service = "dead"
  /\ notice = "pending" => Attached
  /\ release = "ipc" => deathRecipient_ = "none"

Queued ==
  /\ \A i \in 1..Len(eventQueue) : eventQueue[i] \in sent
  /\ \A i \in 1..Len(localQueue) : localQueue[i] \in sent

(* The values of the Boolean variables; on their own for the provers.        *)
Booleans ==
  /\ isSession \in BOOLEAN /\ serviceProxy_ \in BOOLEAN
  /\ serviceCallback_ \in BOOLEAN /\ serviceThreadRunning \in BOOLEAN
  /\ served \in BOOLEAN /\ known \in BOOLEAN

IInv == TypeOK /\ Threads /\ Releases /\ Proxies /\ Queued

-----------------------------------------------------------------------------

(* The initial states satisfy it. *)
LEMMA InitInv == Init => IInv
<1> SUFFICES ASSUME Init PROVE IInv
  OBVIOUS
<1> USE ClientAssumption DEF Init
<1>1. calls \in [Call -> {"none", "ipc", "done"}]
  OBVIOUS
<1>2. eventQueue \in Seq(Event) /\ localQueue \in Seq(Event)
  OBVIOUS
<1>3. Booleans
  BY Zenon DEF Booleans
<1>4. TypeOK
  BY <1>1, <1>2, <1>3 DEF TypeOK, Holder, Booleans
<1>5. Threads
  BY <1>3 DEF Threads, Booleans
<1>6. Releases /\ Queued
  BY <1>3 DEF Releases, Queued, Booleans
<1>7. Proxies
  BY <1>3 DEF Proxies, Booleans, Attached
<1> QED BY <1>4, <1>5, <1>6, <1>7 DEF IInv

-----------------------------------------------------------------------------
(* The steps, one conjunct at a time. *)

(* Every step keeps the flags Boolean. *)
LEMMA BooleansStep == IInv /\ [Next]_vars => Booleans'
<1> SUFFICES ASSUME IInv, [Next]_vars PROVE Booleans'
  OBVIOUS
<1> USE ClientAssumption DEF IInv, TypeOK, Booleans, clientVars, threadVars, releaseVars, remoteVars
<1>1. CASE SetCallback
  BY <1>1, Zenon DEF SetCallback
<1>2. CASE SetCallbackReturns
  BY <1>2, Zenon DEF SetCallbackReturns
<1>3. ASSUME NEW c \in Call, Operation(c) \/ OperationRefused(c) \/ OperationReturns(c)
      PROVE  Booleans'
  BY <1>3, Zenon DEF Operation, OperationRefused, OperationReturns
<1>4. CASE Release
  BY <1>4, Zenon DEF Release, StopEventThread
<1>5. CASE Destroy
  BY <1>5, Zenon DEF Destroy, StopEventThread
<1>6. CASE Joined
  BY <1>6, Zenon DEF Joined
<1>7. CASE ReleaseProxy
  BY <1>7, Zenon DEF ReleaseProxy, RemoveOwnRecipient, RemoveDeathRecipient, Finished
<1>8. CASE ReleaseReturns
  BY <1>8, Zenon DEF ReleaseReturns, KeptAfterError, Finished
<1>9. CASE ServiceDies \/ OnRemoteDied
  BY <1>9, Zenon DEF ServiceDies, OnRemoteDied
<1>10. CASE MediaKeySystemServerDied
  BY <1>10, Zenon DEF MediaKeySystemServerDied
<1>11. ASSUME NEW e \in Event, SendEvent(e) PROVE Booleans'
  BY <1>11, Zenon DEF SendEvent
<1>12. CASE EventLoop \/ QueueHandled
  BY <1>12, Zenon DEF EventLoop, QueueHandled
<1>13. CASE SwapQueue
  BY <1>13, Zenon DEF SwapQueue, WaitEnds, RestOfQueue
<1>14. CASE HandleEvent
  BY <1>14, Zenon DEF HandleEvent
<1>15. CASE CallbackCalls \/ CallbackOperation
          \/ CallbackOperationReturns \/ CallbackReturns
  BY <1>15, Zenon DEF CallbackCalls, CallbackOperation, CallbackOperationReturns, CallbackReturns
<1>16. CASE UNCHANGED vars
  BY <1>16, Zenon DEF vars
<1> QED
  BY <1>1, <1>2, <1>3, <1>4, <1>5, <1>6, <1>7, <1>8,
     <1>9, <1>10, <1>11, <1>12, <1>13, <1>14, <1>15, <1>16
  DEF Next, EventThread, ReleaseThread

(* An event is queued when it is sent, and it is sent once.                  *)
LEMMA TypeStep == IInv /\ [Next]_vars => TypeOK'
<1> SUFFICES ASSUME IInv, [Next]_vars PROVE TypeOK'
  OBVIOUS
<1> USE ClientAssumption DEF IInv, TypeOK, Threads, Queued, Booleans, Holder, Attached,
            clientVars, threadVars, releaseVars, remoteVars
<1>0. Booleans'
  BY BooleansStep
<1>1. CASE SetCallback
  BY <1>0, <1>1 DEF SetCallback
<1>2. CASE SetCallbackReturns
  BY <1>0, <1>2 DEF SetCallbackReturns
<1>3. ASSUME NEW c \in Call, Operation(c) \/ OperationRefused(c) \/ OperationReturns(c)
      PROVE  TypeOK'
  BY <1>0, <1>3 DEF Operation, OperationRefused, OperationReturns
<1>4. CASE Release
  BY <1>0, <1>4 DEF Release, StopEventThread
<1>5. CASE Destroy
  BY <1>0, <1>5 DEF Destroy, StopEventThread
<1>6. CASE Joined
  BY <1>0, <1>6 DEF Joined
<1>7. CASE ReleaseProxy
  BY <1>0, <1>7 DEF ReleaseProxy, RemoveOwnRecipient, RemoveDeathRecipient, Finished
<1>8. CASE ReleaseReturns
  BY <1>0, <1>8 DEF ReleaseReturns, KeptAfterError, Finished
<1>9. CASE ServiceDies \/ OnRemoteDied
  BY <1>0, <1>9 DEF ServiceDies, OnRemoteDied
<1>10. CASE MediaKeySystemServerDied
  BY <1>0, <1>10 DEF MediaKeySystemServerDied
<1>11. ASSUME NEW e \in Event, SendEvent(e) PROVE TypeOK'
  BY <1>0, <1>11 DEF SendEvent
<1>12. CASE EventLoop \/ QueueHandled
  BY <1>0, <1>12 DEF EventLoop, QueueHandled
<1>13. CASE SwapQueue
  BY <1>0, <1>13 DEF SwapQueue, WaitEnds, RestOfQueue
<1>14. CASE HandleEvent
  BY <1>0, <1>14 DEF HandleEvent
<1>15. CASE CallbackCalls \/ CallbackOperation
          \/ CallbackOperationReturns \/ CallbackReturns
  BY <1>0, <1>15 DEF CallbackCalls, CallbackOperation, CallbackOperationReturns, CallbackReturns
<1>16. CASE UNCHANGED vars
  BY <1>0, <1>16 DEF vars
<1> QED
  BY <1>1, <1>2, <1>3, <1>4, <1>5, <1>6, <1>7, <1>8,
     <1>9, <1>10, <1>11, <1>12, <1>13, <1>14, <1>15, <1>16
  DEF Next, EventThread, ReleaseThread

(* Every step keeps what is known of the threads. *)
LEMMA ThreadsStep == IInv /\ [Next]_vars => Threads'
<1> SUFFICES ASSUME IInv, [Next]_vars PROVE Threads'
  OBVIOUS
<1> USE ClientAssumption DEF IInv, TypeOK, Threads, Releases, Proxies, Queued, Booleans, Holder,
            Attached, clientVars, threadVars, releaseVars, remoteVars
<1>0. Booleans'
  BY BooleansStep
<1>1. CASE SetCallback
  BY <1>0, <1>1 DEF SetCallback
<1>2. CASE SetCallbackReturns
  BY <1>0, <1>2 DEF SetCallbackReturns
<1>3. ASSUME NEW c \in Call, Operation(c) \/ OperationRefused(c) \/ OperationReturns(c)
      PROVE  Threads'
  BY <1>0, <1>3 DEF Operation, OperationRefused, OperationReturns
<1>4. CASE Release
  BY <1>0, <1>4 DEF Release, StopEventThread
<1>5. CASE Destroy
  BY <1>0, <1>5 DEF Destroy, StopEventThread
<1>6. CASE Joined
  BY <1>0, <1>6 DEF Joined
<1>7. CASE ReleaseProxy
  BY <1>0, <1>7 DEF ReleaseProxy, RemoveOwnRecipient, RemoveDeathRecipient, Finished
<1>8. CASE ReleaseReturns
  BY <1>0, <1>8 DEF ReleaseReturns, KeptAfterError, Finished
<1>9. CASE ServiceDies \/ OnRemoteDied
  BY <1>0, <1>9 DEF ServiceDies, OnRemoteDied
<1>10. CASE MediaKeySystemServerDied
  BY <1>0, <1>10 DEF MediaKeySystemServerDied
<1>11. ASSUME NEW e \in Event, SendEvent(e) PROVE Threads'
  BY <1>0, <1>11 DEF SendEvent
<1>12. CASE EventLoop \/ QueueHandled
  BY <1>0, <1>12 DEF EventLoop, QueueHandled
<1>13. CASE SwapQueue
  BY <1>0, <1>13 DEF SwapQueue, WaitEnds, RestOfQueue
<1>14. CASE HandleEvent
  BY <1>0, <1>14 DEF HandleEvent
<1>15. CASE CallbackCalls \/ CallbackOperation
          \/ CallbackOperationReturns \/ CallbackReturns
  BY <1>0, <1>15 DEF CallbackCalls, CallbackOperation, CallbackOperationReturns, CallbackReturns
<1>16. CASE UNCHANGED vars
  BY <1>0, <1>16 DEF vars
<1> QED
  BY <1>1, <1>2, <1>3, <1>4, <1>5, <1>6, <1>7, <1>8,
     <1>9, <1>10, <1>11, <1>12, <1>13, <1>14, <1>15, <1>16
  DEF Next, EventThread, ReleaseThread

(* Every step keeps what is known of the releases. *)
LEMMA ReleasesStep == IInv /\ [Next]_vars => Releases'
<1> SUFFICES ASSUME IInv, [Next]_vars PROVE Releases'
  OBVIOUS
<1> USE ClientAssumption DEF IInv, TypeOK, Threads, Releases, Proxies, Booleans, Holder, Attached,
            clientVars, threadVars, releaseVars, remoteVars
<1>0. Booleans'
  BY BooleansStep
<1>1. CASE SetCallback
  BY <1>0, <1>1 DEF SetCallback
<1>2. CASE SetCallbackReturns
  BY <1>0, <1>2 DEF SetCallbackReturns
<1>3. ASSUME NEW c \in Call, Operation(c) \/ OperationRefused(c) \/ OperationReturns(c)
      PROVE  Releases'
  BY <1>0, <1>3 DEF Operation, OperationRefused, OperationReturns
<1>4. CASE Release
  BY <1>0, <1>4 DEF Release, StopEventThread
<1>5. CASE Destroy
  BY <1>0, <1>5 DEF Destroy, StopEventThread
<1>6. CASE Joined
  BY <1>0, <1>6 DEF Joined
<1>7. CASE ReleaseProxy
  BY <1>0, <1>7 DEF ReleaseProxy, RemoveOwnRecipient, RemoveDeathRecipient, Finished
<1>8. CASE ReleaseReturns
  BY <1>0, <1>8 DEF ReleaseReturns, KeptAfterError, Finished
<1>9. CASE ServiceDies \/ OnRemoteDied
  BY <1>0, <1>9 DEF ServiceDies, OnRemoteDied
<1>10. CASE MediaKeySystemServerDied
  BY <1>0, <1>10 DEF MediaKeySystemServerDied
<1>11. ASSUME NEW e \in Event, SendEvent(e) PROVE Releases'
  BY <1>0, <1>11 DEF SendEvent
<1>12. CASE EventLoop \/ QueueHandled
  BY <1>0, <1>12 DEF EventLoop, QueueHandled
<1>13. CASE SwapQueue
  BY <1>0, <1>13 DEF SwapQueue, WaitEnds, RestOfQueue
<1>14. CASE HandleEvent
  BY <1>0, <1>14 DEF HandleEvent
<1>15. CASE CallbackCalls \/ CallbackOperation
          \/ CallbackOperationReturns \/ CallbackReturns
  BY <1>0, <1>15 DEF CallbackCalls, CallbackOperation, CallbackOperationReturns, CallbackReturns
<1>16. CASE UNCHANGED vars
  BY <1>0, <1>16 DEF vars
<1> QED
  BY <1>1, <1>2, <1>3, <1>4, <1>5, <1>6, <1>7, <1>8,
     <1>9, <1>10, <1>11, <1>12, <1>13, <1>14, <1>15, <1>16
  DEF Next, EventThread, ReleaseThread

(* Every step keeps what is known of the proxies. *)
LEMMA ProxiesStep == IInv /\ [Next]_vars => Proxies'
<1> SUFFICES ASSUME IInv, [Next]_vars PROVE Proxies'
  OBVIOUS
<1> USE ClientAssumption DEF IInv, TypeOK, Threads, Releases, Proxies, Booleans, Holder, Attached,
            clientVars, threadVars, releaseVars, remoteVars
<1>0. Booleans'
  BY BooleansStep
<1>1. CASE SetCallback
  BY <1>0, <1>1 DEF SetCallback
<1>2. CASE SetCallbackReturns
  BY <1>0, <1>2 DEF SetCallbackReturns
<1>3. ASSUME NEW c \in Call, Operation(c) \/ OperationRefused(c) \/ OperationReturns(c)
      PROVE  Proxies'
  BY <1>0, <1>3 DEF Operation, OperationRefused, OperationReturns
<1>4. CASE Release
  BY <1>0, <1>4 DEF Release, StopEventThread
<1>5. CASE Destroy
  BY <1>0, <1>5 DEF Destroy, StopEventThread
<1>6. CASE Joined
  BY <1>0, <1>6 DEF Joined
<1>7. CASE ReleaseProxy
  BY <1>0, <1>7 DEF ReleaseProxy, RemoveOwnRecipient, RemoveDeathRecipient, Finished
<1>8. CASE ReleaseReturns
  BY <1>0, <1>8 DEF ReleaseReturns, KeptAfterError, Finished
<1>9. CASE ServiceDies \/ OnRemoteDied
  BY <1>0, <1>9 DEF ServiceDies, OnRemoteDied
<1>10. CASE MediaKeySystemServerDied
  BY <1>0, <1>10 DEF MediaKeySystemServerDied
<1>11. ASSUME NEW e \in Event, SendEvent(e) PROVE Proxies'
  BY <1>0, <1>11 DEF SendEvent
<1>12. CASE EventLoop \/ QueueHandled
  BY <1>0, <1>12 DEF EventLoop, QueueHandled
<1>13. CASE SwapQueue
  BY <1>0, <1>13 DEF SwapQueue, WaitEnds, RestOfQueue
<1>14. CASE HandleEvent
  BY <1>0, <1>14 DEF HandleEvent
<1>15. CASE CallbackCalls \/ CallbackOperation
          \/ CallbackOperationReturns \/ CallbackReturns
  BY <1>0, <1>15 DEF CallbackCalls, CallbackOperation, CallbackOperationReturns, CallbackReturns
<1>16. CASE UNCHANGED vars
  BY <1>0, <1>16 DEF vars
<1> QED
  BY <1>1, <1>2, <1>3, <1>4, <1>5, <1>6, <1>7, <1>8,
     <1>9, <1>10, <1>11, <1>12, <1>13, <1>14, <1>15, <1>16
  DEF Next, EventThread, ReleaseThread

(* Every step keeps what is known of the queue. *)
LEMMA QueuedStep == IInv /\ [Next]_vars => Queued'
<1> SUFFICES ASSUME IInv, [Next]_vars PROVE Queued'
  OBVIOUS
<1> USE ClientAssumption DEF IInv, TypeOK, Queued, clientVars, threadVars, releaseVars, remoteVars
<1>1. CASE SetCallback
  BY <1>1 DEF SetCallback
<1>2. CASE SetCallbackReturns
  BY <1>2 DEF SetCallbackReturns
<1>3. ASSUME NEW c \in Call, Operation(c) \/ OperationRefused(c) \/ OperationReturns(c)
      PROVE  Queued'
  BY <1>3 DEF Operation, OperationRefused, OperationReturns
<1>4. CASE Release
  BY <1>4 DEF Release, StopEventThread
<1>5. CASE Destroy
  BY <1>5 DEF Destroy, StopEventThread
<1>6. CASE Joined
  BY <1>6 DEF Joined
<1>7. CASE ReleaseProxy
  BY <1>7 DEF ReleaseProxy, RemoveOwnRecipient, RemoveDeathRecipient, Finished
<1>8. CASE ReleaseReturns
  BY <1>8 DEF ReleaseReturns, KeptAfterError, Finished
<1>9. CASE ServiceDies \/ OnRemoteDied
  BY <1>9 DEF ServiceDies, OnRemoteDied
<1>10. CASE MediaKeySystemServerDied
  BY <1>10 DEF MediaKeySystemServerDied
<1>11. ASSUME NEW e \in Event, SendEvent(e) PROVE Queued'
  BY <1>11 DEF SendEvent
<1>12. CASE EventLoop \/ QueueHandled
  BY <1>12 DEF EventLoop, QueueHandled
<1>13. CASE SwapQueue
  BY <1>13 DEF SwapQueue, WaitEnds, RestOfQueue
<1>14. CASE HandleEvent
  BY <1>14 DEF HandleEvent
<1>15. CASE CallbackCalls \/ CallbackOperation
          \/ CallbackOperationReturns \/ CallbackReturns
  BY <1>15 DEF CallbackCalls, CallbackOperation, CallbackOperationReturns, CallbackReturns
<1>16. CASE UNCHANGED vars
  BY <1>16 DEF vars
<1> QED
  BY <1>1, <1>2, <1>3, <1>4, <1>5, <1>6, <1>7, <1>8,
     <1>9, <1>10, <1>11, <1>12, <1>13, <1>14, <1>15, <1>16
  DEF Next, EventThread, ReleaseThread

-----------------------------------------------------------------------------
(* The theorems. *)

(* The inductive invariant holds in every reachable state.                 *)
THEOREM Invariance == Spec => []IInv
<1>1. IInv /\ [Next]_vars => IInv'
  BY TypeStep, ThreadsStep, ReleasesStep, ProxiesStep, QueuedStep DEF IInv
<1> QED BY <1>1, InitInv, PTL DEF Spec

(* The types, and with them that no event is queued twice in               *)
(* ProcessEventMessage.                                                    *)
THEOREM TypeCorrect == Spec => []TypeOK
<1>1. IInv => TypeOK
  BY DEF IInv
<1> QED BY <1>1, Invariance, PTL

(* The object and its callback object outlive the event thread.            *)
THEOREM EventThreadCorrect == Spec => []EventThreadIsSafe
<1>1. IInv => EventThreadIsSafe
  BY DEF IInv, Threads, Releases, EventThreadIsSafe
<1> QED BY <1>1, Invariance, PTL

(* Release takes the death recipient back before the object is destroyed.  *)
THEOREM NoticeCorrect == Spec => []NoLateNotice
<1>1. IInv => NoLateNotice
  BY DEF IInv, Releases, Proxies, NoLateNotice, Attached
<1> QED BY <1>1, Invariance, PTL

(* The bare pointer of the event thread is good as long as the thread is;  *)
(* through that of the death recipient no call begins after the            *)
(* destruction, though one that began before it may still be under way.    *)
THEOREM PointersCorrect == Spec => []NothingDangles
<1>1. EventThreadIsSafe /\ NoLateNotice => NothingDangles
  BY DEF NothingDangles
<1> QED BY <1>1, EventThreadCorrect, NoticeCorrect, PTL

(* The service's object is released, or the service is dead, when the      *)
(* client's is destroyed.                                                  *)
THEOREM NothingLeftCorrect == Spec => []NothingLeftOpen
<1>1. IInv => NothingLeftOpen
  BY DEF IInv, Releases, Proxies, NothingLeftOpen
<1> QED BY <1>1, Invariance, PTL

-----------------------------------------------------------------------------
(* The channel. *)

(* To take the first of two sequences one after the other.                 *)
LEMMA TailOfConcat ==
  ASSUME NEW S, NEW s \in Seq(S), NEW t \in Seq(S), s # <<>>
  PROVE  s \o t # <<>> /\ Tail(s \o t) = Tail(s) \o t
<1>1. Tail(s) \in Seq(S) /\ Len(Tail(s)) = Len(s) - 1
  BY HeadTailProperties
<1>2. s \o t \in Seq(S) /\ Len(s \o t) = Len(s) + Len(t)
  BY ConcatProperties
<1>3. Len(s) \in Nat \ {0} /\ Len(t) \in Nat
  BY EmptySeq, LenProperties
<1>4. s \o t # <<>>
  BY <1>2, <1>3
<1>5. /\ Tail(s \o t) \in Seq(S)
      /\ Len(Tail(s \o t)) = Len(s) + Len(t) - 1
      /\ \A i \in 1..Len(Tail(s \o t)) : Tail(s \o t)[i] = (s \o t)[i + 1]
  BY <1>2, <1>4, HeadTailProperties
<1>6. /\ Tail(s) \o t \in Seq(S)
      /\ Len(Tail(s) \o t) = Len(s) + Len(t) - 1
  BY <1>1, <1>3, ConcatProperties
<1>7. ASSUME NEW i \in 1..Len(Tail(s \o t))
      PROVE  Tail(s \o t)[i] = (Tail(s) \o t)[i]
  <2>1. i \in 1..(Len(s) + Len(t) - 1) /\ i + 1 \in 1..(Len(s) + Len(t))
    BY <1>3, <1>5
  <2>2. Tail(s \o t)[i] = IF i + 1 <= Len(s) THEN s[i + 1] ELSE t[i + 1 - Len(s)]
    BY <1>5, <2>1, ConcatProperties
  <2>3. (Tail(s) \o t)[i] =
          IF i <= Len(s) - 1 THEN Tail(s)[i] ELSE t[i - (Len(s) - 1)]
    BY <1>1, <1>3, <2>1, ConcatProperties
  <2>4. i <= Len(s) - 1 => Tail(s)[i] = s[i + 1]
    BY <1>1, <2>1, HeadTailProperties
  <2> QED BY <1>3, <2>1, <2>2, <2>3, <2>4
<1> QED BY <1>4, <1>5, <1>6, <1>7, SeqEqual

(* To add to the second of two sequences one after the other.              *)
LEMMA AppendToConcat ==
  ASSUME NEW S, NEW s \in Seq(S), NEW t \in Seq(S), NEW e \in S
  PROVE  s \o Append(t, e) = Append(s \o t, e)
<1>1. <<e>> \in Seq(S)
  OBVIOUS
<1>2. Append(t, e) = t \o <<e>>
  BY AppendIsConcat
<1>3. s \o t \in Seq(S)
  BY ConcatProperties
<1>4. Append(s \o t, e) = (s \o t) \o <<e>>
  BY <1>3, AppendIsConcat
<1> QED BY <1>1, <1>2, <1>4, ConcatAssociative

(* The mapped initial states are those of the channel. *)
LEMMA ChannelInit == Init => Channel!Init
  BY ConcatEmptySeq DEF Init, Channel!Init, Undelivered, Phase

(* Each step of the client is one of the channel, or none.                 *)
LEMMA ChannelStep == IInv /\ [Next]_vars => [Channel!Next]_<<Undelivered, Phase>>
<1> SUFFICES ASSUME IInv, [Next]_vars PROVE [Channel!Next]_<<Undelivered, Phase>>
  OBVIOUS
<1> USE DEF clientVars, threadVars, releaseVars, remoteVars
<1>0. /\ eventQueue \in Seq(Event) /\ localQueue \in Seq(Event)
      /\ isSession \in BOOLEAN /\ serviceThreadRunning \in BOOLEAN
  BY DEF IInv, TypeOK
<1>1. CASE SetCallback
  <2>1. thread = "off"
    BY <1>1 DEF SetCallback, IInv, Threads
  <2> QED BY <1>1, <2>1 DEF SetCallback, Undelivered, Phase
<1>2. CASE \/ SetCallbackReturns
           \/ \E c \in Call : Operation(c) \/ OperationRefused(c) \/ OperationReturns(c)
           \/ ReleaseThread
           \/ ServiceDies \/ OnRemoteDied \/ MediaKeySystemServerDied
  <2>1. UNCHANGED <<thread, eventQueue, localQueue, serviceThreadRunning>>
    BY <1>2 DEF SetCallbackReturns, Operation, OperationRefused, OperationReturns,
                ReleaseThread, Joined, ReleaseProxy, ReleaseReturns,
                ServiceDies, OnRemoteDied, MediaKeySystemServerDied
  <2> QED BY <2>1 DEF Undelivered, Phase
<1>3. CASE Release \/ Destroy
  <2>1. UNCHANGED <<thread, eventQueue, localQueue>>
    BY <1>3 DEF Release, Destroy
  <2>2. CASE serviceCallback_
    <3>1. thread \notin {"off", "done"} /\ serviceThreadRunning
      BY <1>3, <2>2 DEF Release, Destroy, IInv, Threads
    <3>2. ~ serviceThreadRunning'
      BY <1>3, <2>2 DEF Release, Destroy, StopEventThread
    <3>3. Channel!Release
      BY <2>1, <3>1, <3>2 DEF Channel!Release, Undelivered, Phase
    <3> QED BY <3>3 DEF Channel!Next
  <2>3. CASE ~ serviceCallback_
    <3>1. UNCHANGED serviceThreadRunning
      BY <1>3, <2>3 DEF Release, Destroy, StopEventThread
    <3> QED BY <2>1, <3>1 DEF Undelivered, Phase
  <2> QED BY <2>2, <2>3
<1>4. ASSUME NEW e \in Event, SendEvent(e)
      PROVE  [Channel!Next]_<<Undelivered, Phase>>
  <2>1. CASE thread = "done"
    BY <1>4, <2>1 DEF SendEvent, Undelivered, Phase
  <2>2. CASE thread # "done"
    <3>1. localQueue \o Append(eventQueue, e) = Append(localQueue \o eventQueue, e)
      BY <1>0, AppendToConcat
    <3>2. Undelivered' = Append(Undelivered, e) /\ UNCHANGED Phase /\ Phase # "closed"
      BY <1>4, <2>2, <3>1 DEF SendEvent, Undelivered, Phase
    <3>3. Channel!Send(e)
      BY <3>2 DEF Channel!Send
    <3> QED BY <3>3 DEF Channel!Next
  <2> QED BY <2>1, <2>2
<1>5. CASE EventLoop
  <2>1. CASE serviceThreadRunning
    BY <1>5, <2>1 DEF EventLoop, Undelivered, Phase
  <2>2. CASE ~ serviceThreadRunning
    <3>1. Channel!Close
      BY <1>5, <2>2 DEF EventLoop, Channel!Close, Undelivered, Phase
    <3> QED BY <3>1 DEF Channel!Next
  <2> QED BY <2>1, <2>2
<1>6. CASE SwapQueue
  <2>1. localQueue = <<>>
    BY <1>6 DEF SwapQueue, IInv, Threads
  <2>2. <<>> \o eventQueue = eventQueue \o <<>>
    BY <1>0, ConcatEmptySeq
  <2> QED BY <1>6, <2>1, <2>2 DEF SwapQueue, RestOfQueue, Undelivered, Phase
<1>7. CASE HandleEvent
  <2>1. /\ localQueue \o eventQueue # <<>>
        /\ Tail(localQueue \o eventQueue) = Tail(localQueue) \o eventQueue
    BY <1>0, <1>7, TailOfConcat DEF HandleEvent
  <2>2. Channel!Deliver
    BY <1>7, <2>1 DEF HandleEvent, Channel!Deliver, Undelivered, Phase
  <2> QED BY <2>2 DEF Channel!Next
<1>8. CASE \/ QueueHandled
           \/ CallbackCalls \/ CallbackOperation \/ CallbackOperationReturns \/ CallbackReturns
  <2>1. /\ UNCHANGED <<eventQueue, localQueue, serviceThreadRunning>>
        /\ thread \notin {"off", "done"} /\ thread' \notin {"off", "done"}
    BY <1>8 DEF QueueHandled, CallbackCalls, CallbackOperation, CallbackOperationReturns,
                CallbackReturns
  <2> QED BY <2>1 DEF Undelivered, Phase
<1>9. CASE UNCHANGED vars
  BY <1>9 DEF vars, Undelivered, Phase
<1> QED
  BY <1>1, <1>2, <1>3, <1>4, <1>5, <1>6, <1>7, <1>8, <1>9 DEF Next, EventThread

(* The events reach the application in the order they were sent, until a   *)
(* release closes the channel: the safety part of EventChannel.            *)
THEOREM Implements == Spec => Channel!Safety
<1>1. IInv /\ [Next]_vars => [Channel!Next]_<<Undelivered, Phase>>
  BY ChannelStep
<1> QED BY <1>1, ChannelInit, Invariance, PTL DEF Spec, Channel!Safety

=============================================================================
