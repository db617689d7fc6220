--------------------------- MODULE NapiBindingProofs ---------------------------
(***************************************************************************)
(* What holds of the JavaScript objects, their native halves and their     *)
(* listeners, for any objects, calls, listeners and events.                *)
(*                                                                         *)
(* The argument: a native half is alive exactly while its count is not     *)
(* zero (Alive), and the count is the object and the executors (Counted):  *)
(* whoever brings it to zero was the last.  A listener is referred to by a *)
(* map or by a task as long as it lives (ListenersKept).  A promise        *)
(* follows its call because the object of a pending call is not finalised  *)
(* (Pinning).  The answers are right call by call, for every list of       *)
(* arguments, whatever led there.                                          *)
(***************************************************************************)
EXTENDS NapiBinding, FiniteSetTheorems, SequenceTheorems, TLAPS

(* A native half is there while it is counted, and it alone has a proxy    *)
(* and an event thread.                                                    *)
Alive ==
  \A o \in Object :
    /\ heap[o] = "live" <=> refMap[o] > 0
    /\ js[o] = "none" => heap[o] = "none"
    /\ proxy[o] \/ sending[o] => heap[o] = "live"

Targeted == \A c \in Call : stage[c] # "idle" => target[c] \in Object

Types ==
  /\ env \in {"up", "down"}
  /\ js \in [Object -> {"none", "held", "dropped", "gone"}]
  /\ heap \in [Object -> {"none", "live", "freed"}]
  /\ proxy \in [Object -> BOOLEAN]
  /\ sending \in [Object -> BOOLEAN]
  /\ stage \in [Call -> {"idle", "queued", "guarded", "executed", "settled"}]
  /\ target \in [Call -> Object \cup {None}]
  /\ failed \in [Call -> BOOLEAN]
  /\ carried \in [Call -> BOOLEAN]
  /\ callbackMap_ \in [Object -> Ref \cup {None}]
  /\ refs \in [Ref -> {"free", "live", "deleting"}]
  /\ tasks \in Seq(Ref \cup {None})
  /\ refMap \in [Object -> Nat]

IInv == TypeOK /\ Alive /\ Targeted /\ ListenersKept

-----------------------------------------------------------------------------
(* The number of executors is a natural number. *)
LEMMA InsideFinite ==
  ASSUME NEW o \in Object
  PROVE  IsFiniteSet(Inside(o)) /\ Cardinality(Inside(o)) \in Nat
<1>1. Inside(o) \subseteq Call
  BY DEF Inside
<1> QED BY <1>1, NapiAssumption, FS_Subset, FS_CardinalityType

(* The binding starts with it. *)
LEMMA InitInv == Init => IInv
<1> SUFFICES ASSUME Init PROVE IInv
  OBVIOUS
<1>1. \A o \in Object : Inside(o) = {}
  BY DEF Init, Inside
<1>2. Counted
  <2>1. \A o \in Object : Cardinality(Inside(o)) = 0
    BY <1>1, FS_EmptySet, Zenon
  <2> QED BY <2>1 DEF Init, Counted, Own
<1>3. ListenersKept
  BY DEF Init, ListenersKept, UsedIn
<1>4. /\ proxy \in [Object -> BOOLEAN] /\ sending \in [Object -> BOOLEAN]
      /\ failed \in [Call -> BOOLEAN] /\ carried \in [Call -> BOOLEAN]
  BY Zenon DEF Init
<1>5. refMap \in [Object -> Nat] /\ tasks \in Seq(Ref \cup {None})
  BY DEF Init
<1>6. /\ js \in [Object -> {"none", "held", "dropped", "gone"}]
      /\ heap \in [Object -> {"none", "live", "freed"}]
      /\ stage \in [Call -> {"idle", "queued", "guarded", "executed", "settled"}]
      /\ target \in [Call -> Object \cup {None}]
      /\ callbackMap_ \in [Object -> Ref \cup {None}]
      /\ refs \in [Ref -> {"free", "live", "deleting"}]
  BY DEF Init
<1>7. TypeOK
  BY <1>2, <1>4, <1>5, <1>6, Zenon DEF Init, TypeOK
<1>8. Alive /\ Targeted
  BY DEF Init, Alive, Targeted
<1> QED BY <1>3, <1>7, <1>8 DEF IInv

-----------------------------------------------------------------------------
(* References to listeners.                                                *)

(* ~AutoRef leaves alone what is referred to, and lets nothing back.       *)
LEMMA UnreferencedKeeps ==
  ASSUME Types, NEW map \in [Object -> Ref \cup {None}], NEW queue \in Seq(Ref \cup {None})
  PROVE  /\ Unreferenced(map, queue) \in [Ref -> {"free", "live", "deleting"}]
         /\ \A r \in UsedIn(map, queue) \cap Ref :
              refs[r] = "live" => Unreferenced(map, queue)[r] = "live"
BY DEF Types, Unreferenced

(* What a map and a queue refer to is a listener or nothing.               *)
LEMMA UsedTypes ==
  ASSUME NEW map \in [Object -> Ref \cup {None}], NEW queue \in Seq(Ref \cup {None})
  PROVE  UsedIn(map, queue) \subseteq Ref \cup {None}
BY DEF UsedIn

-----------------------------------------------------------------------------
(* Types. *)

(* What DecreaseRef and Keep may do to the types. *)
LEMMA DecreaseTypes ==
  ASSUME Types, UNCHANGED tasks, NEW o \in Object, DecreaseRef(o)
  PROVE  /\ heap' \in [Object -> {"none", "live", "freed"}]
         /\ proxy' \in [Object -> BOOLEAN]
         /\ sending' \in [Object -> BOOLEAN]
         /\ callbackMap_' \in [Object -> Ref \cup {None}]
         /\ refs' \in [Ref -> {"free", "live", "deleting"}]
         /\ refMap' \in [Object -> Nat]
<1>1. refMap' \in [Object -> Nat]
  BY DEF DecreaseRef, Types
<1>2. CASE Delete(o)
  <2>1. callbackMap_' \in [Object -> Ref \cup {None}]
    BY <1>2 DEF Delete, Types
  <2>2. refs' \in [Ref -> {"free", "live", "deleting"}]
    BY <1>2, <2>1, UnreferencedKeeps DEF Delete, Types
  <2>3. proxy' \in [Object -> BOOLEAN] /\ sending' \in [Object -> BOOLEAN]
    BY <1>2, Zenon DEF Delete, Types
  <2>4. heap' \in [Object -> {"none", "live", "freed"}]
    BY <1>2 DEF Delete, Types
  <2> QED BY <1>1, <2>1, <2>2, <2>3, <2>4
<1>3. CASE Keep
  BY <1>1, <1>3 DEF Keep, Types
<1> QED BY <1>2, <1>3 DEF DecreaseRef

(* Every step keeps the types. *)
LEMMA TypesStep == IInv /\ [Next]_vars => Types'
<1> SUFFICES ASSUME IInv, [Next]_vars PROVE Types'
  OBVIOUS
<1>t. Types
  BY DEF IInv, TypeOK, Types
<1> USE NapiAssumption
<1>1. ASSUME NEW o \in Object, CreateMediaKeySystem(o) \/ CreateSession(o) PROVE Types'
  <2>1. proxy' \in [Object -> BOOLEAN] /\ sending' \in [Object -> BOOLEAN]
    BY <1>t, <1>1, Zenon DEF CreateMediaKeySystem, CreateSession, Wrap, LeaveBare, Types
  <2>2. /\ js' \in [Object -> {"none", "held", "dropped", "gone"}]
        /\ heap' \in [Object -> {"none", "live", "freed"}]
    BY <1>t, <1>1 DEF CreateMediaKeySystem, CreateSession, Wrap, LeaveBare, Types
  <2>3. refMap' \in [Object -> Nat]
    BY <1>t, <1>1 DEF CreateMediaKeySystem, CreateSession, Wrap, LeaveBare, Types
  <2>4. UNCHANGED <<env, callVars, eventVars>>
    BY <1>1 DEF CreateMediaKeySystem, CreateSession
  <2> QED BY <1>t, <2>1, <2>2, <2>3, <2>4 DEF Types, callVars, eventVars
<1>2. ASSUME NEW o \in Object, Drop(o) PROVE Types'
  BY <1>t, <1>2 DEF Drop, Types, callVars, eventVars
<1>3. ASSUME NEW o \in Object, DestroyObject(o) PROVE Types'
  <2>1. proxy' \in [Object -> BOOLEAN] /\ sending' \in [Object -> BOOLEAN]
    BY <1>t, <1>3, Zenon DEF DestroyObject, Types
  <2> QED BY <1>t, <1>3, <2>1 DEF DestroyObject, Types, callVars, eventVars
<1>4. ASSUME NEW o \in Object, On(o) PROVE Types'
  <2>1. callbackMap_' \in [Object -> Ref \cup {None}]
    BY <1>t, <1>4 DEF On, Types
  <2>2. refs' \in [Ref -> {"free", "live", "deleting"}]
    BY <1>t, <1>4, <2>1, UnreferencedKeeps DEF On, Types
  <2> QED BY <1>t, <1>4, <2>1, <2>2 DEF On, Types, objectVars, callVars
<1>5. ASSUME NEW o \in Object, Off(o) PROVE Types'
  <2>1. callbackMap_' \in [Object -> Ref \cup {None}]
    BY <1>t, <1>5 DEF Off, Types
  <2>2. refs' \in [Ref -> {"free", "live", "deleting"}]
    BY <1>t, <1>5, <2>1, UnreferencedKeeps DEF Off, Types
  <2> QED BY <1>t, <1>5, <2>1, <2>2 DEF Off, Types, objectVars, callVars
<1>6. ASSUME NEW o \in Object, NEW c \in Call, Enqueue(c, o) PROVE Types'
  <2>1. PICK f \in BOOLEAN : failed' = [failed EXCEPT ![c] = f]
    BY <1>6, Zenon DEF Enqueue
  <2>2. failed' \in [Call -> BOOLEAN]
    BY <1>t, <2>1, Zenon DEF Types
  <2> QED BY <1>t, <1>6, <2>2 DEF Enqueue, Types, objectVars, eventVars
<1>7. CASE EnvExits
  BY <1>t, <1>7 DEF EnvExits, Types, objectVars, callVars
<1>8. ASSUME NEW o \in Object, MediaKeySystemNapiDestructor(o) PROVE Types'
  <2>1. CASE heap[o] = "live"
    BY <1>t, <1>8, <2>1, DecreaseTypes DEF MediaKeySystemNapiDestructor, Types, callVars
  <2>2. CASE heap[o] # "live"
    BY <1>t, <1>8, <2>2 DEF MediaKeySystemNapiDestructor, Keep, Types, callVars
  <2> QED BY <2>1, <2>2
<1>9. ASSUME NEW o \in Object, SendEvent(o) PROVE Types'
  BY <1>t, <1>9 DEF SendEvent, Types, objectVars, callVars
<1>10. ASSUME NEW c \in Call, Guard(c) PROVE Types'
  <2>0. target[c] \in Object
    BY <1>10 DEF Guard, IInv, Targeted
  <2>1. refMap' \in [Object -> Nat]
    BY <1>t, <1>10, <2>0 DEF Guard, IncreaseRef, Types
  <2>2. stage' \in [Call -> {"idle", "queued", "guarded", "executed", "settled"}]
    BY <1>t, <1>10 DEF Guard, Types
  <2> QED BY <1>t, <1>10, <2>1, <2>2 DEF Guard, Types, eventVars
<1>11. ASSUME NEW c \in Call, Skip(c) \/ Complete(c) PROVE Types'
  BY <1>t, <1>11 DEF Skip, Complete, Types, objectVars, eventVars
<1>12. ASSUME NEW c \in Call, Execute(c) PROVE Types'
  <2>1. failed' \in [Call -> BOOLEAN] /\ carried' \in [Call -> BOOLEAN]
    BY <1>t, <1>12, Zenon DEF Execute, SignResult, Types
  <2>2. target[c] \in Object
    BY <1>12 DEF Execute, IInv, Targeted
  <2> QED BY <1>t, <1>12, <2>1, <2>2, DecreaseTypes DEF Execute, Types
<1>13. ASSUME NEW r \in Ref, DeleteReference(r) PROVE Types'
  BY <1>t, <1>13 DEF DeleteReference, Types, objectVars, callVars
<1>14. CASE RunTask
  <2>1. tasks' \in Seq(Ref \cup {None})
    BY <1>t, <1>14 DEF RunTask, Types
  <2>2. refs' \in [Ref -> {"free", "live", "deleting"}]
    BY <1>t, <1>14, <2>1, UnreferencedKeeps DEF RunTask, Types
  <2> QED BY <1>t, <1>14, <2>1, <2>2 DEF RunTask, Types, objectVars, callVars
<1>15. CASE ServiceDies
  <2>1. proxy' \in [Object -> BOOLEAN]
    BY <1>15, Zenon DEF ServiceDies
  <2> QED BY <1>t, <1>15, <2>1 DEF ServiceDies, Types, callVars, eventVars
<1>16. CASE UNCHANGED vars
  BY <1>t, <1>16 DEF vars, objectVars, callVars, eventVars, Types
<1> QED
  BY <1>1, <1>2, <1>3, <1>4, <1>5, <1>6, <1>7, <1>8, <1>9, <1>10, <1>11, <1>12, <1>13,
     <1>14, <1>15, <1>16 DEF Next, Script, Worker

-----------------------------------------------------------------------------
(* Counting. *)

(* The executors inside are the same unless one enters or leaves.          *)
LEMMA InsideSame ==
  ASSUME \A c \in Call : (stage[c] = "guarded" <=> stage'[c] = "guarded")
                            /\ (stage[c] = "guarded" => target'[c] = target[c])
  PROVE  \A o \in Object : Inside(o)' = Inside(o)
BY DEF Inside

(* What is known of one object's count. *)
LEMMA CountOf ==
  ASSUME IInv, NEW o \in Object
  PROVE  /\ refMap[o] \in Nat /\ Cardinality(Inside(o)) \in Nat
         /\ refMap[o] = Own(o) + Cardinality(Inside(o))
         /\ heap[o] = "live" <=> refMap[o] > 0
         /\ Own(o) \in {0, 1}
BY InsideFinite DEF IInv, TypeOK, Counted, Alive, Own

(* A native half with an executor inside is alive.                         *)
LEMMA InsideIsAlive ==
  ASSUME IInv, NEW o \in Object, NEW c \in Inside(o)
  PROVE  heap[o] = "live"
<1>1. Cardinality(Inside(o)) # 0
  BY InsideFinite, FS_EmptySet
<1> QED BY <1>1, CountOf

(* Nothing that is counted changes.                                        *)
LEMMA CountedSame ==
  ASSUME IInv, UNCHANGED <<heap, refMap>>,
         \A o \in Object : js'[o] = "gone" <=> js[o] = "gone",
         \A o \in Object : Inside(o)' = Inside(o)
  PROVE  Counted'
<1>1. \A o \in Object : Cardinality(Inside(o))' = Cardinality(Inside(o))
  OBVIOUS
<1> QED BY <1>1 DEF IInv, TypeOK, Counted, Own

(* An object is finalised, or an executor leaves: one less counts.         *)
LEMMA CountedLess ==
  ASSUME IInv, NEW o \in Object, heap[o] = "live", DecreaseRef(o),
         js' \in [Object -> {"none", "held", "dropped", "gone"}],
         \A p \in Object \ {o} : js'[p] = js[p] /\ Inside(p)' = Inside(p),
         \/ js[o] # "gone" /\ js'[o] = "gone" /\ Inside(o)' = Inside(o)
         \/ /\ js'[o] = js[o]
            /\ Cardinality(Inside(o))' = Cardinality(Inside(o)) - 1
  PROVE  Counted'
<1> USE DEF IInv, TypeOK
<1>1. refMap' = [refMap EXCEPT ![o] = @ - 1]
  BY DEF Alive, DecreaseRef
<1>2. heap' = [heap EXCEPT ![o] = IF refMap[o] = 1 THEN "freed" ELSE "live"]
  BY DEF DecreaseRef, Delete, Keep
<1>3. refMap[o] = Own(o) + Cardinality(Inside(o)) /\ Cardinality(Inside(o)) \in Nat
  BY InsideFinite DEF Counted
<1>4. refMap'[o] = Own(o)' + Cardinality(Inside(o))'
  BY <1>1, <1>2, <1>3 DEF Own
<1>5. ASSUME NEW p \in Object \ {o} PROVE refMap'[p] = Own(p)' + Cardinality(Inside(p))'
  <2>1. Cardinality(Inside(p))' = Cardinality(Inside(p))
    OBVIOUS
  <2> QED BY <1>1, <1>2, <2>1 DEF Own, Counted
<1> QED BY <1>4, <1>5 DEF Counted

(* A native half that is made, or is not. *)
LEMMA CountedNew ==
  ASSUME IInv, NEW o \in Object, js[o] = "none", Wrap(o) \/ LeaveBare(o),
         UNCHANGED <<stage, target>>
  PROVE  Counted'
<1> USE DEF IInv, TypeOK
<1>1. \A p \in Object : Inside(p)' = Inside(p)
  BY InsideSame
<1>2. \A p \in Object : Cardinality(Inside(p))' = Cardinality(Inside(p))
  BY <1>1
<1>3. CASE LeaveBare(o)
  BY <1>2, <1>3 DEF LeaveBare, Own, Counted, Alive
<1>4. CASE Wrap(o)
  <2>1. Cardinality(Inside(o)) = 0
    BY InsideFinite DEF Own, Counted, Alive
  <2> QED BY <1>2, <1>4, <2>1 DEF Wrap, Own, Counted
<1> QED BY <1>3, <1>4

(* Every step keeps the counts. *)
LEMMA CountedStep == IInv /\ [Next]_vars => Counted'
<1> SUFFICES ASSUME IInv, [Next]_vars PROVE Counted'
  OBVIOUS
<1>1. ASSUME NEW o \in Object, CreateMediaKeySystem(o) \/ CreateSession(o) PROVE Counted'
  BY <1>1, CountedNew DEF CreateMediaKeySystem, CreateSession, callVars
<1>2. ASSUME NEW o \in Object, NEW c \in Call, Enqueue(c, o) PROVE Counted'
  <2>1. \A p \in Object : Inside(p)' = Inside(p)
    BY <1>2, InsideSame DEF Enqueue, IInv, TypeOK
  <2> QED BY <1>2, <2>1, CountedSame DEF Enqueue, objectVars
<1>3. ASSUME NEW c \in Call, Skip(c) \/ Complete(c) PROVE Counted'
  <2>1. \A p \in Object : Inside(p)' = Inside(p)
    BY <1>3, InsideSame DEF Skip, Complete, IInv, TypeOK
  <2> QED BY <1>3, <2>1, CountedSame DEF Skip, Complete, objectVars
<1>4. ASSUME NEW o \in Object, MediaKeySystemNapiDestructor(o) PROVE Counted'
  <2>1. \A p \in Object : Inside(p)' = Inside(p)
    BY <1>4, InsideSame DEF MediaKeySystemNapiDestructor, callVars
  <2>2. CASE heap[o] = "live"
    BY <1>4, <2>1, <2>2, CountedLess DEF MediaKeySystemNapiDestructor, IInv, TypeOK
  <2>3. CASE heap[o] # "live"
    <3>1. heap[o] = "none"
      <4>1. Own(o) = 0
        BY <2>3, CountOf
      <4> QED BY <1>4, <4>1 DEF MediaKeySystemNapiDestructor, Own
    <3>2. \A p \in Object : Cardinality(Inside(p))' = Cardinality(Inside(p))
      BY <2>1
    <3> QED BY <1>4, <2>3, <3>1, <3>2
            DEF MediaKeySystemNapiDestructor, Keep, IInv, TypeOK, Counted, Own
  <2> QED BY <2>2, <2>3
<1>5. ASSUME NEW c \in Call, Guard(c) PROVE Counted'
  <2>1. PICK o \in Object : o = target[c]
    BY <1>5 DEF Guard, IInv, Targeted
  <2>2. c \notin Inside(o) /\ Inside(o)' = Inside(o) \cup {c}
    BY <1>5, <2>1 DEF Guard, Inside, IInv, TypeOK
  <2>3. Cardinality(Inside(o))' = Cardinality(Inside(o)) + 1
    BY <2>1, <2>2, InsideFinite, FS_AddElement
  <2>4. \A p \in Object \ {o} : Inside(p)' = Inside(p)
    BY <1>5, <2>1 DEF Guard, Inside, IInv, TypeOK
  <2>5. \A p \in Object \ {o} : Cardinality(Inside(p))' = Cardinality(Inside(p))
    BY <2>4
  <2>6. refMap' = [refMap EXCEPT ![o] = @ + 1] /\ UNCHANGED <<heap, js>>
    BY <1>5, <2>1 DEF Guard, IncreaseRef
  <2>7. \A p \in Object : Own(p)' = Own(p)
    BY <2>6 DEF Own
  <2>8. refMap'[o] = Own(o)' + Cardinality(Inside(o))'
    <3>1. refMap'[o] = refMap[o] + 1
      BY <2>6 DEF IInv, TypeOK
    <3>2. /\ Own(o)' = Own(o) /\ Own(o) \in {0, 1}
          /\ refMap[o] = Own(o) + Cardinality(Inside(o)) /\ Cardinality(Inside(o)) \in Nat
      BY <2>7, CountOf
    <3> QED BY <2>3, <3>1, <3>2
  <2>9. ASSUME NEW p \in Object \ {o} PROVE refMap'[p] = Own(p)' + Cardinality(Inside(p))'
    BY <2>5, <2>6, <2>7, CountOf DEF IInv, TypeOK
  <2> QED BY <2>8, <2>9 DEF Counted
<1>6. ASSUME NEW c \in Call, Execute(c) PROVE Counted'
  <2>1. PICK o \in Object : o = target[c]
    BY <1>6 DEF Execute, IInv, Targeted
  <2>2. c \in Inside(o) /\ Inside(o)' = Inside(o) \ {c}
    BY <1>6, <2>1 DEF Execute, Inside, IInv, TypeOK
  <2>3. Cardinality(Inside(o))' = Cardinality(Inside(o)) - 1
    BY <2>1, <2>2, InsideFinite, FS_RemoveElement
  <2>4. \A p \in Object \ {o} : Inside(p)' = Inside(p)
    BY <1>6, <2>1 DEF Execute, Inside, IInv, TypeOK
  <2>5. heap[o] = "live"
    BY <2>2, InsideIsAlive
  <2>6. DecreaseRef(o) /\ UNCHANGED js
    BY <1>6, <2>1 DEF Execute
  <2>7. js' \in [Object -> {"none", "held", "dropped", "gone"}]
    BY <2>6 DEF IInv, TypeOK
  <2> QED BY <2>3, <2>4, <2>5, <2>6, <2>7, CountedLess
<1>7. ASSUME \/ \E o \in Object : Drop(o) \/ DestroyObject(o) \/ On(o) \/ Off(o) \/ SendEvent(o)
             \/ EnvExits \/ RunTask \/ ServiceDies \/ UNCHANGED vars
             \/ \E r \in Ref : DeleteReference(r)
      PROVE  Counted'
  <2>1. UNCHANGED <<heap, refMap, stage, target>>
    BY <1>7 DEF Drop, DestroyObject, On, Off, SendEvent, EnvExits, RunTask, ServiceDies,
                DeleteReference, vars, objectVars, callVars
  <2>2. \A p \in Object : js'[p] = "gone" <=> js[p] = "gone"
    BY <1>7 DEF Drop, DestroyObject, On, Off, SendEvent, EnvExits, RunTask, ServiceDies,
                DeleteReference, vars, objectVars, IInv, TypeOK
  <2>3. \A p \in Object : Inside(p)' = Inside(p)
    BY <2>1, InsideSame
  <2> QED BY <2>1, <2>2, <2>3, CountedSame
<1> QED
  BY <1>1, <1>2, <1>3, <1>4, <1>5, <1>6, <1>7 DEF Next, Script, Worker

-----------------------------------------------------------------------------
(* Who is alive.                                                           *)

(* The last to leave deletes, nobody else does. *)
LEMMA AliveLess ==
  ASSUME IInv, NEW o \in Object, heap[o] = "live", DecreaseRef(o),
         \A p \in Object : js'[p] = "none" => js[p] = "none"
  PROVE  Alive'
<1> USE DEF IInv, TypeOK
<1>1. refMap' = [refMap EXCEPT ![o] = @ - 1] /\ refMap[o] > 0
  BY DEF Alive, DecreaseRef
<1>2. CASE refMap[o] = 1
  <2>1. /\ heap' = [heap EXCEPT ![o] = "freed"]
        /\ proxy' = [proxy EXCEPT ![o] = FALSE] /\ sending' = [sending EXCEPT ![o] = FALSE]
    BY <1>2 DEF DecreaseRef, Delete
  <2>2. ~ proxy'[o] /\ ~ sending'[o]
    BY <2>1, Zenon
  <2>3. \A p \in Object \ {o} : proxy'[p] = proxy[p] /\ sending'[p] = sending[p]
    BY <2>1, Zenon
  <2>4. \A p \in Object : heap'[p] = "live" <=> refMap'[p] > 0
    BY <1>1, <1>2, <2>1 DEF Alive
  <2>5. \A p \in Object : js'[p] = "none" => heap'[p] = "none"
    BY <2>1 DEF Alive
  <2>6. \A p \in Object : proxy'[p] \/ sending'[p] => heap'[p] = "live"
    BY <2>1, <2>2, <2>3 DEF Alive
  <2> QED BY <2>4, <2>5, <2>6 DEF Alive
<1>3. CASE refMap[o] # 1
  BY <1>1, <1>3 DEF DecreaseRef, Keep, Alive
<1> QED BY <1>2, <1>3

(* Every step keeps it. *)
LEMMA AliveStep == IInv /\ [Next]_vars => Alive'
<1> SUFFICES ASSUME IInv, [Next]_vars PROVE Alive'
  OBVIOUS
<1> USE DEF IInv, TypeOK
<1>1. ASSUME NEW o \in Object, CreateMediaKeySystem(o) \/ CreateSession(o) PROVE Alive'
  <2>1. js[o] = "none" /\ js' = [js EXCEPT ![o] = "held"]
    BY <1>1 DEF CreateMediaKeySystem, CreateSession, Wrap, LeaveBare
  <2>2. CASE LeaveBare(o)
    BY <2>1, <2>2 DEF LeaveBare, Alive
  <2>3. CASE Wrap(o)
    <3>1. \A p \in Object \ {o} : proxy'[p] = proxy[p] /\ sending'[p] = sending[p]
      BY <2>3, Zenon DEF Wrap
    <3>2. heap' = [heap EXCEPT ![o] = "live"] /\ refMap' = [refMap EXCEPT ![o] = 1]
      BY <2>3 DEF Wrap
    <3> QED BY <2>1, <3>1, <3>2 DEF Alive
  <2> QED BY <1>1, <2>2, <2>3 DEF CreateMediaKeySystem, CreateSession
<1>2. ASSUME NEW o \in Object, DestroyObject(o) PROVE Alive'
  <2>1. \A p \in Object : (proxy'[p] => proxy[p]) /\ (sending'[p] => sending[p])
    BY <1>2, Zenon DEF DestroyObject
  <2>2. UNCHANGED <<heap, refMap, js>>
    BY <1>2 DEF DestroyObject
  <2> QED BY <2>1, <2>2 DEF Alive
<1>3. CASE ServiceDies
  <2>1. \A p \in Object : ~ proxy'[p]
    BY <1>3, Zenon DEF ServiceDies
  <2>2. UNCHANGED <<heap, refMap, js, sending>>
    BY <1>3 DEF ServiceDies
  <2> QED BY <2>1, <2>2 DEF Alive
<1>4. ASSUME NEW o \in Object, MediaKeySystemNapiDestructor(o) PROVE Alive'
  <2>1. \A p \in Object : js'[p] = "none" => js[p] = "none"
    BY <1>4 DEF MediaKeySystemNapiDestructor
  <2>2. CASE heap[o] = "live"
    <3>1. DecreaseRef(o)
      BY <1>4, <2>2 DEF MediaKeySystemNapiDestructor
    <3> QED BY <2>1, <2>2, <3>1, AliveLess
  <2>3. CASE heap[o] # "live"
    BY <1>4, <2>1, <2>3 DEF MediaKeySystemNapiDestructor, Keep, Alive
  <2> QED BY <2>2, <2>3
<1>5. ASSUME NEW c \in Call, Guard(c) PROVE Alive'
  <2>1. target[c] \in Object
    BY <1>5 DEF Guard, Targeted
  <2> QED BY <1>5, <2>1 DEF Guard, IncreaseRef, Alive
<1>6. ASSUME NEW c \in Call, Execute(c) PROVE Alive'
  <2>1. PICK o \in Object : o = target[c]
    BY <1>6 DEF Execute, Targeted
  <2>2. heap[o] = "live"
    BY <1>6, <2>1, InsideIsAlive DEF Execute, Inside
  <2> QED BY <1>6, <2>1, <2>2, AliveLess DEF Execute
<1>7. ASSUME NEW o \in Object, Drop(o) PROVE Alive'
  BY <1>7 DEF Drop, Alive
<1>8. ASSUME \/ \E o \in Object : On(o) \/ Off(o) \/ SendEvent(o) \/ \E c \in Call : Enqueue(c, o)
             \/ EnvExits \/ RunTask \/ UNCHANGED vars
             \/ \E r \in Ref : DeleteReference(r)
             \/ \E c \in Call : Skip(c) \/ Complete(c)
      PROVE  Alive'
  <2>1. UNCHANGED objectVars
    BY <1>8 DEF On, Off, SendEvent, Enqueue, EnvExits, RunTask, DeleteReference, Skip,
                Complete, vars
  <2> QED BY <2>1 DEF objectVars, Alive
<1> QED
  BY <1>1, <1>2, <1>3, <1>4, <1>5, <1>6, <1>7, <1>8 DEF Next, Script, Worker

(* A call that was made has an object.                                     *)
LEMMA TargetedStep == IInv /\ [Next]_vars => Targeted'
<1> SUFFICES ASSUME IInv, [Next]_vars PROVE Targeted'
  OBVIOUS
<1> USE DEF IInv, TypeOK
<1>1. ASSUME NEW o \in Object, NEW c \in Call, Enqueue(c, o) PROVE Targeted'
  BY <1>1 DEF Enqueue, Targeted
<1>2. ASSUME NEW c \in Call, Worker(c) \/ Complete(c) PROVE Targeted'
  <2>1. stage[c] # "idle" /\ target' = target
    BY <1>2 DEF Worker, Guard, Skip, Execute, Complete
  <2>2. \A d \in Call \ {c} : stage'[d] = stage[d]
    BY <1>2 DEF Worker, Guard, Skip, Execute, Complete
  <2> QED BY <2>1, <2>2 DEF Targeted
<1>3. ASSUME \/ \E o \in Object : \/ CreateMediaKeySystem(o) \/ CreateSession(o) \/ Drop(o)
                                  \/ DestroyObject(o) \/ On(o) \/ Off(o) \/ SendEvent(o)
                                  \/ MediaKeySystemNapiDestructor(o)
             \/ EnvExits \/ RunTask \/ ServiceDies \/ UNCHANGED vars
             \/ \E r \in Ref : DeleteReference(r)
      PROVE  Targeted'
  <2>1. UNCHANGED callVars
    BY <1>3 DEF CreateMediaKeySystem, CreateSession, Drop, DestroyObject, On, Off, SendEvent,
                MediaKeySystemNapiDestructor, EnvExits, RunTask, ServiceDies, DeleteReference,
                vars
  <2> QED BY <2>1 DEF callVars, Targeted
<1> QED
  BY <1>1, <1>2, <1>3 DEF Next, Script

-----------------------------------------------------------------------------
(* Listeners. *)

(* What ~AutoRef does with a map and a queue that refer to nothing new.    *)
LEMMA KeptIf ==
  ASSUME IInv, NEW map \in [Object -> Ref \cup {None}], NEW queue \in Seq(Ref \cup {None}),
         UsedIn(map, queue) \subseteq UsedIn(callbackMap_, tasks) \cup {None}
  PROVE  \A r \in UsedIn(map, queue) \ {None} : Unreferenced(map, queue)[r] = "live"
<1>1. Types
  BY DEF IInv, TypeOK, Types
<1>2. TAKE r \in UsedIn(map, queue) \ {None}
<1>3. r \in Ref
  BY <1>2, UsedTypes
<1>4. refs[r] = "live"
  BY <1>2 DEF IInv, ListenersKept
<1> QED BY <1>1, <1>2, <1>3, <1>4, UnreferencedKeeps

(* The entry of an object that is cleared refers to nothing.               *)
LEMMA KeptCleared ==
  ASSUME IInv, NEW o \in Object, callbackMap_' = [callbackMap_ EXCEPT ![o] = None],
         refs' = Unreferenced(callbackMap_', tasks), UNCHANGED tasks
  PROVE  ListenersKept'
<1>1. callbackMap_' \in [Object -> Ref \cup {None}] /\ tasks \in Seq(Ref \cup {None})
  BY DEF IInv, TypeOK
<1>2. UsedIn(callbackMap_', tasks) \subseteq UsedIn(callbackMap_, tasks) \cup {None}
  BY DEF UsedIn, IInv, TypeOK
<1>3. \A r \in UsedIn(callbackMap_', tasks) \ {None} : Unreferenced(callbackMap_', tasks)[r] = "live"
  BY <1>1, <1>2, KeptIf
<1>4. UsedIn(callbackMap_, tasks)' = UsedIn(callbackMap_', tasks)
  BY DEF UsedIn
<1> QED BY <1>3, <1>4 DEF ListenersKept

(* Every step keeps it. *)
LEMMA ListenersStep == IInv /\ [Next]_vars => ListenersKept'
<1> SUFFICES ASSUME IInv, [Next]_vars PROVE ListenersKept'
  OBVIOUS
<1>t. Types /\ Types'
  BY TypesStep DEF IInv, TypeOK, Types
<1>1. ASSUME NEW o \in Object, On(o) PROVE ListenersKept'
  <2>1. PICK new \in Ref :
          /\ refs[new] = "free"
          /\ callbackMap_' = [callbackMap_ EXCEPT ![o] = new]
          /\ refs' = [Unreferenced(callbackMap_', tasks) EXCEPT ![new] = "live"]
          /\ UNCHANGED tasks
    BY <1>1 DEF On
  <2>2. SUFFICES ASSUME NEW r \in UsedIn(callbackMap_', tasks) \ {None}
                 PROVE  refs'[r] = "live"
    <3>1. UsedIn(callbackMap_, tasks)' = UsedIn(callbackMap_', tasks)
      BY <2>1 DEF UsedIn
    <3> QED BY <3>1 DEF ListenersKept
  <2>3. r \in Ref
    BY <1>t, <2>2 DEF UsedIn, Types
  <2>4. CASE r = new
    BY <1>t, <2>1, <2>3, <2>4, UnreferencedKeeps DEF Types
  <2>5. CASE r # new
    <3>1. r \in UsedIn(callbackMap_, tasks)
      BY <1>t, <2>1, <2>2, <2>5 DEF UsedIn, Types
    <3>2. refs[r] = "live"
      BY <2>3, <3>1, NapiAssumption DEF IInv, ListenersKept
    <3>3. callbackMap_' \in [Object -> Ref \cup {None}] /\ tasks \in Seq(Ref \cup {None})
      BY <1>t DEF Types
    <3>4. Unreferenced(callbackMap_', tasks)[r] = "live"
      BY <1>t, <2>2, <2>3, <3>2, <3>3, UnreferencedKeeps
    <3> QED BY <2>1, <2>3, <2>5, <3>4 DEF Unreferenced
  <2> QED BY <2>4, <2>5
<1>2. ASSUME NEW o \in Object, Off(o) PROVE ListenersKept'
  BY <1>2, KeptCleared DEF Off
<1>3. ASSUME NEW o \in Object, DecreaseRef(o) \/ Keep, UNCHANGED tasks PROVE ListenersKept'
  <2>1. CASE Delete(o)
    BY <1>3, <2>1, KeptCleared DEF Delete
  <2>2. CASE Keep
    BY <1>3, <2>2 DEF Keep, IInv, ListenersKept, UsedIn
  <2> QED BY <1>3, <2>1, <2>2 DEF DecreaseRef
<1>4. ASSUME NEW o \in Object, MediaKeySystemNapiDestructor(o) PROVE ListenersKept'
  BY <1>3, <1>4 DEF MediaKeySystemNapiDestructor
<1>5. ASSUME NEW c \in Call, Execute(c) PROVE ListenersKept'
  <2>1. target[c] \in Object
    BY <1>5 DEF Execute, IInv, Targeted
  <2> QED BY <1>3, <1>5, <2>1 DEF Execute
<1>6. ASSUME NEW o \in Object, SendEvent(o) PROVE ListenersKept'
  <2>1. UsedIn(callbackMap_, tasks)' \subseteq UsedIn(callbackMap_, tasks)
    BY <1>t, <1>6 DEF SendEvent, UsedIn, Types
  <2> QED BY <1>6, <2>1 DEF SendEvent, IInv, ListenersKept
<1>7. CASE RunTask
  <2>1. UsedIn(callbackMap_, tasks') \subseteq UsedIn(callbackMap_, tasks) \cup {None}
    BY <1>t, <1>7 DEF RunTask, UsedIn, Types
  <2>2. \A r \in UsedIn(callbackMap_, tasks') \ {None} : Unreferenced(callbackMap_, tasks')[r] = "live"
    <3>1. callbackMap_ \in [Object -> Ref \cup {None}] /\ tasks' \in Seq(Ref \cup {None})
      BY <1>t DEF Types
    <3> QED BY <2>1, <3>1, KeptIf
  <2>3. UsedIn(callbackMap_, tasks)' = UsedIn(callbackMap_, tasks')
    BY <1>7 DEF RunTask, UsedIn
  <2> QED BY <1>7, <2>2, <2>3 DEF RunTask, ListenersKept
<1>8. CASE EnvExits
  BY <1>8 DEF EnvExits, IInv, ListenersKept, UsedIn
<1>9. ASSUME NEW r \in Ref, DeleteReference(r) PROVE ListenersKept'
  <2>1. UsedIn(callbackMap_, tasks)' = UsedIn(callbackMap_, tasks)
    BY <1>9 DEF DeleteReference, UsedIn
  <2>2. r \notin UsedIn(callbackMap_, tasks)
    BY <1>9, NapiAssumption DEF DeleteReference, IInv, ListenersKept
  <2>3. \A q \in UsedIn(callbackMap_, tasks) \ {None} : q \in Ref
    BY <1>t, UsedTypes DEF Types
  <2> QED BY <1>t, <1>9, <2>1, <2>2, <2>3 DEF DeleteReference, IInv, ListenersKept, Types
<1>10. ASSUME \/ \E o \in Object : \/ CreateMediaKeySystem(o) \/ CreateSession(o) \/ Drop(o)
                                   \/ DestroyObject(o) \/ \E c \in Call : Enqueue(c, o)
              \/ \E c \in Call : Guard(c) \/ Skip(c) \/ Complete(c)
              \/ ServiceDies \/ UNCHANGED vars
       PROVE  ListenersKept'
  <2>1. UNCHANGED eventVars
    BY <1>10 DEF CreateMediaKeySystem, CreateSession, Drop, DestroyObject, Enqueue, Guard, Skip,
                 Complete, ServiceDies, vars
  <2> QED BY <2>1 DEF eventVars, IInv, ListenersKept, UsedIn
<1> QED
  BY <1>1, <1>2, <1>4, <1>5, <1>6, <1>7, <1>8, <1>9, <1>10 DEF Next, Script, Worker

-----------------------------------------------------------------------------
(* The promises.                                                           *)

(* Before its executor answers, nothing was done for a call; an executor   *)
(* goes in only for one that was not refused.                              *)
Fresh ==
  \A c \in Call :
    /\ stage[c] \in {"idle", "queued", "guarded"} => ~ carried[c]
    /\ stage[c] \in {"idle", "guarded"} => ~ failed[c]

(* The object of a call with a reference to it is not finalised while the  *)
(* script runs, so that its executor finds the native half.                *)
Pinning ==
  \A c \in Held : Running /\ stage[c] \in {"queued", "guarded", "executed"} =>
    /\ js[target[c]] \in {"held", "dropped"}
    /\ failed[c] \/ heap[target[c]] # "none"
    /\ stage[c] = "executed" => failed[c] \/ carried[c]

PInv == Fresh /\ Pinning

(* No promise is asked for yet.                                            *)
LEMMA PromiseInit == Init => PInv /\ Promises!Init
<1> SUFFICES ASSUME Init PROVE PInv /\ Promises!Init
  OBVIOUS
<1>1. \A c \in Call : stage[c] = "idle" /\ ~ failed[c] /\ ~ carried[c]
  BY DEF Init
<1>2. \A c \in Held : PromiseOf(c) = "unasked"
  BY <1>1, NapiAssumption DEF PromiseOf
<1>3. Promises!Init
  BY <1>2 DEF Promises!Init
<1>4. Fresh
  BY <1>1 DEF Fresh
<1>5. Pinning
  BY <1>1, NapiAssumption DEF Pinning
<1> QED BY <1>3, <1>4, <1>5 DEF PInv

(* Only the executor of a call does its work.                              *)
LEMMA FreshStep == IInv /\ Fresh /\ [Next]_vars => Fresh'
<1> SUFFICES ASSUME IInv, Fresh, [Next]_vars PROVE Fresh'
  OBVIOUS
<1>t. /\ stage \in [Call -> {"idle", "queued", "guarded", "executed", "settled"}]
      /\ failed \in [Call -> BOOLEAN] /\ carried \in [Call -> BOOLEAN]
  BY DEF IInv, TypeOK
<1>1. ASSUME NEW o \in Object, NEW c \in Call, Enqueue(c, o) PROVE Fresh'
  BY <1>t, <1>1 DEF Enqueue, Fresh
<1>2. ASSUME NEW c \in Call, Guard(c) \/ Skip(c) \/ Complete(c) PROVE Fresh'
  BY <1>t, <1>2 DEF Guard, Skip, Complete, Fresh
<1>3. ASSUME NEW c \in Call, Execute(c) PROVE Fresh'
  BY <1>t, <1>3 DEF Execute, SignResult, Fresh
<1>4. ASSUME UNCHANGED callVars PROVE Fresh'
  BY <1>4 DEF callVars, Fresh
<1>5. ASSUME \/ \E o \in Object : \/ CreateMediaKeySystem(o) \/ CreateSession(o) \/ Drop(o)
                                  \/ DestroyObject(o) \/ On(o) \/ Off(o)
                                  \/ MediaKeySystemNapiDestructor(o) \/ SendEvent(o)
             \/ EnvExits \/ RunTask \/ ServiceDies \/ UNCHANGED vars
             \/ \E r \in Ref : DeleteReference(r)
      PROVE  UNCHANGED callVars
  BY <1>5 DEF CreateMediaKeySystem, CreateSession, Drop, DestroyObject, On, Off,
              MediaKeySystemNapiDestructor, SendEvent, EnvExits, RunTask, ServiceDies, vars,
              DeleteReference
<1> QED BY <1>1, <1>2, <1>3, <1>4, <1>5 DEF Next, Script, Worker

(* While the script runs, the collector leaves the object of a call with a *)
(* reference alone; so its executor skips only a call that was refused.    *)
LEMMA PinningStep == IInv /\ Fresh /\ Pinning /\ [Next]_vars => Pinning'
<1> SUFFICES ASSUME IInv, Fresh, Pinning, [Next]_vars PROVE Pinning'
  OBVIOUS
<1>t. /\ stage \in [Call -> {"idle", "queued", "guarded", "executed", "settled"}]
      /\ failed \in [Call -> BOOLEAN] /\ carried \in [Call -> BOOLEAN]
      /\ js \in [Object -> {"none", "held", "dropped", "gone"}]
      /\ heap \in [Object -> {"none", "live", "freed"}]
      /\ target \in [Call -> Object \cup {None}]
      /\ Held \subseteq Call /\ None \notin Object
  BY NapiAssumption DEF IInv, TypeOK
<1>r. \A c \in Call : stage[c] # "idle" => target[c] \in Object
  BY DEF IInv, Targeted
<1>1. ASSUME NEW o \in Object, NEW c \in Call, Enqueue(c, o) PROVE Pinning'
  BY <1>t, <1>1 DEF Enqueue, Pinning, Running, objectVars
<1>2. ASSUME NEW c \in Call, Guard(c) PROVE Pinning'
  BY <1>t, <1>2 DEF Guard, Pinning, Running
<1>3. ASSUME NEW c \in Call, Skip(c) PROVE Pinning'
  <2>1. refMap[target[c]] = 0 /\ c \in Held /\ Running => failed[c]
    <3> SUFFICES ASSUME refMap[target[c]] = 0, c \in Held, Running, ~ failed[c] PROVE FALSE
      OBVIOUS
    <3>1. target[c] \in Object /\ js[target[c]] # "gone" /\ heap[target[c]] # "none"
      BY <1>t, <1>r, <1>3 DEF Skip, Pinning
    <3> QED BY <3>1, CountOf DEF Own
  <2> QED BY <1>t, <1>3, <2>1 DEF Skip, Pinning, Running, objectVars
<1>4. ASSUME NEW c \in Call, Execute(c) PROVE Pinning'
  <2>1. \A o \in Object : heap'[o] = "none" => heap[o] = "none"
    BY <1>t, <1>4 DEF Execute, DecreaseRef, Delete, Keep
  <2>2. \A d \in Call : stage'[d] \in {"queued", "guarded", "executed"} => stage[d] \in {"queued", "guarded", "executed"}
    BY <1>t, <1>4 DEF Execute
  <2>3. \A d \in Call : stage'[d] = "executed" => stage[d] = "executed" \/ failed'[d] \/ carried'[d]
    BY <1>t, <1>4 DEF Execute, SignResult
  <2>4. \A d \in Call : failed[d] => failed'[d]
    BY <1>t, <1>4 DEF Execute, SignResult
  <2>5. \A d \in Call : carried[d] => carried'[d]
    BY <1>t, <1>4 DEF Execute, SignResult
  <2>6. UNCHANGED <<env, js, target>>
    BY <1>4 DEF Execute
  <2> QED BY <1>t, <1>r, <2>1, <2>2, <2>3, <2>4, <2>5, <2>6 DEF Pinning, Running
<1>5. ASSUME NEW c \in Call, Complete(c) PROVE Pinning'
  BY <1>t, <1>5 DEF Complete, Pinning, Running, objectVars
<1>6. ASSUME UNCHANGED callVars, Running' => Running,
             \A o \in Object : heap'[o] = "none" => heap[o] = "none",
             \A o \in Object : js[o] \in {"held", "dropped"} =>
               \/ js'[o] \in {"held", "dropped"}
               \/ ~ Running \/ ~ Pinned(o)
      PROVE  Pinning'
  <2>1. \A c \in Held : Running /\ stage[c] \in {"queued", "guarded", "executed"} => Pinned(target[c])
    BY <1>t DEF Pinned
  <2> QED BY <1>t, <1>r, <1>6, <2>1 DEF callVars, Pinning
<1>7. ASSUME NEW o \in Object, CreateMediaKeySystem(o) \/ CreateSession(o) PROVE Pinning'
  <2>1. \A p \in Object : heap'[p] = "none" => heap[p] = "none"
    BY <1>t, <1>7 DEF CreateMediaKeySystem, CreateSession, Wrap, LeaveBare
  <2>2. \A p \in Object : js[p] \in {"held", "dropped"} => js'[p] \in {"held", "dropped"}
    BY <1>t, <1>7 DEF CreateMediaKeySystem, CreateSession, Wrap, LeaveBare
  <2> QED BY <1>6, <1>7, <2>1, <2>2 DEF CreateMediaKeySystem, CreateSession, Running
<1>8. ASSUME NEW o \in Object, MediaKeySystemNapiDestructor(o) PROVE Pinning'
  <2>1. \A p \in Object : heap'[p] = "none" => heap[p] = "none"
    BY <1>t, <1>8 DEF MediaKeySystemNapiDestructor, DecreaseRef, Delete, Keep
  <2>2. \A p \in Object : js[p] \in {"held", "dropped"} =>
          js'[p] \in {"held", "dropped"} \/ ~ Running \/ ~ Pinned(p)
    BY <1>t, <1>8 DEF MediaKeySystemNapiDestructor
  <2> QED BY <1>6, <1>8, <2>1, <2>2 DEF MediaKeySystemNapiDestructor, Running
<1>9. ASSUME NEW o \in Object, Drop(o) \/ DestroyObject(o) \/ On(o) \/ Off(o) \/ SendEvent(o)
      PROVE  Pinning'
  <2>1. heap' = heap
    BY <1>9 DEF Drop, DestroyObject, On, Off, SendEvent, objectVars
  <2>2. \A p \in Object : js[p] \in {"held", "dropped"} => js'[p] \in {"held", "dropped"}
    BY <1>t, <1>9 DEF Drop, DestroyObject, On, Off, SendEvent, objectVars
  <2>3. UNCHANGED <<env, callVars>>
    BY <1>9 DEF Drop, DestroyObject, On, Off, SendEvent
  <2> QED BY <1>6, <2>1, <2>2, <2>3 DEF Running
<1>10. ASSUME EnvExits \/ RunTask \/ ServiceDies \/ UNCHANGED vars \/ \E r \in Ref : DeleteReference(r)
       PROVE  Pinning'
  <2>1. UNCHANGED <<heap, js, callVars>>
    BY <1>10 DEF EnvExits, RunTask, ServiceDies, DeleteReference, vars, objectVars
  <2>2. Running' => Running
    BY <1>10 DEF EnvExits, RunTask, ServiceDies, DeleteReference, vars, Running
  <2> QED BY <1>6, <2>1, <2>2
<1> QED
  BY <1>1, <1>2, <1>3, <1>4, <1>5, <1>7, <1>8, <1>9, <1>10 DEF Next, Script, Worker

(* A step of one call is a step of its promise.                            *)
LEMMA Advances ==
  ASSUME NEW c \in Call, \A d \in Held \ {c} : PromiseOf(d)' = PromiseOf(d),
         c \in Held => <<PromiseOf(c), PromiseOf(c)'>> \in Promises!Step \/ PromiseOf(c)' = PromiseOf(c)
  PROVE  [Promises!Next]_[d \in Held |-> PromiseOf(d)]
<1> DEFINE state == [d \in Held |-> PromiseOf(d)]
<1>1. CASE c \notin Held \/ PromiseOf(c)' = PromiseOf(c)
  <2>1. \A d \in Held : PromiseOf(d)' = PromiseOf(d)
    BY <1>1
  <2>2. state' = state
    BY <2>1
  <2> QED BY <2>2
<1>2. CASE c \in Held /\ <<PromiseOf(c), PromiseOf(c)'>> \in Promises!Step
  <2>1. state' = [state EXCEPT ![c] = state'[c]]
    BY <1>2
  <2>2. state[c] = PromiseOf(c) /\ state'[c] = PromiseOf(c)'
    BY <1>2
  <2>3. Promises!Advance(c)
    BY <1>2, <2>1, <2>2 DEF Promises!Advance
  <2> QED BY <1>2, <2>3 DEF Promises!Next
<1> QED BY <1>1, <1>2

(* A promise depends on the script and on its own call.                    *)
LEMMA SamePromise ==
  ASSUME NEW d, env' = env, stage'[d] = stage[d], failed'[d] = failed[d], carried'[d] = carried[d]
  PROVE  PromiseOf(d)' = PromiseOf(d)
BY DEF PromiseOf, Running

(* Each step of the binding is one of the promises, or none of theirs.     *)
LEMMA PromiseStep == IInv /\ PInv /\ [Next]_vars => [Promises!Next]_[c \in Held |-> PromiseOf(c)]
<1> SUFFICES ASSUME IInv, PInv, [Next]_vars
             PROVE  [Promises!Next]_[c \in Held |-> PromiseOf(c)]
  OBVIOUS
<1>t. /\ stage \in [Call -> {"idle", "queued", "guarded", "executed", "settled"}]
      /\ failed \in [Call -> BOOLEAN] /\ carried \in [Call -> BOOLEAN]
      /\ Held \subseteq Call
  BY NapiAssumption DEF IInv, TypeOK
<1>1. ASSUME NEW c \in Call, UNCHANGED env,
             \A d \in Call \ {c} : /\ stage'[d] = stage[d] /\ failed'[d] = failed[d]
                                   /\ carried'[d] = carried[d],
             c \in Held => \/ <<PromiseOf(c), PromiseOf(c)'>> \in Promises!Step
                           \/ PromiseOf(c)' = PromiseOf(c)
      PROVE  [Promises!Next]_[d \in Held |-> PromiseOf(d)]
  <2>1. \A d \in Held \ {c} : PromiseOf(d)' = PromiseOf(d)
    BY <1>t, <1>1, SamePromise
  <2> QED BY <1>1, <2>1, Advances
<1>2. ASSUME NEW o \in Object, NEW c \in Call, Enqueue(c, o)
      PROVE  [Promises!Next]_[d \in Held |-> PromiseOf(d)]
  <2>1. <<PromiseOf(c), PromiseOf(c)'>> \in Promises!Step
    <3>1. PromiseOf(c) = "unasked"
      BY <1>2 DEF Enqueue, PromiseOf
    <3>2. PromiseOf(c)' = IF failed'[c] THEN "failed" ELSE "asked"
      BY <1>t, <1>2 DEF Enqueue, PromiseOf, PInv, Fresh, Running
    <3> QED BY <3>1, <3>2 DEF Promises!Step
  <2>2. \A d \in Call \ {c} : stage'[d] = stage[d] /\ failed'[d] = failed[d] /\ carried'[d] = carried[d]
    BY <1>t, <1>2 DEF Enqueue
  <2> QED BY <1>1, <1>2, <2>1, <2>2 DEF Enqueue
<1>3. ASSUME NEW c \in Call, Guard(c) \/ Skip(c) PROVE [Promises!Next]_[d \in Held |-> PromiseOf(d)]
  <2>1. PromiseOf(c)' = PromiseOf(c)
    BY <1>t, <1>3 DEF Guard, Skip, PromiseOf, Running
  <2>2. \A d \in Call \ {c} : stage'[d] = stage[d] /\ failed'[d] = failed[d] /\ carried'[d] = carried[d]
    BY <1>t, <1>3 DEF Guard, Skip
  <2>3. UNCHANGED env
    BY <1>3 DEF Guard, Skip
  <2> QED BY <1>1, <2>1, <2>2, <2>3
<1>4. ASSUME NEW c \in Call, Execute(c) PROVE [Promises!Next]_[d \in Held |-> PromiseOf(d)]
  <2>4. \A d \in Call \ {c} : stage'[d] = stage[d] /\ failed'[d] = failed[d] /\ carried'[d] = carried[d]
    BY <1>t, <1>4 DEF Execute, SignResult
  <2>5. UNCHANGED env
    BY <1>4 DEF Execute
  <2>1. CASE Running
    <3>1. PromiseOf(c) = "asked"
      BY <2>1, <1>4 DEF Execute, PromiseOf, PInv, Fresh
    <3>2. PromiseOf(c)' \in {"asked", "done", "failed"}
      BY <2>1, <1>t, <1>4 DEF Execute, PromiseOf, Running
    <3>3. <<"asked", "done">> \in Promises!Step /\ <<"asked", "failed">> \in Promises!Step
      BY DEF Promises!Step
    <3> QED BY <3>1, <3>2, <3>3, <1>1, <2>4, <2>5
  <2>2. CASE ~ Running
    <3>1. PromiseOf(c)' = PromiseOf(c)
      BY <2>2, <1>t, <1>4 DEF Execute, PromiseOf, Running
    <3> QED BY <3>1, <1>1, <2>4, <2>5
  <2> QED BY <2>1, <2>2
<1>5. ASSUME NEW c \in Call, Complete(c) PROVE [Promises!Next]_[d \in Held |-> PromiseOf(d)]
  <2>1. ASSUME c \in Held PROVE <<PromiseOf(c), PromiseOf(c)'>> \in Promises!Step
    <3>1. PromiseOf(c) = IF failed[c] THEN "failed" ELSE "done"
      BY <2>1, <1>5 DEF Complete, PromiseOf, PInv, Pinning
    <3>2. PromiseOf(c)' = IF failed[c] THEN "rejected" ELSE "resolved"
      BY <1>t, <1>5 DEF Complete, PromiseOf
    <3> QED BY <3>1, <3>2 DEF Promises!Step
  <2>2. \A d \in Call \ {c} : stage'[d] = stage[d] /\ failed'[d] = failed[d] /\ carried'[d] = carried[d]
    BY <1>t, <1>5 DEF Complete
  <2> QED BY <1>1, <1>5, <2>1, <2>2 DEF Complete
<1>6. CASE EnvExits
  <2> DEFINE state == [d \in Held |-> PromiseOf(d)]
  <2>1. \A d \in Held : PromiseOf(d)' = IF PromiseOf(d) \in {"asked", "done", "failed"}
                                         THEN "abandoned" ELSE PromiseOf(d)
    BY <1>t, <1>6 DEF EnvExits, callVars, PromiseOf, Running
  <2>2. state' = [d \in Held |-> IF state[d] \in {"asked", "done", "failed"} THEN "abandoned" ELSE state[d]]
    BY <2>1
  <2>3. CASE \E d \in Held : state[d] \in {"asked", "done", "failed"}
    <3>1. Promises!Abandon
      BY <2>2, <2>3 DEF Promises!Abandon, Promises!Pending
    <3> QED BY <3>1 DEF Promises!Next
  <2>4. CASE \A d \in Held : state[d] \notin {"asked", "done", "failed"}
    <3>1. state' = state
      BY <2>2, <2>4
    <3> QED BY <3>1
  <2> QED BY <2>3, <2>4
<1>7. ASSUME \/ \E o \in Object : \/ CreateMediaKeySystem(o) \/ CreateSession(o) \/ Drop(o)
                                  \/ DestroyObject(o) \/ On(o) \/ Off(o)
                                  \/ MediaKeySystemNapiDestructor(o) \/ SendEvent(o)
             \/ RunTask \/ ServiceDies \/ UNCHANGED vars
             \/ \E r \in Ref : DeleteReference(r)
      PROVE  [Promises!Next]_[d \in Held |-> PromiseOf(d)]
  <2>1. UNCHANGED <<env, callVars>>
    BY <1>7 DEF CreateMediaKeySystem, CreateSession, Drop, DestroyObject, On, Off,
                MediaKeySystemNapiDestructor, SendEvent, RunTask, ServiceDies, vars, DeleteReference
  <2>2. \A d \in Held : PromiseOf(d)' = PromiseOf(d)
    BY <2>1, SamePromise DEF callVars
  <2>3. [d \in Held |-> PromiseOf(d)]' = [d \in Held |-> PromiseOf(d)]
    BY <2>2
  <2> QED BY <2>3
<1> QED BY <1>2, <1>3, <1>4, <1>5, <1>6, <1>7 DEF Next, Script, Worker

-----------------------------------------------------------------------------
(* The answers: no method misleads, whatever and however many arguments it *)
(* is given.                                                               *)

(* The shapes of a signature: what it is to begin with one, by its length  *)
(* and its places.                                                         *)
LEMMA BeginsEmpty == ASSUME NEW a \in Seq(Kind) PROVE Begins(a, <<>>)
BY DEF Begins

LEMMA NoShape ==
  ASSUME NEW m, Signature[m] = Nothing, NEW a \in Seq(Kind)
  PROVE  Begun(m, a) /\ (Wanted(m, a) => Len(a) <= 0)
BY DEF Nothing, Begun, Wanted, Begins

LEMMA OneShape ==
  ASSUME NEW m, NEW X, Signature[m] = {<<X>>}, NEW a \in Seq(Kind)
  PROVE  /\ Begun(m, a) <=> Len(a) >= 1 /\ a[1] \in X
         /\ Wanted(m, a) => Begun(m, a) /\ Len(a) <= 1
<1>1. Begins(a, <<X>>) <=> Len(a) >= 1 /\ a[1] \in X
  BY DEF Begins
<1>2. Len(<<X>>) = 1
  OBVIOUS
<1>3. Begun(m, a) <=> Begins(a, <<X>>)
  BY Zenon DEF Begun
<1>4. Wanted(m, a) <=> Len(<<X>>) = Len(a) /\ Begins(a, <<X>>)
  BY Zenon DEF Wanted
<1> QED BY <1>1, <1>2, <1>3, <1>4

LEMMA PairShape ==
  ASSUME NEW m, NEW X, NEW Y, Signature[m] = {<<X, Y>>}, NEW a \in Seq(Kind)
  PROVE  /\ Begun(m, a) <=> Len(a) >= 2 /\ a[1] \in X /\ a[2] \in Y
         /\ Wanted(m, a) => Begun(m, a) /\ Len(a) <= 2
<1>1. Begins(a, <<X, Y>>) <=> Len(a) >= 2 /\ a[1] \in X /\ a[2] \in Y
  BY DEF Begins
<1>2. Len(<<X, Y>>) = 2
  OBVIOUS
<1>3. Begun(m, a) <=> Begins(a, <<X, Y>>)
  BY Zenon DEF Begun
<1>4. Wanted(m, a) <=> Len(<<X, Y>>) = Len(a) /\ Begins(a, <<X, Y>>)
  BY Zenon DEF Wanted
<1> QED BY <1>1, <1>2, <1>3, <1>4

(* What Given leaves of n arguments: the first k, the callback in the last *)
(* place left out.                                                         *)
GivenIs(a, n, k) ==
  /\ n = Len(a) /\ k = Len(Given(a)) /\ k <= n
  /\ IF n > 0 /\ a[n] = "function" THEN k = n - 1 ELSE k = n
  /\ \A i \in 1..k : Arg(Given(a), i) = a[i]
  /\ k = 0 => Given(a) = <<>>

LEMMA GivenArgs ==
  ASSUME NEW a \in Seq(Kind)
  PROVE  \E n \in Nat, k \in Nat : GivenIs(a, n, k)
<1>1. PICK n \in Nat : n = Len(a)
  OBVIOUS
<1>2. CASE n > 0 /\ a[n] = "function"
  <2>1. Given(a) = SubSeq(a, 1, n - 1)
    BY <1>1, <1>2 DEF Given, Arg
  <2>2. n - 1 \in Int /\ \A i \in 1..(n - 1) : a[i] \in Kind
    BY <1>1
  <2>3. /\ Given(a) \in Seq(Kind) /\ Len(Given(a)) = IF 1 <= n - 1 THEN (n - 1) - 1 + 1 ELSE 0
        /\ \A i \in 1..((n - 1) - 1 + 1) : Given(a)[i] = a[1 + i - 1]
    BY <2>1, <2>2, SubSeqProperties
  <2>4. Len(Given(a)) = n - 1
    BY <1>2, <2>3
  <2>5. \A i \in 1..(n - 1) : Arg(Given(a), i) = a[i]
    BY <2>3, <2>4 DEF Arg
  <2>6. n - 1 = 0 => Given(a) = <<>>
    BY <2>3, <2>4
  <2>7. n - 1 \in Nat
    BY <1>2
  <2> QED BY <1>1, <1>2, <2>4, <2>5, <2>6, <2>7 DEF GivenIs
<1>3. CASE ~ (n > 0 /\ a[n] = "function")
  <2>1. Given(a) = a
    BY <1>1, <1>3 DEF Given, Arg
  <2>2. \A i \in 1..n : Arg(a, i) = a[i]
    BY <1>1 DEF Arg
  <2> QED BY <1>1, <1>3, <2>1, <2>2 DEF GivenIs
<1> QED BY <1>2, <1>3

(* The answers, and when they are fair: a method asks the native object    *)
(* once its arguments begin like its signature, or it refuses some that    *)
(* are not of the signature.                                               *)
LEMMA AskedIs ==
  /\ Asked("bare") = {"UNKNOWN"}
  /\ Asked("closed") = {"SERVICE_FATAL"}
  /\ Asked("open") = {"ok", "SERVICE_FATAL"}
BY DEF Asked

Refusal == {{"assertion"}, {"INVALID_VAL"}, {"UNKNOWN"}}

Plain(answer, m, a, s) ==
  \/ answer = Asked(s) /\ Begun(m, a)
  \/ answer \in Refusal /\ ~ Wanted(m, a)

(* The same of an asynchronous method, which has one refusal for           *)
(* everything.                                                             *)
LEMMA SettledFair ==
  ASSUME NEW m, m \notin Factory, NEW a, NEW s \in Side, NEW answer,
         \/ answer = Asked(s) /\ Begun(m, a)
         \/ answer = {"INVALID_VAL"} /\ (s = "bare" \/ ~ Wanted(m, a))
  PROVE  ~ Misleads(answer, m, a, s)
BY AskedIs DEF Misleads, Side

LEMMA RefusalIs ==
  {"assertion"} \in Refusal /\ {"INVALID_VAL"} \in Refusal /\ {"UNKNOWN"} \in Refusal
BY DEF Refusal

LEMMA PlainFair ==
  ASSUME NEW m, m \notin Factory, NEW a, NEW s \in Side, NEW answer, Plain(answer, m, a, s)
  PROVE  ~ Misleads(answer, m, a, s)
BY AskedIs DEF Plain, Misleads, Side, Refusal

(* The synchronous methods.                                                *)
Bare == {"getStatistics", "getCertificateStatus", "checkMediaKeyStatus", "clearMediaKeys",
         "getContentProtectionLevel", "destroy"}

LEMMA BareFair ==
  ASSUME NEW m \in Bare, NEW a \in Seq(Kind), NEW s \in Side
  PROVE  ~ Misleads(Answer(m, a, s), m, a, s)
<1>1. Signature[m] = Nothing
  BY DEF Signature, Bare
<1>2. Answer(m, a, s) = Asked(s)
  BY DEF Answer, Bare, GetStatistics, GetCertificateStatus, CheckMediaKeyStatus, ClearMediaKeys,
         GetContentProtectionLevel, Destroy
<1>3. Plain(Answer(m, a, s), m, a, s)
  BY <1>1, <1>2, NoShape, Zenon DEF Plain
<1>4. m \notin Factory
  BY DEF Bare, Factory
<1> QED BY <1>3, <1>4, PlainFair

LEMMA GetOfflineMediaKeyIdsFair ==
  ASSUME NEW m, m = "getOfflineMediaKeyIds", NEW a \in Seq(Kind), NEW s \in Side
  PROVE  ~ Misleads(Answer(m, a, s), m, a, s)
<1>1. Signature[m] = Nothing
  BY DEF Signature
<1>2. Answer(m, a, s) = GetOfflineMediaKeyIds(s)
  BY DEF Answer
<1>3. Begun(m, a)
  BY <1>1, NoShape, Zenon
<1>4. m \notin Factory
  BY DEF Factory
<1> QED BY <1>2, <1>3, <1>4, AskedIs DEF Misleads, GetOfflineMediaKeyIds, Side

LEMMA SetConfigurationStringFair ==
  ASSUME NEW m, m = "setConfigurationString", NEW a \in Seq(Kind), NEW s \in Side
  PROVE  ~ Misleads(Answer(m, a, s), m, a, s)
<1>1. Signature[m] = {<<Text, {"string", "long"}>>}
  BY DEF Signature
<1>2. Answer(m, a, s) = SetConfigurationString(a, s)
  BY DEF Answer
<1>3. /\ Begun(m, a) <=> Len(a) >= 2 /\ a[1] \in Text /\ a[2] \in {"string", "long"}
      /\ Wanted(m, a) => Begun(m, a) /\ Len(a) <= 2
  BY <1>1, PairShape, Zenon
<1>4. SetConfigurationString(a, s) = IF Len(a) > 2 THEN {"assertion"}
        ELSE IF Arg(a, 1) \notin Text THEN {"INVALID_VAL"}
        ELSE IF Arg(a, 2) \notin Text THEN {"INVALID_VAL"}
        ELSE IF Arg(a, 2) = "empty" THEN {"INVALID_VAL"}
        ELSE Asked(s)
  BY DEF SetConfigurationString, RefuseIf, ??, AtMost, NeedsText
<1>5. Plain(SetConfigurationString(a, s), m, a, s)
  BY <1>3, <1>4, RefusalIs DEF Plain, Arg, Text
<1> QED BY <1>2, <1>5, PlainFair DEF Factory

LEMMA GetConfigurationStringFair ==
  ASSUME NEW m, m = "getConfigurationString", NEW a \in Seq(Kind), NEW s \in Side
  PROVE  ~ Misleads(Answer(m, a, s), m, a, s)
<1>1. Signature[m] = {<<Text>>}
  BY DEF Signature
<1>2. Answer(m, a, s) = GetConfigurationString(a, s)
  BY DEF Answer
<1>3. /\ Begun(m, a) <=> Len(a) >= 1 /\ a[1] \in Text
      /\ Wanted(m, a) => Begun(m, a) /\ Len(a) <= 1
  BY <1>1, OneShape, Zenon
<1>4. GetConfigurationString(a, s) = IF Len(a) > 1 THEN {"assertion"}
        ELSE IF Arg(a, 1) \notin Text THEN {"INVALID_VAL"}
        ELSE Asked(s)
  BY DEF GetConfigurationString, RefuseIf, ??, AtMost, NeedsText
<1>5. Plain(GetConfigurationString(a, s), m, a, s)
  BY <1>3, <1>4, RefusalIs DEF Plain, Arg, Text
<1> QED BY <1>2, <1>5, PlainFair DEF Factory

LEMMA SetConfigurationByteArrayFair ==
  ASSUME NEW m, m = "setConfigurationByteArray", NEW a \in Seq(Kind), NEW s \in Side
  PROVE  ~ Misleads(Answer(m, a, s), m, a, s)
<1>1. Signature[m] = {<<Text, {"bytes"}>>}
  BY DEF Signature
<1>2. Answer(m, a, s) = SetConfigurationByteArray(a, s)
  BY DEF Answer
<1>3. /\ Begun(m, a) <=> Len(a) >= 2 /\ a[1] \in Text /\ a[2] \in {"bytes"}
      /\ Wanted(m, a) => Begun(m, a) /\ Len(a) <= 2
  BY <1>1, PairShape, Zenon
<1>4. SetConfigurationByteArray(a, s) = IF Len(a) > 2 THEN {"assertion"}
        ELSE IF Arg(a, 1) \notin Text THEN {"INVALID_VAL"}
        ELSE IF Arg(a, 2) \notin Buffer THEN {"INVALID_VAL"}
        ELSE IF Arg(a, 2) = "nodata" THEN {"INVALID_VAL"}
        ELSE Asked(s)
  BY DEF SetConfigurationByteArray, RefuseIf, ??, AtMost, NeedsText, NeedsBuffer, NeedsData
<1>5. Plain(SetConfigurationByteArray(a, s), m, a, s)
  BY <1>3, <1>4, RefusalIs DEF Plain, Arg, Text, Buffer
<1> QED BY <1>2, <1>5, PlainFair DEF Factory

LEMMA GetConfigurationByteArrayFair ==
  ASSUME NEW m, m = "getConfigurationByteArray", NEW a \in Seq(Kind), NEW s \in Side
  PROVE  ~ Misleads(Answer(m, a, s), m, a, s)
<1>1. Signature[m] = {<<Text>>}
  BY DEF Signature
<1>2. Answer(m, a, s) = GetConfigurationByteArray(a, s)
  BY DEF Answer
<1>3. /\ Begun(m, a) <=> Len(a) >= 1 /\ a[1] \in Text
      /\ Wanted(m, a) => Begun(m, a) /\ Len(a) <= 1
  BY <1>1, OneShape, Zenon
<1>4. GetConfigurationByteArray(a, s) = IF Len(a) > 2 THEN {"assertion"}
        ELSE IF Arg(a, 1) \notin Text THEN {"INVALID_VAL"}
        ELSE Asked(s)
  BY DEF GetConfigurationByteArray, RefuseIf, ??, AtMost, NeedsText
<1>5. Plain(GetConfigurationByteArray(a, s), m, a, s)
  BY <1>3, <1>4, RefusalIs DEF Plain, Arg, Text
<1> QED BY <1>2, <1>5, PlainFair DEF Factory

LEMMA GetMaxContentProtectionLevelFair ==
  ASSUME NEW m, m = "getMaxContentProtectionLevel", NEW a \in Seq(Kind), NEW s \in Side
  PROVE  ~ Misleads(Answer(m, a, s), m, a, s)
<1>1. Signature[m] = Nothing
  BY DEF Signature
<1>2. Answer(m, a, s) = GetMaxContentProtectionLevel(a, s)
  BY DEF Answer
<1>3. /\ Begun(m, a) <=> TRUE
      /\ Wanted(m, a) => Begun(m, a) /\ Len(a) <= 0
  BY <1>1, NoShape, Zenon
<1>4. GetMaxContentProtectionLevel(a, s) = IF Len(a) > 1 THEN {"assertion"}
        ELSE Asked(s)
  BY DEF GetMaxContentProtectionLevel, RefuseIf, ??, AtMost
<1>5. Plain(GetMaxContentProtectionLevel(a, s), m, a, s)
  BY <1>3, <1>4, RefusalIs DEF Plain, Arg
<1> QED BY <1>2, <1>5, PlainFair DEF Factory

LEMMA GetOfflineMediaKeyStatusFair ==
  ASSUME NEW m, m = "getOfflineMediaKeyStatus", NEW a \in Seq(Kind), NEW s \in Side
  PROVE  ~ Misleads(Answer(m, a, s), m, a, s)
<1>1. Signature[m] = {<<{"bytes"}>>}
  BY DEF Signature
<1>2. Answer(m, a, s) = GetOfflineMediaKeyStatus(a, s)
  BY DEF Answer
<1>3. /\ Begun(m, a) <=> Len(a) >= 1 /\ a[1] \in {"bytes"}
      /\ Wanted(m, a) => Begun(m, a) /\ Len(a) <= 1
  BY <1>1, OneShape, Zenon
<1>4. GetOfflineMediaKeyStatus(a, s) = IF Len(a) > 1 THEN {"assertion"}
        ELSE IF Arg(a, 1) \notin Buffer THEN {"INVALID_VAL"}
        ELSE IF Arg(a, 1) = "nodata" THEN {"INVALID_VAL"}
        ELSE Asked(s)
  BY DEF GetOfflineMediaKeyStatus, RefuseIf, ??, AtMost, NeedsBuffer, NeedsData
<1>5. Plain(GetOfflineMediaKeyStatus(a, s), m, a, s)
  BY <1>3, <1>4, RefusalIs DEF Plain, Arg, Buffer
<1> QED BY <1>2, <1>5, PlainFair DEF Factory

LEMMA ClearOfflineMediaKeysFair ==
  ASSUME NEW m, m = "clearOfflineMediaKeys", NEW a \in Seq(Kind), NEW s \in Side
  PROVE  ~ Misleads(Answer(m, a, s), m, a, s)
<1>1. Signature[m] = {<<{"bytes"}>>}
  BY DEF Signature
<1>2. Answer(m, a, s) = ClearOfflineMediaKeys(a, s)
  BY DEF Answer
<1>3. /\ Begun(m, a) <=> Len(a) >= 1 /\ a[1] \in {"bytes"}
      /\ Wanted(m, a) => Begun(m, a) /\ Len(a) <= 1
  BY <1>1, OneShape, Zenon
<1>4. ClearOfflineMediaKeys(a, s) = IF Len(a) > 1 THEN {"assertion"}
        ELSE IF Arg(a, 1) \notin Buffer THEN {"INVALID_VAL"}
        ELSE IF Arg(a, 1) = "nodata" THEN {"UNKNOWN"}
        ELSE Asked(s)
  BY DEF ClearOfflineMediaKeys, RefuseIf, ??, AtMost, NeedsBuffer, NeedsData
<1>5. Plain(ClearOfflineMediaKeys(a, s), m, a, s)
  BY <1>3, <1>4, RefusalIs DEF Plain, Arg, Buffer
<1> QED BY <1>2, <1>5, PlainFair DEF Factory

LEMMA RequireSecureDecoderModuleFair ==
  ASSUME NEW m, m = "requireSecureDecoderModule", NEW a \in Seq(Kind), NEW s \in Side
  PROVE  ~ Misleads(Answer(m, a, s), m, a, s)
<1>1. Signature[m] = {<<Text>>}
  BY DEF Signature
<1>2. Answer(m, a, s) = RequireSecureDecoderModule(a, s)
  BY DEF Answer
<1>3. /\ Begun(m, a) <=> Len(a) >= 1 /\ a[1] \in Text
      /\ Wanted(m, a) => Begun(m, a) /\ Len(a) <= 1
  BY <1>1, OneShape, Zenon
<1>4. RequireSecureDecoderModule(a, s) = IF Len(a) # 1 THEN {"INVALID_VAL"}
        ELSE IF Arg(a, 1) \notin Text THEN {"UNKNOWN"}
        ELSE Asked(s)
  BY DEF RequireSecureDecoderModule, RefuseIf, ??
<1>5. Plain(RequireSecureDecoderModule(a, s), m, a, s)
  <2>1. PICK n \in Nat : n = Len(a)
    OBVIOUS
  <2>2. n = 1 /\ Arg(a, 1) \in Text => Begun(m, a)
    BY <1>3, <2>1 DEF Arg, Text
  <2>3. Wanted(m, a) => n = 1 /\ Arg(a, 1) \in Text
    BY <1>3, <2>1 DEF Arg
  <2> QED BY <1>4, <2>1, <2>2, <2>3, RefusalIs DEF Plain
<1> QED BY <1>2, <1>5, PlainFair DEF Factory

LEMMA SetEventCallbackFair ==
  ASSUME NEW m, m = "on", NEW a \in Seq(Kind), NEW s \in Side
  PROVE  ~ Misleads(Answer(m, a, s), m, a, s)
<1>1. Signature[m] = {<<Text, {"function"}>>}
  BY DEF Signature
<1>2. Answer(m, a, s) = SetEventCallback(a, s)
  BY DEF Answer
<1>3. /\ Begun(m, a) <=> Len(a) >= 2 /\ a[1] \in Text /\ a[2] \in {"function"}
      /\ Wanted(m, a) => Begun(m, a) /\ Len(a) <= 2
  BY <1>1, PairShape, Zenon
<1>4. SetEventCallback(a, s) = IF Len(a) # 2 THEN {"assertion"}
        ELSE IF Arg(a, 1) \notin Text THEN {"INVALID_VAL"}
        ELSE IF Arg(a, 2) # "function" THEN {"INVALID_VAL"}
        ELSE IF s = "bare" THEN {"UNKNOWN"}
        ELSE {"ok"}
  BY DEF SetEventCallback, RefuseIf, ??, NeedsText
<1>5. ASSUME Wanted(m, a) PROVE Len(a) = 2 /\ Arg(a, 1) \in Text /\ Arg(a, 2) = "function"
  <2>1. PICK n \in Nat : n = Len(a)
    OBVIOUS
  <2>2. n = 2 /\ a[1] \in Text /\ a[2] = "function"
    BY <1>3, <1>5, <2>1
  <2>3. DOMAIN a = 1..n
    BY <2>1
  <2>4. 1 \in 1..n /\ 2 \in 1..n
    BY <2>2
  <2> QED BY <2>1, <2>2, <2>3, <2>4 DEF Arg
<1>6. SetEventCallback(a, s) # {"ok"} =>
        "ok" \notin SetEventCallback(a, s) /\ "SERVICE_FATAL" \notin SetEventCallback(a, s)
  BY <1>4
<1>7. SetEventCallback(a, s) = {"ok"} => Begun(m, a) /\ s # "bare"
  <2>1. PICK n \in Nat : n = Len(a)
    OBVIOUS
  <2>2. SetEventCallback(a, s) = {"ok"} =>
          n = 2 /\ Arg(a, 1) \in Text /\ Arg(a, 2) = "function" /\ s # "bare"
    BY <1>4, <2>1
  <2>3. n = 2 /\ Arg(a, 1) \in Text /\ Arg(a, 2) = "function" => Begun(m, a)
    BY <1>3, <2>1 DEF Arg, Text
  <2> QED BY <2>2, <2>3
<1> QED BY <1>2, <1>4, <1>5, <1>6, <1>7 DEF Misleads, Side, Factory

LEMMA UnsetEventCallbackFair ==
  ASSUME NEW m, m = "off", NEW a \in Seq(Kind), NEW s \in Side
  PROVE  ~ Misleads(Answer(m, a, s), m, a, s)
<1>1. Signature[m] = {<<Text>>}
  BY DEF Signature
<1>2. Answer(m, a, s) = UnsetEventCallback(a, s)
  BY DEF Answer
<1>3. /\ Begun(m, a) <=> Len(a) >= 1 /\ a[1] \in Text
      /\ Wanted(m, a) => Begun(m, a) /\ Len(a) <= 1
  BY <1>1, OneShape, Zenon
<1>4. UnsetEventCallback(a, s) = IF Len(a) # 1 THEN {"assertion"}
        ELSE IF Arg(a, 1) \notin Text THEN {"INVALID_VAL"}
        ELSE IF s = "bare" THEN {"UNKNOWN"}
        ELSE {"ok"}
  BY DEF UnsetEventCallback, RefuseIf, ??, NeedsText
<1>5. PICK n \in Nat : n = Len(a)
  OBVIOUS
<1>6. n = 1 /\ Arg(a, 1) \in Text => Begun(m, a)
  BY <1>3, <1>5 DEF Arg, Text
<1>7. Wanted(m, a) => n = 1 /\ Arg(a, 1) \in Text
  BY <1>3, <1>5 DEF Arg
<1> QED BY <1>2, <1>4, <1>5, <1>6, <1>7 DEF Misleads, Side, Factory

(* The static methods, and the one that creates a session.                 *)
LEMMA TranslatedIs ==
  /\ Translated(SystemErrors) = {"UNKNOWN", "SERVICE_FATAL", "MAX_SYSTEM_NUM_REACHED"}
  /\ Translated(SessionErrors) = {"SERVICE_FATAL", "MAX_SESSION_NUM_REACHED", "UNKNOWN"}
  /\ Translated({"SERVICE_FATAL_ERROR"}) = {"SERVICE_FATAL"}
BY DEF Translated, DrmInnerErrToNapiErrAPI12, SystemErrors, SessionErrors

LEMMA CreateMediaKeySystemInstanceFair ==
  ASSUME NEW m, m = "createMediaKeySystem", NEW a \in Seq(Kind), NEW s \in Side
  PROVE  ~ Misleads(Answer(m, a, s), m, a, s)
<1>1. Signature[m] = {<<Text>>}
  BY DEF Signature
<1>2. Answer(m, a, s) = CreateMediaKeySystemInstance(a)
  BY DEF Answer
<1>3. /\ Begun(m, a) <=> Len(a) >= 1 /\ a[1] \in Text
      /\ Wanted(m, a) => Begun(m, a) /\ Len(a) <= 1
  BY <1>1, OneShape, Zenon
<1>4. CreateMediaKeySystemInstance(a) = IF Arg(a, 1) \notin Text THEN {"INVALID_VAL"}
        ELSE {"ok", "UNKNOWN", "SERVICE_FATAL", "MAX_SYSTEM_NUM_REACHED"}
  BY TranslatedIs DEF CreateMediaKeySystemInstance, RefuseIf, ??, NeedsText
<1> QED BY <1>2, <1>3, <1>4 DEF Misleads, Side, Factory, Arg, Text

LEMMA GetMediaKeySystemUuidFair ==
  ASSUME NEW m, m = "getMediaKeySystemUuid", NEW a \in Seq(Kind), NEW s \in Side
  PROVE  ~ Misleads(Answer(m, a, s), m, a, s)
<1>1. Signature[m] = {<<Text>>}
  BY DEF Signature
<1>2. Answer(m, a, s) = GetMediaKeySystemUuid(a)
  BY DEF Answer
<1>3. /\ Begun(m, a) <=> Len(a) >= 1 /\ a[1] \in Text
      /\ Wanted(m, a) => Begun(m, a) /\ Len(a) <= 1
  BY <1>1, OneShape, Zenon
<1>4. GetMediaKeySystemUuid(a) = IF Len(a) > 1 THEN {"assertion"}
        ELSE IF Arg(a, 1) \notin Text THEN {"INVALID_VAL"}
        ELSE {"ok", "SERVICE_FATAL", "UNKNOWN"}
  BY DEF GetMediaKeySystemUuid, RefuseIf, ??, AtMost, NeedsText, FactoryAsked
<1> QED BY <1>2, <1>3, <1>4 DEF Misleads, Side, Factory, Arg, Text

LEMMA CreateMediaKeySessionFair ==
  ASSUME NEW m, m = "createMediaKeySession", NEW a \in Seq(Kind), NEW s \in Side
  PROVE  ~ Misleads(Answer(m, a, s), m, a, s)
<1>1. Signature[m] = {<<>>, <<{"level"}>>}
  BY DEF Signature
<1>2. Answer(m, a, s) = CreateMediaKeySession(a, s)
  BY DEF Answer
<1>3. Begun(m, a)
  BY <1>1, BeginsEmpty, Zenon DEF Begun
<1>4. Wanted(m, a) => (Len(a) > 0 => Arg(a, 1) = "level")
  <2>1. ASSUME Len(a) > 0, NEW t \in {<<>>, <<{"level"}>>}, Len(t) = Len(a), Begins(a, t)
        PROVE  Arg(a, 1) = "level"
    BY <2>1 DEF Begins, Arg
  <2> QED BY <1>1, <2>1 DEF Wanted
<1>5. CreateMediaKeySession(a, s) = IF Len(a) > 0 /\ Arg(a, 1) \notin Int32 THEN {"UNKNOWN"}
        ELSE IF Len(a) > 0 /\ Arg(a, 1) # "level" THEN {"INVALID_VAL"}
        ELSE SessionAsked(s)
  BY DEF CreateMediaKeySession, RefuseIf, ??
<1>6. /\ s = "bare" => SessionAsked(s) = {"UNKNOWN"}
      /\ s = "closed" => SessionAsked(s) = {"SERVICE_FATAL"}
      /\ s = "open" =>
           SessionAsked(s) = {"ok", "SERVICE_FATAL", "MAX_SESSION_NUM_REACHED", "UNKNOWN"}
  BY TranslatedIs DEF SessionAsked
<1> QED BY <1>2, <1>3, <1>4, <1>5, <1>6 DEF Misleads, Side, Factory, Int32

LEMMA GetMediaKeySystemsFair ==
  ASSUME NEW m, m = "getMediaKeySystems", NEW a \in Seq(Kind), NEW s \in Side
  PROVE  ~ Misleads(Answer(m, a, s), m, a, s)
<1>1. Signature[m] = Nothing
  BY DEF Signature
<1>2. Answer(m, a, s) = GetMediaKeySystems
  BY DEF Answer
<1>3. Begun(m, a)
  BY <1>1, NoShape, Zenon
<1> QED BY <1>2, <1>3 DEF Misleads, GetMediaKeySystems, FactoryAsked, Factory, Side

LEMMA IsMediaKeySystemSupportedFair ==
  ASSUME NEW m, m = "isMediaKeySystemSupported", NEW a \in Seq(Kind), NEW s \in Side
  PROVE  ~ Misleads(Answer(m, a, s), m, a, s)
<1> DEFINE alone == Len(a) = 1
           pair == Len(a) = 2 /\ Arg(a, 2) # "empty"
           long == ~ alone /\ ~ pair
<1>1. Signature[m] = {<<{"string"}>>, <<{"string"}, {"string", "long"}>>,
                      <<{"string"}, Text, {"level"}>>}
  BY DEF Signature
<1>2. Answer(m, a, s) = IsMediaKeySystemSupported(a)
  BY DEF Answer
<1>3. Len(a) >= 1 /\ a[1] = "string" => Begun(m, a)
  <2>1. Len(a) >= 1 /\ a[1] = "string" => Begins(a, <<{"string"}>>)
    BY DEF Begins
  <2> QED BY <1>1, <2>1, Zenon DEF Begun
<1>4. ASSUME Wanted(m, a)
      PROVE  /\ Arg(a, 1) = "string"
             /\ ~ alone => Arg(a, 2) \in Text
             /\ long => Arg(a, 3) = "level"
  <2>1. PICK t \in Signature[m] : Len(t) = Len(a) /\ Begins(a, t)
    BY <1>4 DEF Wanted
  <2>2. CASE t = <<{"string"}>>
    BY <2>1, <2>2 DEF Begins, Arg
  <2>3. CASE t = <<{"string"}, {"string", "long"}>>
    BY <2>1, <2>3 DEF Begins, Arg, Text
  <2>4. CASE t = <<{"string"}, Text, {"level"}>>
    BY <2>1, <2>4 DEF Begins, Arg
  <2> QED BY <1>1, <2>1, <2>2, <2>3, <2>4
<1>5. IsMediaKeySystemSupported(a) = IF Arg(a, 1) \notin Text THEN {"UNKNOWN"}
        ELSE IF Arg(a, 1) # "string" THEN {"INVALID_VAL"}
        ELSE IF ~ alone /\ Arg(a, 2) \notin Text THEN {"UNKNOWN"}
        ELSE IF long /\ Arg(a, 3) \notin Int32 THEN {"UNKNOWN"}
        ELSE IF long /\ Arg(a, 3) # "level" THEN {"INVALID_VAL"}
        ELSE {"ok"}
  BY DEF IsMediaKeySystemSupported, RefuseIf, ??
<1>6. Arg(a, 1) = "string" => Begun(m, a)
  BY <1>3 DEF Arg
<1> HIDE DEF alone, long
<1> QED BY <1>2, <1>4, <1>5, <1>6 DEF Misleads, Side, Factory, Text, Int32

(* The asynchronous methods, with and without a callback.                  *)
LEMMA GenerateKeySystemRequestFair ==
  ASSUME NEW m, m = "generateKeySystemRequest", NEW a \in Seq(Kind), NEW s \in Side
  PROVE  ~ Misleads(Answer(m, a, s), m, a, s)
<1> DEFINE b == Given(a)
<1>1. Signature[m] = {<<>>, <<{"function"}>>}
  BY DEF Signature
<1>2. Answer(m, a, s) = Settled(GenerateKeySystemRequest(b), a, s)
  BY DEF Answer
<1>3. PICK n \in Nat, k \in Nat : GivenIs(a, n, k)
  BY GivenArgs
<1>4. GenerateKeySystemRequest(b) => Begun(m, a)
  BY <1>1, BeginsEmpty, Zenon DEF Begun
<1>5. ASSUME Wanted(m, a) PROVE GenerateKeySystemRequest(b) /\ n <= ARGC_MAX
  <2>1. n <= 1 /\ (n > 0 => a[n] = "function")
    <3>1. ASSUME NEW t \in {<<>>, <<{"function"}>>}, Len(t) = Len(a), Begins(a, t)
          PROVE  n <= 1 /\ (n > 0 => a[n] = "function")
      BY <1>3, <3>1 DEF GivenIs, Begins
    <3> QED BY <1>1, <1>5, <3>1 DEF Wanted
  <2> QED BY <1>3, <2>1 DEF GivenIs, GenerateKeySystemRequest, ARGC_MAX
<1>6. m \notin Factory
  BY DEF Factory
<1>7. CASE s = "bare" \/ Len(a) > ARGC_MAX \/ ~ GenerateKeySystemRequest(b)
  <2>1. Answer(m, a, s) = {"INVALID_VAL"}
    BY <1>2, <1>7 DEF Settled
  <2>2. s = "bare" \/ ~ Wanted(m, a)
    BY <1>3, <1>5, <1>7 DEF GivenIs, ARGC_MAX
  <2> QED BY <1>6, <2>1, <2>2, SettledFair
<1>8. CASE ~ (s = "bare" \/ Len(a) > ARGC_MAX \/ ~ GenerateKeySystemRequest(b))
  <2>1. Answer(m, a, s) = Asked(s)
    BY <1>2, <1>8 DEF Settled
  <2> QED BY <1>4, <1>6, <1>8, <2>1, SettledFair
<1> QED BY <1>7, <1>8

OneBufferMethod ==
  {"processKeySystemResponse", "processMediaKeyResponse", "generateOfflineReleaseRequest",
   "restoreOfflineMediaKeys"}

LEMMA OneBufferFair ==
  ASSUME NEW a \in Seq(Kind), NEW s \in Side, NEW m \in OneBufferMethod
  PROVE  ~ Misleads(Answer(m, a, s), m, a, s)
<1> DEFINE b == Given(a)
<1>1. Signature[m] = {<<Buffer>>, <<Buffer, {"function"}>>}
  BY DEF Signature, OneBuffer, OneBufferMethod
<1>2. Answer(m, a, s) = Settled(ProcessKeySystemResponse(b), a, s)
  BY DEF OneBufferMethod, Answer, ProcessKeySystemResponse, ProcessMediaKeyResponse,
         GenerateOfflineReleaseRequest, RestoreOfflineMediaKeys
<1>3. PICK n \in Nat, k \in Nat : GivenIs(a, n, k)
  BY GivenArgs
<1>4. ProcessKeySystemResponse(b) => Begun(m, a)
  <2>1. ProcessKeySystemResponse(b) => 1 <= n /\ a[1] \in Buffer
    BY <1>3 DEF GivenIs, ProcessKeySystemResponse
  <2>2. 1 <= n /\ a[1] \in Buffer => Begins(a, <<Buffer>>)
    BY <1>3 DEF GivenIs, Begins
  <2> QED BY <1>1, <2>1, <2>2, Zenon DEF Begun
<1>5. ASSUME Wanted(m, a) PROVE ProcessKeySystemResponse(b) /\ n <= ARGC_MAX
  <2>1. PICK t \in Signature[m] : Len(t) = Len(a) /\ Begins(a, t)
    BY <1>5 DEF Wanted
  <2>2. CASE t = <<Buffer>>
    <3>1. Len(t) = 1 /\ DOMAIN t = 1..1 /\ t[1] = Buffer
      BY <2>2
    <3>2. n = 1
      BY <1>3, <2>1, <3>1 DEF GivenIs
    <3>3. a[1] \in Buffer
      BY <2>1, <3>1 DEF Begins
    <3> QED BY <1>3, <3>2, <3>3 DEF GivenIs, ProcessKeySystemResponse, Buffer, ARGC_MAX
  <2>3. CASE t = <<Buffer, {"function"}>>
    <3>1. Len(t) = 2 /\ DOMAIN t = 1..2 /\ t[1] = Buffer /\ t[2] = {"function"}
      BY <2>3
    <3>2. n = 2
      BY <1>3, <2>1, <3>1 DEF GivenIs
    <3>3. a[1] \in Buffer /\ a[2] = "function"
      BY <2>1, <3>1 DEF Begins
    <3> QED BY <1>3, <3>2, <3>3 DEF GivenIs, ProcessKeySystemResponse, Buffer, ARGC_MAX
  <2> QED BY <1>1, <2>1, <2>2, <2>3
<1>6. m \notin Factory
  BY DEF OneBufferMethod, Factory
<1>7. CASE s = "bare" \/ Len(a) > ARGC_MAX \/ ~ ProcessKeySystemResponse(b)
  <2>1. Answer(m, a, s) = {"INVALID_VAL"}
    BY <1>2, <1>7 DEF Settled
  <2>2. s = "bare" \/ ~ Wanted(m, a)
    BY <1>3, <1>5, <1>7 DEF GivenIs, ARGC_MAX
  <2> QED BY <1>6, <2>1, <2>2, SettledFair
<1>8. CASE ~ (s = "bare" \/ Len(a) > ARGC_MAX \/ ~ ProcessKeySystemResponse(b))
  <2>1. Answer(m, a, s) = Asked(s)
    BY <1>2, <1>8 DEF Settled
  <2> QED BY <1>4, <1>6, <1>8, <2>1, SettledFair
<1> QED BY <1>7, <1>8

LEMMA ProcessOfflineReleaseResponseFair ==
  ASSUME NEW m, m = "processOfflineReleaseResponse", NEW a \in Seq(Kind), NEW s \in Side
  PROVE  ~ Misleads(Answer(m, a, s), m, a, s)
<1> DEFINE b == Given(a)
<1>1. Signature[m] = {<<Buffer, Buffer>>, <<Buffer, Buffer, {"function"}>>}
  BY DEF Signature
<1>2. Answer(m, a, s) = Settled(ProcessOfflineReleaseResponse(b), a, s)
  BY DEF Answer
<1>3. PICK n \in Nat, k \in Nat : GivenIs(a, n, k)
  BY GivenArgs
<1>4. ProcessOfflineReleaseResponse(b) => Begun(m, a)
  <2>1. ProcessOfflineReleaseResponse(b) => 2 <= n /\ a[1] \in Buffer /\ a[2] \in Buffer
    BY <1>3 DEF GivenIs, ProcessOfflineReleaseResponse
  <2>2. 2 <= n /\ a[1] \in Buffer /\ a[2] \in Buffer => Begins(a, <<Buffer, Buffer>>)
    BY <1>3 DEF GivenIs, Begins
  <2> QED BY <1>1, <2>1, <2>2, Zenon DEF Begun
<1>5. ASSUME Wanted(m, a) PROVE ProcessOfflineReleaseResponse(b) /\ n <= ARGC_MAX
  <2>1. PICK t \in Signature[m] : Len(t) = Len(a) /\ Begins(a, t)
    BY <1>5 DEF Wanted
  <2>2. CASE t = <<Buffer, Buffer>>
    <3>1. Len(t) = 2 /\ DOMAIN t = 1..2 /\ t[1] = Buffer /\ t[2] = Buffer
      BY <2>2
    <3>2. n = 2
      BY <1>3, <2>1, <3>1 DEF GivenIs
    <3>3. a[1] \in Buffer /\ a[2] \in Buffer
      BY <2>1, <3>1 DEF Begins
    <3> QED BY <1>3, <3>2, <3>3 DEF GivenIs, ProcessOfflineReleaseResponse, Buffer, ARGC_MAX
  <2>3. CASE t = <<Buffer, Buffer, {"function"}>>
    <3>1. /\ Len(t) = 3 /\ DOMAIN t = 1..3
          /\ t[1] = Buffer /\ t[2] = Buffer /\ t[3] = {"function"}
      BY <2>3
    <3>2. n = 3
      BY <1>3, <2>1, <3>1 DEF GivenIs
    <3>3. a[1] \in Buffer /\ a[2] \in Buffer /\ a[3] = "function"
      BY <2>1, <3>1 DEF Begins
    <3> QED BY <1>3, <3>2, <3>3 DEF GivenIs, ProcessOfflineReleaseResponse, Buffer, ARGC_MAX
  <2> QED BY <1>1, <2>1, <2>2, <2>3
<1>6. m \notin Factory
  BY DEF Factory
<1>7. CASE s = "bare" \/ Len(a) > ARGC_MAX \/ ~ ProcessOfflineReleaseResponse(b)
  <2>1. Answer(m, a, s) = {"INVALID_VAL"}
    BY <1>2, <1>7 DEF Settled
  <2>2. s = "bare" \/ ~ Wanted(m, a)
    BY <1>3, <1>5, <1>7 DEF GivenIs, ARGC_MAX
  <2> QED BY <1>6, <2>1, <2>2, SettledFair
<1>8. CASE ~ (s = "bare" \/ Len(a) > ARGC_MAX \/ ~ ProcessOfflineReleaseResponse(b))
  <2>1. Answer(m, a, s) = Asked(s)
    BY <1>2, <1>8 DEF Settled
  <2> QED BY <1>4, <1>6, <1>8, <2>1, SettledFair
<1> QED BY <1>7, <1>8

LEMMA GenerateMediaKeyRequestFair ==
  ASSUME NEW m, m = "generateMediaKeyRequest", NEW a \in Seq(Kind), NEW s \in Side
  PROVE  ~ Misleads(Answer(m, a, s), m, a, s)
<1> DEFINE b == Given(a)
<1>1. Signature[m] = {<<Kind, Buffer, Int32>>, <<Kind, Buffer, Int32, {"pairs"}>>,
                      <<Kind, Buffer, Int32, {"function"}>>}
  BY DEF Signature
<1>2. Answer(m, a, s) = Settled(GenerateMediaKeyRequest(b), a, s)
  BY DEF Answer
<1>3. PICK n \in Nat, k \in Nat : GivenIs(a, n, k)
  BY GivenArgs
<1>4. GenerateMediaKeyRequest(b) => Begun(m, a)
  <2>1. GenerateMediaKeyRequest(b) =>
          3 <= n /\ a[1] \in Kind /\ a[2] \in Buffer /\ a[3] \in Int32
    BY <1>3 DEF GivenIs, GenerateMediaKeyRequest
  <2>2. 3 <= n /\ a[1] \in Kind /\ a[2] \in Buffer /\ a[3] \in Int32
        => Begins(a, <<Kind, Buffer, Int32>>)
    BY <1>3 DEF GivenIs, Begins
  <2> QED BY <1>1, <2>1, <2>2, Zenon DEF Begun
<1>5. ASSUME Wanted(m, a) PROVE GenerateMediaKeyRequest(b) /\ n <= ARGC_MAX
  <2>1. PICK t \in Signature[m] : Len(t) = Len(a) /\ Begins(a, t)
    BY <1>5 DEF Wanted
  <2>2. CASE t = <<Kind, Buffer, Int32>>
    <3>1. Len(t) = 3 /\ DOMAIN t = 1..3 /\ t[1] = Kind /\ t[2] = Buffer /\ t[3] = Int32
      BY <2>2
    <3>2. n = 3
      BY <1>3, <2>1, <3>1 DEF GivenIs
    <3>3. a[2] \in Buffer /\ a[3] \in Int32
      BY <2>1, <3>1 DEF Begins
    <3> QED BY <1>3, <3>2, <3>3 DEF GivenIs, GenerateMediaKeyRequest, Buffer, Int32, ARGC_MAX
  <2>3. CASE t = <<Kind, Buffer, Int32, {"pairs"}>>
    <3>1. /\ Len(t) = 4 /\ DOMAIN t = 1..4
          /\ t[1] = Kind /\ t[2] = Buffer /\ t[3] = Int32 /\ t[4] = {"pairs"}
      BY <2>3
    <3>2. n = 4
      BY <1>3, <2>1, <3>1 DEF GivenIs
    <3>3. a[2] \in Buffer /\ a[3] \in Int32 /\ a[4] = "pairs"
      BY <2>1, <3>1 DEF Begins
    <3> QED BY <1>3, <3>2, <3>3 DEF GivenIs, GenerateMediaKeyRequest, Buffer, Int32, ARGC_MAX
  <2>4. CASE t = <<Kind, Buffer, Int32, {"function"}>>
    <3>1. /\ Len(t) = 4 /\ DOMAIN t = 1..4
          /\ t[1] = Kind /\ t[2] = Buffer /\ t[3] = Int32 /\ t[4] = {"function"}
      BY <2>4
    <3>2. n = 4
      BY <1>3, <2>1, <3>1 DEF GivenIs
    <3>3. a[2] \in Buffer /\ a[3] \in Int32 /\ a[4] = "function"
      BY <2>1, <3>1 DEF Begins
    <3> QED BY <1>3, <3>2, <3>3 DEF GivenIs, GenerateMediaKeyRequest, Buffer, Int32, ARGC_MAX
  <2> QED BY <1>1, <2>1, <2>2, <2>3, <2>4
<1>6. m \notin Factory
  BY DEF Factory
<1>7. CASE s = "bare" \/ Len(a) > ARGC_MAX \/ ~ GenerateMediaKeyRequest(b)
  <2>1. Answer(m, a, s) = {"INVALID_VAL"}
    BY <1>2, <1>7 DEF Settled
  <2>2. s = "bare" \/ ~ Wanted(m, a)
    BY <1>3, <1>5, <1>7 DEF GivenIs, ARGC_MAX
  <2> QED BY <1>6, <2>1, <2>2, SettledFair
<1>8. CASE ~ (s = "bare" \/ Len(a) > ARGC_MAX \/ ~ GenerateMediaKeyRequest(b))
  <2>1. Answer(m, a, s) = Asked(s)
    BY <1>2, <1>8 DEF Settled
  <2> QED BY <1>4, <1>6, <1>8, <2>1, SettledFair
<1> QED BY <1>7, <1>8

(* The methods together.                                                   *)
LEMMA NobodyMisled == ASSUME NEW maxArgs \in Nat PROVE MisleadingSides(maxArgs) = {}
<1> SUFFICES ASSUME NEW s \in Side, NEW m \in DOMAIN Signature, NEW n \in 0..maxArgs,
                    NEW a \in [1..n -> Kind]
             PROVE  ~ Misleads(Answer(m, a, s), m, a, s)
  BY DEF MisleadingSides
<1>1. a \in Seq(Kind)
  OBVIOUS
<1>2. DOMAIN Signature = Bare \cup OneBufferMethod \cup
        {"createMediaKeySystem", "isMediaKeySystemSupported", "getMediaKeySystems",
         "getMediaKeySystemUuid", "createMediaKeySession", "setConfigurationString",
         "getConfigurationString", "setConfigurationByteArray", "getConfigurationByteArray",
         "getMaxContentProtectionLevel", "getOfflineMediaKeyIds", "getOfflineMediaKeyStatus",
         "clearOfflineMediaKeys", "requireSecureDecoderModule", "on", "off",
         "generateKeySystemRequest", "generateMediaKeyRequest", "processOfflineReleaseResponse"}
  BY DEF Signature, Bare, OneBufferMethod
<1>3. CASE m \in Bare
  BY <1>1, <1>3, BareFair, Zenon
<1>4. CASE m \in OneBufferMethod
  BY <1>1, <1>4, OneBufferFair, Zenon
<1>5. CASE m \in {"createMediaKeySystem", "isMediaKeySystemSupported", "getMediaKeySystems",
                  "getMediaKeySystemUuid"}
  BY <1>1, <1>5, CreateMediaKeySystemInstanceFair, IsMediaKeySystemSupportedFair,
     GetMediaKeySystemsFair, GetMediaKeySystemUuidFair, Zenon
<1>6. CASE m \in {"createMediaKeySession", "setConfigurationString", "getConfigurationString",
                  "setConfigurationByteArray", "getConfigurationByteArray"}
  BY <1>1, <1>6, CreateMediaKeySessionFair, SetConfigurationStringFair, GetConfigurationStringFair,
     SetConfigurationByteArrayFair, GetConfigurationByteArrayFair, Zenon
<1>7. CASE m \in {"getMaxContentProtectionLevel", "getOfflineMediaKeyIds",
                  "getOfflineMediaKeyStatus", "clearOfflineMediaKeys",
                  "requireSecureDecoderModule"}
  BY <1>1, <1>7, GetMaxContentProtectionLevelFair, GetOfflineMediaKeyIdsFair,
     GetOfflineMediaKeyStatusFair, ClearOfflineMediaKeysFair, RequireSecureDecoderModuleFair, Zenon
<1>8. CASE m \in {"on", "off", "generateKeySystemRequest", "generateMediaKeyRequest",
                  "processOfflineReleaseResponse"}
  BY <1>1, <1>8, SetEventCallbackFair, UnsetEventCallbackFair, GenerateKeySystemRequestFair,
     GenerateMediaKeyRequestFair, ProcessOfflineReleaseResponseFair, Zenon
<1> QED BY <1>2, <1>3, <1>4, <1>5, <1>6, <1>7, <1>8

-----------------------------------------------------------------------------
(* The theorems. *)

(* The invariant of the binding: types and counts, who is alive, which     *)
(* object a call has, and the listeners.                                   *)
THEOREM Invariance == Spec => []IInv
<1>1. IInv /\ [Next]_vars => IInv'
  <2>1. SUFFICES ASSUME IInv, [Next]_vars PROVE IInv'
    OBVIOUS
  <2>2. Types' /\ Counted' => TypeOK'
    BY DEF Types, TypeOK
  <2> QED BY <2>1, <2>2, TypesStep, CountedStep, AliveStep, TargetedStep, ListenersStep DEF IInv
<1> QED BY InitInv, <1>1, PTL DEF Spec

(* The types, and that a count is the object and the executors inside it.  *)
THEOREM TypeCorrect == Spec => []TypeOK
<1>1. IInv => TypeOK
  BY DEF IInv
<1> QED BY <1>1, Invariance, PTL

(* A native half lives exactly as long as its object or an executor may    *)
(* use it, for any number of calls on any number of worker threads.        *)
THEOREM LivesCorrect == Spec => []LivesWhileUsed
<1>1. IInv => LivesWhileUsed
  <2> SUFFICES ASSUME IInv, NEW o \in Object
               PROVE  /\ \/ heap[o] = "none"
                         \/ heap[o] = "live" <=> js[o] # "gone" \/ Inside(o) # {}
                      /\ proxy[o] \/ sending[o] => heap[o] = "live"
    BY DEF LivesWhileUsed
  <2>1. Inside(o) = {} <=> Cardinality(Inside(o)) = 0
    BY InsideFinite, FS_EmptySet
  <2>2. ASSUME heap[o] # "none"
        PROVE  heap[o] = "live" <=> js[o] # "gone" \/ Inside(o) # {}
    <3>1. Own(o) > 0 <=> js[o] # "gone"
      BY <2>2 DEF Own
    <3> QED BY <2>1, <3>1, CountOf
  <2> QED BY <2>2 DEF IInv, Alive
<1> QED BY <1>1, Invariance, PTL

(* A listener lives while a map or an event on its way refers to it.       *)
THEOREM ListenersCorrect == Spec => []ListenersKept
<1>1. IInv => ListenersKept
  BY DEF IInv
<1> QED BY <1>1, Invariance, PTL

(* The calls that hold a reference to their object implement PromiseCall,  *)
(* for any number of calls: a promise settles at most once, resolves only  *)
(* after the native object did the work, and rejects only after the work   *)
(* was refused or failed.  That it does settle is left to TLC.             *)
THEOREM PromisesKept == Spec => Promises!Safety
<1>1. Init => PInv /\ Promises!Init
  BY PromiseInit
<1>2. IInv /\ PInv /\ [Next]_vars => PInv'
  BY FreshStep, PinningStep DEF PInv
<1>3. IInv /\ PInv /\ [Next]_vars => [Promises!Next]_[c \in Held |-> PromiseOf(c)]
  BY PromiseStep
<1> QED BY <1>1, <1>2, <1>3, Invariance, PTL DEF Spec, Promises!Safety

(* With any number of arguments, on every object in whatever state it is,  *)
(* each method of the binding says whose fault it is: arguments that are   *)
(* not of its signature never reach the service, those that are get no     *)
(* parameter error, and nothing succeeds without a native object to ask.   *)
THEOREM AnswersCorrect == Spec => []AnswersTellTheCause
<1>1. Misleading = {}
  BY NapiAssumption, NobodyMisled DEF Misleading
<1>2. AnswersTellTheCause
  BY <1>1 DEF AnswersTellTheCause
<1> QED BY <1>2, PTL

=============================================================================
