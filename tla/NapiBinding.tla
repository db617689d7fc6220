---------------------------- MODULE NapiBinding ----------------------------
(***************************************************************************)
(* The JavaScript binding: the native half of the JavaScript objects and   *)
(* who keeps it, the asynchronous calls, and the listeners                 *)
(* (frameworks/js/drm_napi/*.cpp, services/utils/include/napi_async_work.h,*)
(* napi_param_utils.h).                                                    *)
(*                                                                         *)
(* Methods, finalizers, completions and listeners run on the thread of the *)
(* script; executors on worker threads; events come from the thread of the *)
(* native object.  ObjectRefMap is to keep the native half while an        *)
(* executor is in it, AutoRef to keep a listener while an event is on its  *)
(* way.  What a native object does with a call is MediaKeySystemImpl; here *)
(* it has a proxy and an event thread or not.                              *)
(***************************************************************************)
EXTENDS NapiMethods, Integers, FiniteSets

CONSTANTS
  System, Session,   \* JavaScript objects
  Call,              \* asynchronous calls, each made once
  Held,              \* those of them that got a reference to their object
  Ref,               \* references to listeners, recycled
  MaxTasks,          \* bound: events on their way
  MaxArgs,           \* bound: arguments of a call
  None

Object == System \cup Session

ASSUME NapiAssumption ==
  /\ System \cap Session = {}
  /\ None \notin Object \cup Ref
  /\ IsFiniteSet(Call) /\ Held \subseteq Call
  /\ MaxTasks \in Nat /\ MaxArgs \in Nat

VARIABLES
  env,          \* the script runs
  js,           \* each object, as the application and the collector see it
  heap,         \* its native half, a MediaKeySystemNapi or a MediaKeySessionNapi
  refMap,       \* ObjectRefMap: the count of each native half, 0 when it has none
  proxy,        \* the native object has a proxy of the service
  sending,      \* its event thread runs
  stage,        \* where each call is
  target,       \* context->native
  failed,       \* context->status is not napi_ok
  carried,      \* the native object did the work
  callbackMap_, \* the listener of each object
  refs,         \* the AutoRefs
  tasks         \* napi_send_event: listeners to call

objectVars == <<js, heap, refMap, proxy, sending>>
callVars == <<stage, target, failed, carried>>
eventVars == <<callbackMap_, refs, tasks>>
vars == <<env, objectVars, callVars, eventVars>>

Init ==
  /\ env = "up"
  /\ js = [o \in Object |-> "none"]
  /\ heap = [o \in Object |-> "none"]
  /\ refMap = [o \in Object |-> 0]
  /\ proxy = [o \in Object |-> FALSE]
  /\ sending = [o \in Object |-> FALSE]
  /\ stage = [c \in Call |-> "idle"]
  /\ target = [c \in Call |-> None]
  /\ failed = [c \in Call |-> FALSE]
  /\ carried = [c \in Call |-> FALSE]
  /\ callbackMap_ = [o \in Object |-> None]
  /\ refs = [r \in Ref |-> "free"]
  /\ tasks = <<>>

Running == env = "up"

-----------------------------------------------------------------------------
(* The references to listeners: one lives while a map or a task has it;    *)
(* ~AutoRef leaves the deletion to the thread of the script.               *)

UsedIn(map, queue) ==
  {map[o] : o \in Object} \cup {queue[i] : i \in DOMAIN queue}

Unreferenced(map, queue) ==
  [r \in Ref |-> IF refs[r] = "live" /\ r \notin UsedIn(map, queue) THEN "deleting"
                 ELSE refs[r]]

DeleteReference(r) ==
  /\ Running
  /\ refs[r] = "deleting"
  /\ refs' = [refs EXCEPT ![r] = "free"]
  /\ UNCHANGED <<env, objectVars, callVars, callbackMap_, tasks>>

-----------------------------------------------------------------------------
(* Objects are made. *)

(* The constructor: the native object gets its callback, the JavaScript    *)
(* object its native half.                                                 *)
Wrap(o) ==
  /\ js' = [js EXCEPT ![o] = "held"]
  /\ heap' = [heap EXCEPT ![o] = "live"]
  /\ refMap' = [refMap EXCEPT ![o] = 1]
  /\ proxy' = [proxy EXCEPT ![o] = TRUE]
  /\ sending' = [sending EXCEPT ![o] = TRUE]

(* napi_wrap fails: the native half and its native object go again, yet    *)
(* the new object is returned.                                             *)
LeaveBare(o) ==
  /\ js' = [js EXCEPT ![o] = "held"]
  /\ UNCHANGED <<heap, refMap, proxy, sending>>

CreateMediaKeySystem(o) ==
  /\ Running
  /\ o \in System
  /\ js[o] = "none"
  /\ Wrap(o) \/ LeaveBare(o)
  /\ UNCHANGED <<env, callVars, eventVars>>

CreateSession(o) ==
  /\ Running
  /\ o \in Session
  /\ js[o] = "none"
  /\ \E s \in System : js[s] = "held" /\ heap[s] = "live" /\ proxy[s]
  /\ Wrap(o) \/ LeaveBare(o)
  /\ UNCHANGED <<env, callVars, eventVars>>

-----------------------------------------------------------------------------
(* The native half goes. *)

(* Its deletion destroys the native object, which had no other owner:      *)
(* that releases it and joins its event thread.                            *)
Delete(o) ==
  /\ heap' = [heap EXCEPT ![o] = "freed"]
  /\ proxy' = [proxy EXCEPT ![o] = FALSE]
  /\ sending' = [sending EXCEPT ![o] = FALSE]
  /\ callbackMap_' = [callbackMap_ EXCEPT ![o] = None]
  /\ refs' = Unreferenced(callbackMap_', tasks)

Keep == UNCHANGED <<heap, proxy, sending, callbackMap_, refs>>

(* Mutant: the finalizer deletes without counting. *)
DeleteAlways(o) ==
  /\ refMap' = [refMap EXCEPT ![o] = 0]
  /\ Delete(o)

DecreaseRef(o) ==
  /\ refMap' = [refMap EXCEPT ![o] = IF @ > 0 THEN @ - 1 ELSE 0]
  /\ IF refMap[o] = 1 THEN Delete(o) ELSE Keep

Drop(o) ==
  /\ Running
  /\ js[o] = "held"
  /\ js' = [js EXCEPT ![o] = "dropped"]
  /\ UNCHANGED <<env, heap, refMap, proxy, sending, callVars, eventVars>>

(* A call that has one holds a reference until its completion is over.     *)
Pinned(o) ==
  \E c \in Held : target[c] = o /\ stage[c] \in {"queued", "guarded", "executed"}

(* The collector takes an object nobody can reach; the end of the script   *)
(* takes all of them.                                                      *)
MediaKeySystemNapiDestructor(o) ==
  /\ \/ Running /\ js[o] = "dropped" /\ ~ Pinned(o)
     \/ ~ Running /\ js[o] \in {"held", "dropped"}
  /\ js' = [js EXCEPT ![o] = "gone"]
  /\ IF heap[o] = "live" THEN DecreaseRef(o) ELSE Keep /\ UNCHANGED refMap
  /\ UNCHANGED <<env, callVars, tasks>>

(* What was on its way is lost, and what it refers to is never deleted.    *)
EnvExits ==
  /\ Running
  /\ env' = "down"
  /\ tasks' = <<>>
  /\ UNCHANGED <<objectVars, callVars, callbackMap_, refs>>

(* destroy: the event thread is joined in any case; a system whose service *)
(* refuses keeps the proxy.                                                *)
DestroyObject(o) ==
  /\ Running
  /\ js[o] = "held"
  /\ heap[o] = "live"
  /\ sending' = [sending EXCEPT ![o] = FALSE]
  /\ \/ proxy' = [proxy EXCEPT ![o] = FALSE]
     \/ o \in System /\ UNCHANGED proxy
  /\ UNCHANGED <<env, js, heap, refMap, callVars, eventVars>>

(* The service dies: the recipients drop the proxies; the threads stay.    *)
ServiceDies ==
  /\ \E o \in Object : proxy[o]
  /\ proxy' = [o \in Object |-> FALSE]
  /\ UNCHANGED <<env, js, heap, refMap, sending, callVars, eventVars>>

-----------------------------------------------------------------------------
(* Asynchronous calls. *)

(* GetCbInfo and Enqueue; the arguments are read or not.                   *)
Enqueue(c, o) ==
  /\ Running
  /\ js[o] = "held"
  /\ stage[c] = "idle"
  /\ stage' = [stage EXCEPT ![c] = "queued"]
  /\ target' = [target EXCEPT ![c] = o]
  /\ failed' \in {[failed EXCEPT ![c] = f] : f \in {TRUE, heap[o] # "live"}}
  /\ UNCHANGED <<env, objectVars, carried, eventVars>>

(* Mutant: nothing is counted. *)
UncountedRef(o) == UNCHANGED refMap

IncreaseRef(o) == refMap' = [refMap EXCEPT ![o] = @ + 1]

(* The executor enters the native half ...                                 *)
Guard(c) ==
  LET o == target[c] IN
  /\ stage[c] = "queued"
  /\ ~ failed[c]
  /\ refMap[o] > 0
  /\ IncreaseRef(o)
  /\ stage' = [stage EXCEPT ![c] = "guarded"]
  /\ UNCHANGED <<env, js, heap, proxy, sending, target, failed, carried, eventVars>>

(* ... or does not, the context was refused or the native half is gone;    *)
(* in this last case no error is signed.                                   *)
Skip(c) ==
  /\ stage[c] = "queued"
  /\ failed[c] \/ refMap[target[c]] = 0
  /\ stage' = [stage EXCEPT ![c] = "executed"]
  /\ UNCHANGED <<env, objectVars, target, failed, carried, eventVars>>

(* Mutant: the error of the native object is not signed. *)
UnsignedResult(c) ==
  \/ proxy[target[c]] /\ carried' = [carried EXCEPT ![c] = TRUE] /\ UNCHANGED failed
  \/ UNCHANGED <<carried, failed>>

(* What the native object answers; without a proxy, an error.              *)
SignResult(c) ==
  \/ proxy[target[c]] /\ carried' = [carried EXCEPT ![c] = TRUE] /\ UNCHANGED failed
  \/ failed' = [failed EXCEPT ![c] = TRUE] /\ UNCHANGED carried

(* The native object answered, and the guard goes. *)
Execute(c) ==
  /\ stage[c] = "guarded"
  /\ SignResult(c)
  /\ stage' = [stage EXCEPT ![c] = "executed"]
  /\ DecreaseRef(target[c])
  /\ UNCHANGED <<env, js, target, tasks>>

(* CommonCallbackRoutine, on the thread of the script. *)
Complete(c) ==
  /\ Running
  /\ stage[c] = "executed"
  /\ stage' = [stage EXCEPT ![c] = "settled"]
  /\ UNCHANGED <<env, objectVars, target, failed, carried, eventVars>>

-----------------------------------------------------------------------------
(* Listeners. *)

On(o) ==
  /\ Running
  /\ js[o] = "held"
  /\ heap[o] = "live"
  /\ \E r \in Ref : refs[r] = "free"
  /\ LET new == CHOOSE r \in Ref : refs[r] = "free" IN
     /\ callbackMap_' = [callbackMap_ EXCEPT ![o] = new]
     /\ refs' = [Unreferenced(callbackMap_', tasks) EXCEPT ![new] = "live"]
  /\ UNCHANGED <<env, objectVars, callVars, tasks>>

(* Mutant: the reference goes with the entry, whatever is on its way. *)
OffAtOnce(o) ==
  /\ Running
  /\ js[o] = "held"
  /\ heap[o] = "live"
  /\ callbackMap_' = [callbackMap_ EXCEPT ![o] = None]
  /\ refs' = Unreferenced(callbackMap_', <<>>)
  /\ UNCHANGED <<env, objectVars, callVars, tasks>>

Off(o) ==
  /\ Running
  /\ js[o] = "held"
  /\ heap[o] = "live"
  /\ callbackMap_' = [callbackMap_ EXCEPT ![o] = None]
  /\ refs' = Unreferenced(callbackMap_', tasks)
  /\ UNCHANGED <<env, objectVars, callVars, tasks>>

(* SendEvent, SendEventKeyChanged and OnJsCallbackInterrupt: the listener  *)
(* of now, or none; napi_send_event may fail.                              *)
SendEvent(o) ==
  /\ sending[o]
  /\ Running /\ Len(tasks) < MaxTasks
  /\ tasks' = Append(tasks, callbackMap_[o])
  /\ UNCHANGED <<env, objectVars, callVars, callbackMap_, refs>>

RunTask ==
  /\ Running
  /\ tasks # <<>>
  /\ tasks' = Tail(tasks)
  /\ refs' = Unreferenced(callbackMap_, tasks')
  /\ UNCHANGED <<env, objectVars, callVars, callbackMap_>>

-----------------------------------------------------------------------------

Script ==
  \/ \E o \in Object :
       \/ CreateMediaKeySystem(o) \/ CreateSession(o) \/ Drop(o) \/ DestroyObject(o)
       \/ On(o) \/ Off(o)
       \/ \E c \in Call : Enqueue(c, o)
  \/ EnvExits

Worker(c) == Guard(c) \/ Skip(c) \/ Execute(c)

Next ==
  \/ Script
  \/ \E o \in Object : MediaKeySystemNapiDestructor(o) \/ SendEvent(o)
  \/ \E c \in Call : Worker(c) \/ Complete(c)
  \/ \E r \in Ref : DeleteReference(r)
  \/ RunTask
  \/ ServiceDies

Spec == Init /\ [][Next]_vars

(* Worker threads run; while it is up, so does the loop of the script.     *)
(* It is assumed for the calls a property speaks of, and needed for these. *)
FairSpec ==
  /\ Spec
  /\ \A c \in Held : WF_vars(Worker(c) \/ Complete(c))

-----------------------------------------------------------------------------
(* Properties. *)

(* The executors in a native half. *)
Inside(o) == {c \in Call : stage[c] = "guarded" /\ target[c] = o}

(* The object itself, while it is not finalised. *)
Own(o) == IF heap[o] # "none" /\ js[o] # "gone" THEN 1 ELSE 0

Counted == \A o \in Object : refMap[o] = Own(o) + Cardinality(Inside(o))

(* The types; a count is one for the object that is not finalised and one  *)
(* for each executor inside.                                               *)
TypeOK ==
  /\ env \in {"up", "down"}
  /\ js \in [Object -> {"none", "held", "dropped", "gone"}]
  /\ heap \in [Object -> {"none", "live", "freed"}]
  /\ proxy \in [Object -> BOOLEAN]
  /\ sending \in [Object -> BOOLEAN]
  /\ stage \in [Call -> {"idle", "queued", "guarded", "executed", "settled"}]
  /\ target \in [Call -> Object \cup {None}]
  /\ failed \in [Call -> BOOLEAN]
  /\ carried \in [Call -> BOOLEAN]
  /\ callbackMap_ \in [Object -> Ref \cup {None}]
  /\ refs \in [Ref -> {"free", "live", "deleting"}]
  /\ tasks \in Seq(Ref \cup {None})
  /\ refMap \in [Object -> Nat]
  /\ Counted

(* The native half of an object lives exactly as long as somebody may use  *)
(* it: an executor in it never finds it freed, also when the script ends   *)
(* under it or when the call has no reference to the object; and it does   *)
(* not outlive both, nor does the native object's proxy or event thread.   *)
LivesWhileUsed ==
  \A o \in Object :
    /\ \/ heap[o] = "none"
       \/ heap[o] = "live" <=> js[o] # "gone" \/ Inside(o) # {}
    /\ proxy[o] \/ sending[o] => heap[o] = "live"

(* A listener that an event on its way is to call is not deleted by off,   *)
(* by a second on, by destroy or with the object.                          *)
ListenersKept ==
  \A r \in UsedIn(callbackMap_, tasks) \ {None} : refs[r] = "live"

SideOf(o) ==
  IF heap[o] # "live" THEN "bare" ELSE IF proxy[o] THEN "open" ELSE "closed"

Misleading == MisleadingSides(MaxArgs)

(* Whatever state an object is in, each of its methods, called with each   *)
(* list of arguments, says whose fault it is: arguments that are not of    *)
(* the signature never reach the service, those that are get no parameter  *)
(* error, and nothing succeeds without a native object to ask.             *)
AnswersTellTheCause ==
  \A o \in Object : js[o] \in {"held", "dropped"} => SideOf(o) \notin Misleading

(* The promise of a call that has a reference to its object.               *)
PromiseOf(c) ==
  IF stage[c] = "idle"         THEN "unasked"
  ELSE IF stage[c] = "settled" THEN IF failed[c] THEN "rejected" ELSE "resolved"
  ELSE IF ~ Running            THEN "abandoned"
  ELSE IF failed[c]            THEN "failed"
  ELSE IF carried[c]           THEN "done"
  ELSE "asked"

Promises ==
  INSTANCE PromiseCall WITH Call <- Held, state <- [c \in Held |-> PromiseOf(c)]

(* The asynchronous methods keep what they promise (module PromiseCall) to *)
(* the calls that have a reference to their object: a promise settles      *)
(* once, by what was done, and does settle while the script runs on.       *)
IsPromise == Promises!Spec

=============================================================================
