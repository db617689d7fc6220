---------------------------- MODULE DrmCapiProofs ----------------------------
(***************************************************************************)
(* What holds of a handle of the C API, for any setters and any number of  *)
(* events.                                                                 *)
(*                                                                         *)
(* The argument: the join in Release keeps the handle as long as the event *)
(* thread runs (Alive), and a session's mutex_, held from the look at the  *)
(* callbacks to the last of them, keeps setters out (Current).  The        *)
(* answers are right call by call, whatever led there.                     *)
(***************************************************************************)
EXTENDS DrmCapi, TLAPS

Alive == thread # "done" => handle = "live"

Current ==
  InCallback /\ side = "session" =>
    called = callback[IF thread = "inOld" THEN "old" ELSE "new"]

IInv == TypeOK /\ Alive /\ Current

USE DEF Calling, InCallback

-----------------------------------------------------------------------------
(* The initial states have no handle and no thread. *)
LEMMA InitInv == Init => IInv
<1> SUFFICES ASSUME Init PROVE IInv
  OBVIOUS
<1>1. /\ serviceProxy_ \in BOOLEAN /\ watched \in BOOLEAN
      /\ serviceThreadRunning \in BOOLEAN
  BY Zenon DEF Init
<1>2. set \in [Setter -> [stage : {"none", "waits", "returned"}, style : Style,
                          events : SUBSET Handled, inside : BOOLEAN]]
  <2>1. NotSet \in [stage : {"none", "waits", "returned"}, style : Style,
                    events : SUBSET Handled, inside : BOOLEAN]
    BY DEF NotSet, Style
  <2> QED BY <2>1 DEF Init
<1>3. TypeOK
  BY <1>1, <1>2, CapiAssumption DEF Init, TypeOK, NoCallback, Handled, Event
<1> QED BY <1>3 DEF Init, IInv, Alive, Current

(* What is called next is a callback somebody set. *)
LEMMA CallbackIsSet ==
  ASSUME TypeOK, NEW style \in Style, Handles(CallbackOf(style))
  PROVE  CallbackOf(style) \in Setter
BY DEF TypeOK, Handles, CallbackOf, Style, NoCallback

-----------------------------------------------------------------------------
(* Every step keeps the types. *)
LEMMA TypeStep == IInv /\ [Next]_vars => TypeOK'
<1> SUFFICES ASSUME IInv, [Next]_vars PROVE TypeOK'
  OBVIOUS
<1> USE CapiAssumption DEF IInv, Alive, TypeOK
<1>1. CASE CreateHandle
  BY <1>1 DEF CreateHandle, setterVars
<1>2. ASSUME NEW s \in Setter, NEW style \in Style, NEW handled \in SUBSET Handled,
             NEW inside \in BOOLEAN, Begin(s, style, handled, inside)
      PROVE  TypeOK'
  BY <1>2 DEF Begin, nativeVars, destroyVars, threadVars
<1>3. ASSUME NEW s \in Setter, SetCallbackReference(s) PROVE TypeOK'
  BY <1>3 DEF SetCallbackReference, nativeVars, destroyVars, threadVars
<1>4. ASSUME NEW e \in Event, EventArrives(e) PROVE TypeOK'
  BY <1>4 DEF EventArrives, nativeVars, destroyVars, setterVars
<1>5. CASE ThreadEnds
  BY <1>5 DEF ThreadEnds, nativeVars, destroyVars, setterVars
<1>6. CASE SendEvent
  BY <1>6 DEF SendEvent, KeepCallbacks, Dropped, nativeVars, destroyVars, setterVars
<1>7. CASE CallOld
  <2>1. "old" \in Style
    BY DEF Style
  <2> QED BY <1>7, <2>1, CallbackIsSet
          DEF CallOld, nativeVars, destroyVars, setterVars
<1>8. CASE CallNew
  <2>1. "new" \in Style
    BY DEF Style
  <2> QED BY <1>8, <2>1, CallbackIsSet
          DEF CallNew, nativeVars, destroyVars, setterVars
<1>9. CASE CallbackReturns
  BY <1>9 DEF CallbackReturns, nativeVars, destroyVars, setterVars
<1>10. CASE SendEventReturns
  BY <1>10 DEF SendEventReturns, NoCallback, nativeVars, destroyVars, setterVars
<1>11. CASE DestroyBegins
  <2>1. serviceThreadRunning' \in BOOLEAN
    BY <1>11, Zenon DEF DestroyBegins
  <2> QED BY <1>11, <2>1 DEF DestroyBegins, nativeVars, threadVars, setterVars
<1>12. CASE Destroys
  <2>1. serviceProxy_' \in BOOLEAN /\ watched' \in BOOLEAN
    BY <1>12, Zenon DEF Destroys, ReleaseProxy
  <2> QED BY <1>12, <2>1 DEF Destroys, ReleaseProxy, threadVars, setterVars
<1>13. CASE ServiceDies
  BY <1>13 DEF ServiceDies, destroyVars, threadVars, setterVars
<1>14. CASE ServerDied
  <2>1. serviceProxy_' \in BOOLEAN /\ watched' \in BOOLEAN
    BY <1>14, Zenon DEF ServerDied
  <2> QED BY <1>14, <2>1 DEF ServerDied, destroyVars, threadVars, setterVars
<1>15. CASE UNCHANGED vars
  BY <1>15 DEF vars, nativeVars, destroyVars, threadVars, setterVars
<1> HIDE DEF IInv, Alive, TypeOK
<1> QED
  BY <1>1, <1>2, <1>3, <1>4, <1>5, <1>6, <1>7, <1>8, <1>9, <1>10, <1>11, <1>12, <1>13,
     <1>14, <1>15 DEF Next, EventThread

(* The handle goes only after the thread: Destroys is the one step that    *)
(* takes it.                                                               *)
LEMMA AliveStep == IInv /\ [Next]_vars => Alive'
<1> SUFFICES ASSUME IInv, [Next]_vars PROVE Alive'
  OBVIOUS
<1> USE DEF IInv, Alive, TypeOK
<1>1. CASE CreateHandle
  BY <1>1 DEF CreateHandle
<1>2. CASE Destroys
  BY <1>2 DEF Destroys, Joined, ReleaseProxy, threadVars
<1>3. ASSUME NEW e \in Event, EventArrives(e) PROVE Alive'
  BY <1>3 DEF EventArrives, destroyVars
<1>4. CASE EventThread
  BY <1>4 DEF EventThread, ThreadEnds, SendEvent, Dropped, CallOld, CallNew,
              CallbackReturns, SendEventReturns, destroyVars
<1>5. ASSUME \/ \E s \in Setter :
                  \/ \E style \in Style, handled \in SUBSET Handled, inside \in BOOLEAN :
                       Begin(s, style, handled, inside)
                  \/ SetCallbackReference(s)
             \/ DestroyBegins \/ ServiceDies \/ ServerDied \/ UNCHANGED vars
      PROVE  Alive'
  BY <1>5 DEF Begin, SetCallbackReference, DestroyBegins, ServiceDies, ServerDied, vars,
              destroyVars, threadVars
<1> QED
  BY <1>1, <1>2, <1>3, <1>4, <1>5 DEF Next

(* A session's callbacks do not change while one of them is called.        *)
LEMMA CurrentStep == IInv /\ [Next]_vars => Current'
<1> SUFFICES ASSUME IInv, [Next]_vars PROVE Current'
  OBVIOUS
<1> USE CapiAssumption DEF IInv, Current, TypeOK
<1>1. ASSUME NEW s \in Setter, SetCallbackReference(s) PROVE Current'
  BY <1>1 DEF SetCallbackReference, threadVars
<1>2. CASE CallOld
  BY <1>2 DEF CallOld, CallbackOf, setterVars
<1>3. CASE CallNew
  BY <1>3 DEF CallNew, CallbackOf, setterVars
<1>4. CASE ThreadEnds \/ SendEvent \/ CallbackReturns \/ SendEventReturns
  BY <1>4 DEF ThreadEnds, SendEvent, Dropped, CallbackReturns, SendEventReturns
<1>5. CASE CreateHandle \/ \E e \in Event : EventArrives(e)
  BY <1>5 DEF CreateHandle, EventArrives
<1>6. ASSUME \/ \E s \in Setter, style \in Style, handled \in SUBSET Handled,
                   inside \in BOOLEAN : Begin(s, style, handled, inside)
             \/ DestroyBegins \/ Destroys \/ ServiceDies \/ ServerDied \/ UNCHANGED vars
      PROVE  Current'
  BY <1>6 DEF Begin, DestroyBegins, Destroys, ServiceDies, ServerDied, vars, threadVars,
              setterVars
<1> QED
  BY <1>1, <1>2, <1>3, <1>4, <1>5, <1>6 DEF Next, EventThread

-----------------------------------------------------------------------------
(* The answers. *)

(* An answer that misleads nobody and is listed.                           *)
Fair(answer, m, h, a) == ~ Misleads(answer, m, h, a) /\ answer \subseteq Documented(m)

(* The arguments that a function checks are all there is to get wrong in a *)
(* call.                                                                   *)
Covers(args, a) ==
  /\ args \subseteq Passed(a) /\ Passed(a) \subseteq args \cup Right
  /\ Passed(a) \subseteq Right \cup Bad

(* What the native object answers is what the header lists, and blames the *)
(* application only where memory is measured.                              *)
Answers(m, X) ==
  /\ m \notin Unbound \cup Setters /\ X \subseteq Documented(m)
  /\ "INVALID_VAL" \in X => m \in Measured

(* A function that checks its handle and these arguments first misleads    *)
(* nobody; nor does one that then asks the native object.                  *)
LEMMA CheckedFair ==
  ASSUME NEW m, m \notin Unbound, NEW h \in Handle, NEW a, NEW args, NEW answer,
         Covers(args, a),
         answer \subseteq Documented(m), "INVALID_VAL" \in answer => m \in Measured,
         h = "closed" /\ m \notin Setters => "OK" \notin answer
  PROVE  Fair(Checked(h, args, answer), m, h, a)
<1>1. Refusal(m) = {"INVALID_VAL"} /\ {"INVALID_VAL"} \subseteq Documented(m)
  BY DEF Refusal, Documented, Unbound
<1>2. Right \cap Bad = {}
  BY DEF Right, Bad
<1>3. Wrong(m, h, a) <=> h = "null" \/ ~ args \subseteq Right
  BY <1>2 DEF Wrong, Covers
<1> QED BY <1>1, <1>3 DEF Fair, Misleads, Checked

LEMMA AskedFair ==
  ASSUME NEW m, NEW h \in Handle, NEW a, NEW args, NEW X, Covers(args, a), Answers(m, X)
  PROVE  Fair(Checked(h, args, Asked(h, X)), m, h, a)
<1>1. "UNKNOWN" \in Documented(m)
  BY DEF Documented, Unbound, Answers
<1>2. /\ Asked(h, X) \subseteq Documented(m)
      /\ ("INVALID_VAL" \in Asked(h, X) => m \in Measured)
      /\ (h = "closed" => "OK" \notin Asked(h, X))
  BY <1>1 DEF Asked, Answers
<1> QED BY <1>2, CheckedFair DEF Answers

(* The functions with a handle.                                            *)
LEMMA SetConfigurationStringFair ==
  ASSUME NEW h \in Handle, NEW a \in Arguments["SetConfigurationString"]
  PROVE  Fair(Answer("SetConfigurationString", h, a),
                    "SetConfigurationString", h, a)
<1>1. a \in Text \X Text
  BY DEF Arguments
<1>2. Covers({a[1], a[2]}, a)
  BY <1>1 DEF Covers, Passed, Right, Bad, Text
<1>3. Answers("SetConfigurationString", {"OK"})
  BY DEF Answers, Documented, Unbound, Setters, Questions
<1>4. Answer("SetConfigurationString", h, a) = Checked(h, {a[1], a[2]}, Asked(h, {"OK"}))
  BY DEF Answer, SetConfigurationString
<1> QED BY <1>2, <1>3, <1>4, AskedFair

LEMMA GetConfigurationStringFair ==
  ASSUME NEW h \in Handle, NEW a \in Arguments["GetConfigurationString"]
  PROVE  Fair(Answer("GetConfigurationString", h, a),
                    "GetConfigurationString", h, a)
<1>1. a \in Text \X Pointer \X Length
  BY DEF Arguments
<1>2. Covers({a[1], a[2], a[3]}, a)
  BY <1>1 DEF Covers, Passed, Right, Bad, Length, Pointer, Text
<1> DEFINE X == UNION {Copied(n, "INVALID_VAL") : n \in Size}
<1>3. Answers("GetConfigurationString", X)
  BY DEF Answers, Documented, Unbound, Setters, Questions, NoMemory, Measured, Size, Copied
<1>4. Answer("GetConfigurationString", h, a) = Checked(h, {a[1], a[2], a[3]}, Asked(h, X))
  BY DEF Answer, GetConfigurationString
<1> HIDE DEF X
<1> QED BY <1>2, <1>3, <1>4, AskedFair

LEMMA SetConfigurationByteArrayFair ==
  ASSUME NEW h \in Handle, NEW a \in Arguments["SetConfigurationByteArray"]
  PROVE  Fair(Answer("SetConfigurationByteArray", h, a),
                    "SetConfigurationByteArray", h, a)
<1>1. a \in Text \X Pointer \X Length
  BY DEF Arguments
<1>2. Covers({a[1], a[2], a[3]}, a)
  BY <1>1 DEF Covers, Passed, Right, Bad, Length, Pointer, Text
<1>3. Answers("SetConfigurationByteArray", {"OK"})
  BY DEF Answers, Documented, Unbound, Setters, Questions
<1>4. Answer("SetConfigurationByteArray", h, a)
        = Checked(h, {a[1], a[2], a[3]}, Asked(h, {"OK"}))
  BY DEF Answer, SetConfigurationByteArray
<1> QED BY <1>2, <1>3, <1>4, AskedFair

LEMMA GetConfigurationByteArrayFair ==
  ASSUME NEW h \in Handle, NEW a \in Arguments["GetConfigurationByteArray"]
  PROVE  Fair(Answer("GetConfigurationByteArray", h, a),
                    "GetConfigurationByteArray", h, a)
<1>1. a \in Text \X Pointer \X Pointer
  BY DEF Arguments
<1>2. Covers({a[1], a[2], a[3]}, a)
  BY <1>1 DEF Covers, Passed, Right, Bad, Pointer, Text
<1> DEFINE X == UNION {Copied(n, "INVALID_VAL") : n \in Size}
<1>3. Answers("GetConfigurationByteArray", X)
  BY DEF Answers, Documented, Unbound, Setters, Questions, NoMemory, Measured, Size, Copied
<1>4. Answer("GetConfigurationByteArray", h, a)
        = Checked(h, {a[1], a[2], a[3]}, Asked(h, X))
  BY DEF Answer, GetConfigurationByteArray
<1> HIDE DEF X
<1> QED BY <1>2, <1>3, <1>4, AskedFair

LEMMA GetStatisticsFair ==
  ASSUME NEW h \in Handle, NEW a \in Arguments["GetStatistics"]
  PROVE  Fair(Answer("GetStatistics", h, a), "GetStatistics", h, a)
<1>1. a \in Pointer \X {"valid"}
  BY DEF Arguments
<1>2. Covers({a[1]}, a)
  BY <1>1 DEF Covers, Passed, Right, Bad, Pointer
<1> DEFINE X == UNION {vectorToClist(n) : n \in Size}
<1>3. Answers("GetStatistics", X)
  BY DEF Answers, Documented, Unbound, Setters, Questions, NoMemory, Measured, Size,
         vectorToClist
<1>4. Answer("GetStatistics", h, a) = Checked(h, {a[1]}, Asked(h, X))
  BY DEF Answer, GetStatistics
<1> HIDE DEF X
<1> QED BY <1>2, <1>3, <1>4, AskedFair

LEMMA OnePointerFair ==
  ASSUME NEW m \in {"GetMaxContentProtectionLevel", "GetCertificateStatus",
                     "GetContentProtectionLevel"},
         NEW h \in Handle, NEW a \in Arguments[m]
  PROVE  Fair(Answer(m, h, a), m, h, a)
<1>1. a \in Pointer \X {"valid"}
  BY DEF Arguments
<1>2. Covers({a[1]}, a)
  BY <1>1 DEF Covers, Passed, Right, Bad, Pointer
<1>3. Answers(m, {"OK"})
  BY DEF Answers, Documented, Unbound, Setters, Questions
<1>4. Answer(m, h, a) = Checked(h, {a[1]}, Asked(h, {"OK"}))
  BY DEF Answer, GetMaxContentProtectionLevel, GetCertificateStatus,
         GetContentProtectionLevel
<1> QED BY <1>2, <1>3, <1>4, AskedFair

LEMMA GenerateKeySystemRequestFair ==
  ASSUME NEW h \in Handle, NEW a \in Arguments["GenerateKeySystemRequest"]
  PROVE  Fair(Answer("GenerateKeySystemRequest", h, a),
                    "GenerateKeySystemRequest", h, a)
<1>1. a \in Pointer \X (Pointer \cup Length) \X Pointer \X Length
  BY DEF Arguments
<1>2. Covers({a[1], a[2], a[3], a[4]}, a)
  BY <1>1 DEF Covers, Passed, Right, Bad, Length, Pointer
<1>3. Answers("GenerateKeySystemRequest", {"OK", "UNKNOWN", "NO_MEMORY"})
  BY DEF Answers, Documented, Unbound, Setters, Questions, NoMemory
<1>4. Answer("GenerateKeySystemRequest", h, a)
        = Checked(h, {a[1], a[2], a[3], a[4]}, Asked(h, {"OK", "UNKNOWN", "NO_MEMORY"}))
  BY DEF Answer, GenerateKeySystemRequest
<1> QED BY <1>2, <1>3, <1>4, AskedFair

LEMMA ProcessKeySystemResponseFair ==
  ASSUME NEW h \in Handle, NEW a \in Arguments["ProcessKeySystemResponse"]
  PROVE  Fair(Answer("ProcessKeySystemResponse", h, a),
                    "ProcessKeySystemResponse", h, a)
<1>1. a \in Pointer \X Length
  BY DEF Arguments
<1>2. Covers({a[1], a[2]}, a)
  BY <1>1 DEF Covers, Passed, Right, Bad, Length, Pointer
<1>3. Answers("ProcessKeySystemResponse", {"OK"})
  BY DEF Answers, Documented, Unbound, Setters, Questions
<1>4. Answer("ProcessKeySystemResponse", h, a)
        = Checked(h, {a[1], a[2]}, Asked(h, {"OK"}))
  BY DEF Answer, ProcessKeySystemResponse
<1> QED BY <1>2, <1>3, <1>4, AskedFair

LEMMA SettersFair ==
  ASSUME NEW m \in {"SetMediaKeySystemCallback", "SetCallback", "SetMediaKeySessionCallback",
                     "Session_SetCallback"},
         NEW h \in Handle, NEW a \in Arguments[m]
  PROVE  Fair(Answer(m, h, a), m, h, a)
<1>1. a \in Pointer \X {"valid"}
  BY DEF Arguments
<1>2. Covers({a[1]}, a)
  BY <1>1 DEF Covers, Passed, Right, Bad, Pointer
<1> DEFINE X == {"OK"}
<1>3. /\ m \notin Unbound /\ X \subseteq Documented(m) /\ "INVALID_VAL" \notin X
      /\ (h = "closed" /\ m \notin Setters => "OK" \notin X)
  BY DEF Documented, Unbound, Setters, Questions, NoMemory
<1>4. Answer(m, h, a) = Checked(h, {a[1]}, X)
  BY DEF Answer, SetMediaKeySystemCallback, SetCallback, SetMediaKeySessionCallback,
         SetSessionCallback
<1> HIDE DEF X
<1> QED BY <1>2, <1>3, <1>4, CheckedFair

LEMMA CreateMediaKeySessionFair ==
  ASSUME NEW h \in Handle, NEW a \in Arguments["CreateMediaKeySession"]
  PROVE  Fair(Answer("CreateMediaKeySession", h, a), "CreateMediaKeySession", h, a)
<1>1. a \in Level \X Pointer
  BY DEF Arguments
<1>2. Covers({a[1], a[2]}, a)
  BY <1>1 DEF Covers, Passed, Right, Bad, Level, Pointer
<1> DEFINE X == IF h = "closed" THEN {SessionCode("SERVICE_FATAL_ERROR")}
               ELSE {"OK", "UNKNOWN", "NO_MEMORY"}
                    \cup {SessionCode(e) : e \in {"BASE", "SERVICE_FATAL_ERROR",
                                                   "MAX_SESSION_NUM_REACHED"}}
<1>3. /\ "CreateMediaKeySession" \notin Unbound
      /\ X \subseteq Documented("CreateMediaKeySession") /\ "INVALID_VAL" \notin X
      /\ (h = "closed" /\ "CreateMediaKeySession" \notin Setters => "OK" \notin X)
  BY DEF Documented, Unbound, Setters, Questions, NoMemory, SessionCode
<1>4. Answer("CreateMediaKeySession", h, a) = Checked(h, {a[1], a[2]}, X)
  BY DEF Answer, CreateMediaKeySession
<1> HIDE DEF X
<1> QED BY <1>2, <1>3, <1>4, CheckedFair

LEMMA GetOfflineMediaKeyIdsFair ==
  ASSUME NEW h \in Handle, NEW a \in Arguments["GetOfflineMediaKeyIds"]
  PROVE  Fair(Answer("GetOfflineMediaKeyIds", h, a), "GetOfflineMediaKeyIds", h, a)
<1>1. a \in Pointer \X {"valid"}
  BY DEF Arguments
<1>2. Covers({a[1]}, a)
  BY <1>1 DEF Covers, Passed, Right, Bad, Pointer
<1> DEFINE X == UNION {vectorToC2DArray(n) : n \in Size}
<1>3. Answers("GetOfflineMediaKeyIds", X)
  BY DEF Answers, Documented, Unbound, Setters, Questions, NoMemory, Measured, Size,
         vectorToC2DArray
<1>4. Answer("GetOfflineMediaKeyIds", h, a) = Checked(h, {a[1]}, Asked(h, X))
  BY DEF Answer, GetOfflineMediaKeyIds
<1> HIDE DEF X
<1> QED BY <1>2, <1>3, <1>4, AskedFair

LEMMA GetOfflineMediaKeyStatusFair ==
  ASSUME NEW h \in Handle, NEW a \in Arguments["GetOfflineMediaKeyStatus"]
  PROVE  Fair(Answer("GetOfflineMediaKeyStatus", h, a),
                    "GetOfflineMediaKeyStatus", h, a)
<1>1. a \in Pointer \X Limited \X Pointer
  BY DEF Arguments
<1>2. Covers({a[1], a[2], a[3]}, a)
  BY <1>1 DEF Covers, Passed, Right, Bad, Limited, Pointer
<1>3. Answers("GetOfflineMediaKeyStatus", {"OK"})
  BY DEF Answers, Documented, Unbound, Setters, Questions
<1>4. Answer("GetOfflineMediaKeyStatus", h, a)
        = Checked(h, {a[1], a[2], a[3]}, Asked(h, {"OK"}))
  BY DEF Answer, GetOfflineMediaKeyStatus
<1> QED BY <1>2, <1>3, <1>4, AskedFair

LEMMA OneKeyIdFair ==
  ASSUME NEW m \in {"ClearOfflineMediaKeys", "RestoreOfflineMediaKeys"},
         NEW h \in Handle, NEW a \in Arguments[m]
  PROVE  Fair(Answer(m, h, a), m, h, a)
<1>1. a \in Pointer \X Limited
  BY DEF Arguments
<1>2. Covers({a[1], a[2]}, a)
  BY <1>1 DEF Covers, Passed, Right, Bad, Limited, Pointer
<1>3. Answers(m, {"OK"})
  BY DEF Answers, Documented, Unbound, Setters, Questions
<1>4. Answer(m, h, a) = Checked(h, {a[1], a[2]}, Asked(h, {"OK"}))
  BY DEF Answer, ClearOfflineMediaKeys, RestoreOfflineMediaKeys
<1> QED BY <1>2, <1>3, <1>4, AskedFair

LEMMA HandleOnlyFair ==
  ASSUME NEW m \in {"Destroy", "ClearMediaKeys", "Session_Destroy"},
         NEW h \in Handle, NEW a \in Arguments[m]
  PROVE  Fair(Answer(m, h, a), m, h, a)
<1>1. a = <<>>
  BY DEF Arguments
<1>2. Covers({}, a)
  BY <1>1 DEF Covers, Passed, Right, Bad
<1>3. Answers(m, {"OK"})
  BY DEF Answers, Documented, Unbound, Setters, Questions
<1>4. Answer(m, h, a) = Checked(h, {}, Asked(h, {"OK"}))
  BY DEF Answer, Destroy, ClearMediaKeys, DestroySession
<1> QED BY <1>2, <1>3, <1>4, AskedFair

LEMMA GenerateMediaKeyRequestFair ==
  ASSUME NEW h \in Handle, NEW a \in Arguments["GenerateMediaKeyRequest"]
  PROVE  Fair(Answer("GenerateMediaKeyRequest", h, a),
                    "GenerateMediaKeyRequest", h, a)
<1>1. a \in Pointer \X Count \X (Count \ {"none"}) \X Pointer
  BY DEF Arguments
<1>2. Covers({a[1], a[2], a[3], a[4]}, a)
  BY <1>1 DEF Covers, Passed, Right, Bad, Count, Pointer
<1> DEFINE X == UNION {DealMediaKeyRequest(n) : n \in Size}
<1>3. Answers("GenerateMediaKeyRequest", X)
  BY DEF Answers, Documented, Unbound, Setters, Questions, NoMemory, Measured, Size,
         DealMediaKeyRequest
<1>4. Answer("GenerateMediaKeyRequest", h, a)
        = Checked(h, {a[1], a[2], a[3], a[4]}, Asked(h, X))
  BY DEF Answer, GenerateMediaKeyRequest
<1> HIDE DEF X
<1> QED BY <1>2, <1>3, <1>4, AskedFair

LEMMA ProcessMediaKeyResponseFair ==
  ASSUME NEW h \in Handle, NEW a \in Arguments["ProcessMediaKeyResponse"]
  PROVE  Fair(Answer("ProcessMediaKeyResponse", h, a),
                    "ProcessMediaKeyResponse", h, a)
<1>1. a \in Pointer \X Length \X Pointer \X Pointer \X Room
  BY DEF Arguments
<1>2. Covers({a[1], a[2], a[3], a[4]}, a)
  BY <1>1 DEF Covers, Passed, Right, Bad, Length, Pointer, Room
<1> DEFINE X == UNION {IdReturned(n, a[5]) : n \in Size}
<1>3. Answers("ProcessMediaKeyResponse", X)
  BY DEF Answers, Documented, Unbound, Setters, Questions, NoMemory, Measured, Size,
         IdReturned
<1>4. Answer("ProcessMediaKeyResponse", h, a)
        = Checked(h, {a[1], a[2], a[3], a[4]}, Asked(h, X))
  BY DEF Answer, ProcessMediaKeyResponse
<1> HIDE DEF X
<1> QED BY <1>2, <1>3, <1>4, AskedFair

LEMMA CheckMediaKeyStatusFair ==
  ASSUME NEW h \in Handle, NEW a \in Arguments["CheckMediaKeyStatus"]
  PROVE  Fair(Answer("CheckMediaKeyStatus", h, a), "CheckMediaKeyStatus", h, a)
<1>1. a \in Pointer \X {"valid"}
  BY DEF Arguments
<1>2. Covers({a[1]}, a)
  BY <1>1 DEF Covers, Passed, Right, Bad, Pointer
<1> DEFINE X == UNION {IF n = "nothing" THEN {"UNKNOWN"} ELSE MapToClist(n) : n \in Size}
<1>3. Answers("CheckMediaKeyStatus", X)
  BY DEF Answers, Documented, Unbound, Setters, Questions, NoMemory, Measured, Size,
         MapToClist
<1>4. Answer("CheckMediaKeyStatus", h, a) = Checked(h, {a[1]}, Asked(h, X))
  BY DEF Answer, CheckMediaKeyStatus
<1> HIDE DEF X
<1> QED BY <1>2, <1>3, <1>4, AskedFair

LEMMA GenerateOfflineReleaseRequestFair ==
  ASSUME NEW h \in Handle, NEW a \in Arguments["GenerateOfflineReleaseRequest"]
  PROVE  Fair(Answer("GenerateOfflineReleaseRequest", h, a),
                    "GenerateOfflineReleaseRequest", h, a)
<1>1. a \in Pointer \X Limited \X Pointer \X Pointer \X Room
  BY DEF Arguments
<1>2. Covers({a[1], a[2], a[3], a[4]}, a)
  BY <1>1 DEF Covers, Passed, Right, Bad, Limited, Pointer, Room
<1> DEFINE X == UNION {IdReturned(n, a[5]) : n \in Size}
<1>3. Answers("GenerateOfflineReleaseRequest", X)
  BY DEF Answers, Documented, Unbound, Setters, Questions, NoMemory, Measured, Size,
         IdReturned
<1>4. Answer("GenerateOfflineReleaseRequest", h, a)
        = Checked(h, {a[1], a[2], a[3], a[4]}, Asked(h, X))
  BY DEF Answer, GenerateOfflineReleaseRequest
<1> HIDE DEF X
<1> QED BY <1>2, <1>3, <1>4, AskedFair

LEMMA ProcessOfflineReleaseResponseFair ==
  ASSUME NEW h \in Handle, NEW a \in Arguments["ProcessOfflineReleaseResponse"]
  PROVE  Fair(Answer("ProcessOfflineReleaseResponse", h, a),
                    "ProcessOfflineReleaseResponse", h, a)
<1>1. a \in Pointer \X Limited \X Pointer \X Length
  BY DEF Arguments
<1>2. Covers({a[1], a[2], a[3], a[4]}, a)
  BY <1>1 DEF Covers, Passed, Right, Bad, Length, Limited, Pointer
<1>3. Answers("ProcessOfflineReleaseResponse", {"OK"})
  BY DEF Answers, Documented, Unbound, Setters, Questions
<1>4. Answer("ProcessOfflineReleaseResponse", h, a)
        = Checked(h, {a[1], a[2], a[3], a[4]}, Asked(h, {"OK"}))
  BY DEF Answer, ProcessOfflineReleaseResponse
<1> QED BY <1>2, <1>3, <1>4, AskedFair

LEMMA RequireSecureDecoderModuleFair ==
  ASSUME NEW h \in Handle, NEW a \in Arguments["RequireSecureDecoderModule"]
  PROVE  Fair(Answer("RequireSecureDecoderModule", h, a),
                    "RequireSecureDecoderModule", h, a)
<1>1. a \in Text \X Pointer
  BY DEF Arguments
<1>2. Covers({a[1], a[2]}, a)
  BY <1>1 DEF Covers, Passed, Right, Bad, Pointer, Text
<1>3. Answers("RequireSecureDecoderModule", {"OK"})
  BY DEF Answers, Documented, Unbound, Setters, Questions
<1>4. Answer("RequireSecureDecoderModule", h, a)
        = Checked(h, {a[1], a[2]}, Asked(h, {"OK"}))
  BY DEF Answer, RequireSecureDecoderModule
<1> QED BY <1>2, <1>3, <1>4, AskedFair

(* The functions that need none.                                           *)
LEMMA IsSupportedFair ==
  ASSUME NEW m \in Questions, NEW h \in Handle, NEW a \in Arguments[m]
  PROVE  Fair(Answer(m, h, a), m, h, a)
<1>1. CASE m = "IsSupported"
  <2>1. a \in Text \X {"valid"}
    BY <1>1 DEF Arguments
  <2> QED BY <1>1, <2>1 DEF Fair, Misleads, Wrong, Passed, Answer, IsSupported, Documented, Refusal,
       Unbound, Questions, Text, Bad
<1>2. CASE m = "IsSupported2"
  <2>1. a \in Text \X Text
    BY <1>2 DEF Arguments
  <2> QED BY <1>2, <2>1 DEF Fair, Misleads, Wrong, Passed, Answer, IsSupported2, Documented, Refusal,
       Unbound, Questions, Text, Bad
<1>3. CASE m = "IsSupported3"
  <2>1. a \in Text \X Text \X (Level \ {"null"})
    BY <1>3 DEF Arguments
  <2> QED BY <1>3, <2>1 DEF Fair, Misleads, Wrong, Passed, Answer, IsSupported3, Documented, Refusal,
       Unbound, Questions, Text, Level, Bad
<1> QED BY <1>1, <1>2, <1>3 DEF Questions

(* This one misleads nobody, but answers what is not listed.               *)
LEMMA GetMediaKeySystemsFair ==
  ASSUME NEW h \in Handle, NEW a \in Arguments["GetMediaKeySystems"]
  PROVE  /\ ~ Misleads(Answer("GetMediaKeySystems", h, a), "GetMediaKeySystems", h, a)
         /\ Answer("GetMediaKeySystems", h, a) \ Documented("GetMediaKeySystems")
              \subseteq {"NO_MEMORY"}
<1>1. a \in Pointer \X Pointer
  BY DEF Arguments
<1> QED BY <1>1 DEF Misleads, Wrong, Passed, Answer, GetMediaKeySystems, Documented, Refusal,
       Unbound, Questions, Setters, NoMemory, Measured, Pointer, Bad

LEMMA CreateFair ==
  ASSUME NEW h \in Handle, NEW a \in Arguments["Create"]
  PROVE  Fair(Answer("Create", h, a), "Create", h, a)
<1>1. a \in Text \X Pointer
  BY DEF Arguments
<1>2. Create(a[1], a[2]) \subseteq Documented("Create")
  BY DEF Create, CreateCode, Documented, Questions, Setters
<1>3. Wrong("Create", h, a) <=> "null" \in {a[1], a[2]} \/ a[1] = "empty"
  BY <1>1 DEF Wrong, Passed, Unbound, Text, Pointer, Bad
<1>4. /\ Wrong("Create", h, a) => Create(a[1], a[2]) = {"INVALID_VAL"}
      /\ ~ Wrong("Create", h, a) => "INVALID_VAL" \notin Create(a[1], a[2])
  BY <1>3 DEF Create, CreateCode
<1>5. Answer("Create", h, a) = Create(a[1], a[2])
  BY DEF Answer
<1> QED BY <1>2, <1>4, <1>5 DEF Fair, Misleads, Refusal, Unbound, Questions

(* The functions together.                                                 *)
LEMMA AllFair ==
  ASSUME NEW h \in Handle, NEW m \in DOMAIN Arguments \ {"GetMediaKeySystems"},
         NEW a \in Arguments[m]
  PROVE  Fair(Answer(m, h, a), m, h, a)
<1>1. CASE m \in {"IsSupported", "IsSupported2", "IsSupported3", "Create",
               "SetConfigurationString", "GetConfigurationString"}
  BY <1>1, IsSupportedFair, CreateFair, SetConfigurationStringFair,
     GetConfigurationStringFair, Zenon DEF Questions
<1>2. CASE m \in {"SetConfigurationByteArray", "GetConfigurationByteArray", "GetStatistics",
               "GetMaxContentProtectionLevel", "GetCertificateStatus",
               "GetContentProtectionLevel", "GenerateKeySystemRequest"}
  BY <1>2, SetConfigurationByteArrayFair, GetConfigurationByteArrayFair, GetStatisticsFair,
     OnePointerFair, GenerateKeySystemRequestFair, Zenon
<1>3. CASE m \in {"ProcessKeySystemResponse", "SetMediaKeySystemCallback", "SetCallback",
               "SetMediaKeySessionCallback", "Session_SetCallback", "CreateMediaKeySession",
               "GetOfflineMediaKeyIds", "GetOfflineMediaKeyStatus"}
  BY <1>3, ProcessKeySystemResponseFair, SettersFair, CreateMediaKeySessionFair,
     GetOfflineMediaKeyIdsFair, GetOfflineMediaKeyStatusFair, Zenon
<1>4. CASE m \in {"ClearOfflineMediaKeys", "RestoreOfflineMediaKeys", "Destroy",
               "ClearMediaKeys", "Session_Destroy", "GenerateMediaKeyRequest",
               "ProcessMediaKeyResponse", "CheckMediaKeyStatus"}
  BY <1>4, OneKeyIdFair, HandleOnlyFair, GenerateMediaKeyRequestFair,
     ProcessMediaKeyResponseFair, CheckMediaKeyStatusFair, Zenon
<1>5. CASE m \in {"GenerateOfflineReleaseRequest", "ProcessOfflineReleaseResponse",
               "RequireSecureDecoderModule"}
  BY <1>5, GenerateOfflineReleaseRequestFair, ProcessOfflineReleaseResponseFair,
     RequireSecureDecoderModuleFair, Zenon
<1>6. DOMAIN Arguments = {"IsSupported", "IsSupported2", "IsSupported3", "GetMediaKeySystems",
        "Create", "SetConfigurationString", "GetConfigurationString",
        "SetConfigurationByteArray", "GetConfigurationByteArray", "GetStatistics",
        "GetMaxContentProtectionLevel", "GenerateKeySystemRequest", "ProcessKeySystemResponse",
        "GetCertificateStatus", "SetMediaKeySystemCallback", "SetCallback",
        "CreateMediaKeySession", "GetOfflineMediaKeyIds", "GetOfflineMediaKeyStatus",
        "ClearOfflineMediaKeys", "Destroy", "GenerateMediaKeyRequest",
        "ProcessMediaKeyResponse", "CheckMediaKeyStatus", "ClearMediaKeys",
        "GenerateOfflineReleaseRequest", "ProcessOfflineReleaseResponse",
        "RestoreOfflineMediaKeys", "GetContentProtectionLevel", "RequireSecureDecoderModule",
        "SetMediaKeySessionCallback", "Session_SetCallback", "Session_Destroy"}
  BY DEF Arguments
<1> QED BY <1>1, <1>2, <1>3, <1>4, <1>5, <1>6

LEMMA NobodyMisled == Misleading = {}
<1> SUFFICES ASSUME NEW h \in Handle, NEW m \in DOMAIN Arguments, NEW a \in Arguments[m]
             PROVE  ~ Misleads(Answer(m, h, a), m, h, a)
  BY DEF Misleading
<1>1. CASE m = "GetMediaKeySystems"
  BY <1>1, GetMediaKeySystemsFair
<1>2. CASE m # "GetMediaKeySystems"
  BY <1>2, AllFair DEF Fair
<1> QED BY <1>1, <1>2

(* One answer of one function is not in its header.                        *)
LEMMA OneUnlisted ==
  ASSUME NEW h \in Handle
  PROVE  Unlisted[h] = {<<"GetMediaKeySystems", "NO_MEMORY">>}
<1> DEFINE G == "GetMediaKeySystems"
<1>1. G \in DOMAIN Arguments /\ "NO_MEMORY" \in Code
  BY DEF Arguments, Code
<1>2. /\ <<"valid", "valid">> \in Arguments[G]
      /\ "NO_MEMORY" \in Answer(G, h, <<"valid", "valid">>)
      /\ "NO_MEMORY" \notin Documented(G)
  BY DEF Arguments, Pointer, Answer, GetMediaKeySystems, Documented, Questions, Setters, NoMemory
<1>3. ASSUME NEW m \in DOMAIN Arguments, NEW e \in Code, NEW a \in Arguments[m],
             e \in Answer(m, h, a) \ Documented(m)
      PROVE  m = G /\ e = "NO_MEMORY"
  <2>1. CASE m = G
    BY <1>3, <2>1, GetMediaKeySystemsFair
  <2>2. CASE m # G
    BY <1>3, <2>2, AllFair DEF Fair
  <2> QED BY <2>1, <2>2
<1>4. Unlisted[h] = {x \in (DOMAIN Arguments) \X Code :
                       \E a \in Arguments[x[1]] : x[2] \in Answer(x[1], h, a) \ Documented(x[1])}
  BY DEF Unlisted
<1> DEFINE D == DOMAIN Arguments
<1> HIDE DEF G
<1>5. <<G, "NO_MEMORY">> \in Unlisted[h]
  <2> DEFINE x == <<G, "NO_MEMORY">>
  <2>1. x \in D \X Code /\ x[1] = G /\ x[2] = "NO_MEMORY"
    BY <1>1
  <2> HIDE DEF x, D
  <2>2. x[2] \in Answer(x[1], h, <<"valid", "valid">>) \ Documented(x[1])
    BY <1>2, <2>1, Zenon
  <2>3. x \in Unlisted[h]
    BY <1>2, <1>4, <2>1, <2>2, Zenon DEF D
  <2> QED BY <2>3 DEF x
<1>6. ASSUME NEW x \in Unlisted[h] PROVE x = <<G, "NO_MEMORY">>
  <2>0. x \in D \X Code
    BY <1>4, <1>6, Zenon
  <2> HIDE DEF D
  <2>1. PICK m \in D, e \in Code : x = <<m, e>>
    BY <2>0
  <2> USE DEF D
  <2>2. PICK a \in Arguments[m] : e \in Answer(m, h, a) \ Documented(m)
    BY <1>4, <1>6, <2>1
  <2>3. m = G /\ e = "NO_MEMORY"
    BY <1>3, <2>2
  <2> HIDE DEF D
  <2> QED BY <2>1, <2>3
<1> QED BY <1>5, <1>6 DEF G

-----------------------------------------------------------------------------
(* The invariant of a handle, its event thread and its callbacks.          *)
THEOREM Invariance == Spec => []IInv
<1>1. IInv /\ [Next]_vars => IInv'
  BY TypeStep, AliveStep, CurrentStep DEF IInv
<1> QED BY <1>1, InitInv, PTL DEF Spec

(* The types, and with them that a session has its mutex exactly while it  *)
(* calls callbacks (native_drm_object.h).                                  *)
THEOREM TypeCorrect == Spec => []TypeOK
<1>1. IInv => TypeOK
  BY DEF IInv
<1> QED BY <1>1, Invariance, PTL

(* No callback with a deleted handle; a session calls no replaced one.     *)
THEOREM CallbacksCorrect == Spec => []CallbacksAreCurrent
<1>1. IInv => CallbacksAreCurrent
  BY DEF IInv, Alive, Current, CallbacksAreCurrent
<1> QED BY <1>1, Invariance, PTL

(* Each function, with a handle in any state and whatever is passed,       *)
(* answers INVALID_VAL exactly for what the application did wrong, success *)
(* never without the service, and what its header lists, but for the       *)
(* NO_MEMORY of GetMediaKeySystems, which it does not.                     *)
THEOREM AnswersCorrect == Spec => []AnswersTellTheCause
<1>1. HandlesNow \subseteq Handle
  BY DEF HandlesNow, Handle
<1>2. AnswersTellTheCause
  BY <1>1, NobodyMisled, OneUnlisted DEF AnswersTellTheCause
<1> QED BY <1>2, PTL

=============================================================================
