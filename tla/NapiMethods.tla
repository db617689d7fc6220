---------------------------- MODULE NapiMethods ----------------------------
(***************************************************************************)
(* What a call of a JavaScript method answers: the checks each method of   *)
(* the binding makes, in their order, and the code it throws or rejects    *)
(* with (frameworks/js/drm_napi/media_key_system_napi.cpp,                 *)
(* key_session_napi.cpp, napi_async_work.cpp).                             *)
(*                                                                         *)
(* An argument list is a sequence of kinds.  The object is "bare" when     *)
(* nothing is wrapped in it, "closed" when its native object has no proxy  *)
(* of the service any more, else "open".  An answer is the set of what the *)
(* application may see; which codes the service has for an error matters   *)
(* only where the binding passes them on.                                  *)
(***************************************************************************)
EXTENDS Naturals, Sequences

Text == {"string", "empty", "long"}   \* "long": more than MAX_STRING_SIZE
Buffer == {"bytes", "nodata"}         \* typed arrays; "nodata": no memory behind it
Int32 == {"level", "number"}          \* "number": no ContentProtectionLevel
Kind == Text \cup Buffer \cup Int32 \cup {"pairs", "function"}

Side == {"bare", "closed", "open"}

(* What is not given reads as undefined. *)
Arg(a, i) == IF i \in DOMAIN a THEN a[i] ELSE "undefined"

RefuseIf(wrong, code) == IF wrong THEN {code} ELSE {}

(* The answer of a check that refuses, else what comes after it.           *)
check ?? rest == IF check = {} THEN rest ELSE check

AtMost(a, n) == RefuseIf(Len(a) > n, "assertion")
NeedsText(a, i) == RefuseIf(Arg(a, i) \notin Text, "INVALID_VAL")
NeedsBuffer(a, i) == RefuseIf(Arg(a, i) \notin Buffer, "INVALID_VAL")
NeedsData(a, i, code) == RefuseIf(Arg(a, i) = "nodata", code)

(* The native object is asked: every error of its is a service error.      *)
Asked(s) ==
  CASE s = "bare"   -> {"UNKNOWN"}
    [] s = "closed" -> {"SERVICE_FATAL"}
    [] s = "open"   -> {"ok", "SERVICE_FATAL"}

(* The factory is asked, which needs no object. *)
FactoryAsked == {"ok", "SERVICE_FATAL"}

(* The two calls that create an object translate the code.                 *)
DrmInnerErrToNapiErrAPI12(code) ==
  IF code \in {"MAX_SYSTEM_NUM_REACHED", "MAX_SESSION_NUM_REACHED", "INVALID_VAL"} THEN code
  ELSE IF code \in {"SERVICE_DIED", "SERVICE_FATAL_ERROR"} THEN "SERVICE_FATAL"
  ELSE "UNKNOWN"

SystemErrors == {"BASE", "UNKNOWN", "SERVICE_FATAL_ERROR", "MAX_SYSTEM_NUM_REACHED"}

SessionErrors ==
  {"SERVICE_FATAL_ERROR", "MAX_SESSION_NUM_REACHED", "INVALID_KEY_SESSION", "NO_MEMORY"}

Translated(codes) == {DrmInnerErrToNapiErrAPI12(c) : c \in codes}

-----------------------------------------------------------------------------
(* The static methods. *)

CreateMediaKeySystemInstance(a) ==
  NeedsText(a, 1) ?? ({"ok", "UNKNOWN"} \cup Translated(SystemErrors))

(* One, two or three arguments; an empty mime type asks for a level.       *)
IsMediaKeySystemSupported(a) ==
  LET alone == Len(a) = 1
      pair  == Len(a) = 2 /\ Arg(a, 2) # "empty"
  IN  RefuseIf(Arg(a, 1) \notin Text, "UNKNOWN")
        ?? RefuseIf(Arg(a, 1) # "string", "INVALID_VAL")
        ?? RefuseIf(~ alone /\ Arg(a, 2) \notin Text, "UNKNOWN")
        ?? RefuseIf(~ alone /\ ~ pair /\ Arg(a, 3) \notin Int32, "UNKNOWN")
        ?? RefuseIf(~ alone /\ ~ pair /\ Arg(a, 3) # "level", "INVALID_VAL")
        ?? {"ok"}

GetMediaKeySystems == FactoryAsked \cup {"UNKNOWN"}

GetMediaKeySystemUuid(a) == AtMost(a, 1) ?? NeedsText(a, 1) ?? (FactoryAsked \cup {"UNKNOWN"})

-----------------------------------------------------------------------------
(* The synchronous methods of a key system. *)

SessionAsked(s) ==
  CASE s = "bare"   -> {"UNKNOWN"}
    [] s = "closed" -> Translated({"SERVICE_FATAL_ERROR"})
    [] s = "open"   -> {"ok"} \cup Translated(SessionErrors)

CreateMediaKeySession(a, s) ==
  RefuseIf(Len(a) > 0 /\ Arg(a, 1) \notin Int32, "UNKNOWN")
    ?? RefuseIf(Len(a) > 0 /\ Arg(a, 1) # "level", "INVALID_VAL") ?? SessionAsked(s)

SetConfigurationString(a, s) ==
  AtMost(a, 2) ?? NeedsText(a, 1) ?? NeedsText(a, 2)
    ?? RefuseIf(Arg(a, 2) = "empty", "INVALID_VAL") ?? Asked(s)

GetConfigurationString(a, s) == AtMost(a, 1) ?? NeedsText(a, 1) ?? Asked(s)

(* Mutant: memory that is not there is passed on. *)
SetWithoutData(a, s) == AtMost(a, 2) ?? NeedsText(a, 1) ?? NeedsBuffer(a, 2) ?? Asked(s)

SetConfigurationByteArray(a, s) ==
  AtMost(a, 2) ?? NeedsText(a, 1) ?? NeedsBuffer(a, 2) ?? NeedsData(a, 2, "INVALID_VAL") ?? Asked(s)

GetConfigurationByteArray(a, s) == AtMost(a, 2) ?? NeedsText(a, 1) ?? Asked(s)

GetMaxContentProtectionLevel(a, s) == AtMost(a, 1) ?? Asked(s)

GetStatistics(s) == Asked(s)

GetCertificateStatus(s) == Asked(s)

(* The conversion may fail too. *)
GetOfflineMediaKeyIds(s) == Asked(s) \cup (IF s = "open" THEN {"UNKNOWN"} ELSE {})

GetOfflineMediaKeyStatus(a, s) ==
  AtMost(a, 1) ?? NeedsBuffer(a, 1) ?? NeedsData(a, 1, "INVALID_VAL") ?? Asked(s)

ClearOfflineMediaKeys(a, s) ==
  AtMost(a, 1) ?? NeedsBuffer(a, 1) ?? NeedsData(a, 1, "UNKNOWN") ?? Asked(s)

-----------------------------------------------------------------------------
(* The synchronous methods of a key session. *)

(* No key at all is a service error too. *)
CheckMediaKeyStatus(s) == Asked(s)

ClearMediaKeys(s) == Asked(s)

RequireSecureDecoderModule(a, s) ==
  RefuseIf(Len(a) # 1, "INVALID_VAL") ?? RefuseIf(Arg(a, 1) \notin Text, "UNKNOWN") ?? Asked(s)

GetContentProtectionLevel(s) == Asked(s)

-----------------------------------------------------------------------------
(* Registering a listener, and destroy. *)

(* Only what is wrapped counts here, not whether it is open.               *)
SetEventCallback(a, s) ==
  RefuseIf(Len(a) # 2, "assertion") ?? NeedsText(a, 1)
    ?? RefuseIf(Arg(a, 2) # "function", "INVALID_VAL") ?? RefuseIf(s = "bare", "UNKNOWN") ?? {"ok"}

UnsetEventCallback(a, s) ==
  RefuseIf(Len(a) # 1, "assertion") ?? NeedsText(a, 1) ?? RefuseIf(s = "bare", "UNKNOWN") ?? {"ok"}

Destroy(s) == Asked(s)

-----------------------------------------------------------------------------
(* The asynchronous methods: whether their arguments are read; the error   *)
(* rejects the promise later.                                              *)

GenerateKeySystemRequest(a) == a = <<>>

ProcessKeySystemResponse(a) == Len(a) = 1 /\ Arg(a, 1) \in Buffer

(* A mime type that is no string becomes the empty one.                    *)
GenerateMediaKeyRequest(a) ==
  /\ Len(a) \in {3, 4}
  /\ Arg(a, 2) \in Buffer
  /\ Arg(a, 3) \in Int32
  /\ Len(a) = 4 => Arg(a, 4) = "pairs"

ProcessMediaKeyResponse(a) == Len(a) = 1 /\ Arg(a, 1) \in Buffer

GenerateOfflineReleaseRequest(a) == Len(a) = 1 /\ Arg(a, 1) \in Buffer

ProcessOfflineReleaseResponse(a) ==
  Len(a) = 2 /\ Arg(a, 1) \in Buffer /\ Arg(a, 2) \in Buffer

RestoreOfflineMediaKeys(a) == Len(a) = 1 /\ Arg(a, 1) \in Buffer

(* GetCbInfo: a function in the last place is the callback, and no more    *)
(* than ARGC_MAX arguments are taken.                                      *)
ARGC_MAX == 6

Given(a) ==
  IF Arg(a, Len(a)) = "function" THEN SubSeq(a, 1, Len(a) - 1) ELSE a

(* The status of the context when the work is queued; then its executor    *)
(* refuses or asks the native object.                                      *)
Settled(parsed, a, s) ==
  IF s = "bare" \/ Len(a) > ARGC_MAX \/ ~ parsed THEN {"INVALID_VAL"} ELSE Asked(s)

-----------------------------------------------------------------------------
(* The methods by their names (the tables of Init). *)

Factory ==
  {"createMediaKeySystem", "isMediaKeySystemSupported", "getMediaKeySystems",
   "getMediaKeySystemUuid"}

Answer(m, a, s) ==
  CASE m = "createMediaKeySystem"          -> CreateMediaKeySystemInstance(a)
    [] m = "isMediaKeySystemSupported"     -> IsMediaKeySystemSupported(a)
    [] m = "getMediaKeySystems"            -> GetMediaKeySystems
    [] m = "getMediaKeySystemUuid"         -> GetMediaKeySystemUuid(a)
    [] m = "createMediaKeySession"         -> CreateMediaKeySession(a, s)
    [] m = "setConfigurationString"        -> SetConfigurationString(a, s)
    [] m = "getConfigurationString"        -> GetConfigurationString(a, s)
    [] m = "setConfigurationByteArray"     -> SetConfigurationByteArray(a, s)
    [] m = "getConfigurationByteArray"     -> GetConfigurationByteArray(a, s)
    [] m = "getMaxContentProtectionLevel"  -> GetMaxContentProtectionLevel(a, s)
    [] m = "getStatistics"                 -> GetStatistics(s)
    [] m = "getCertificateStatus"          -> GetCertificateStatus(s)
    [] m = "getOfflineMediaKeyIds"         -> GetOfflineMediaKeyIds(s)
    [] m = "getOfflineMediaKeyStatus"      -> GetOfflineMediaKeyStatus(a, s)
    [] m = "clearOfflineMediaKeys"         -> ClearOfflineMediaKeys(a, s)
    [] m = "checkMediaKeyStatus"           -> CheckMediaKeyStatus(s)
    [] m = "clearMediaKeys"                -> ClearMediaKeys(s)
    [] m = "requireSecureDecoderModule"    -> RequireSecureDecoderModule(a, s)
    [] m = "getContentProtectionLevel"     -> GetContentProtectionLevel(s)
    [] m = "on"                            -> SetEventCallback(a, s)
    [] m = "off"                           -> UnsetEventCallback(a, s)
    [] m = "destroy"                       -> Destroy(s)
    [] m = "generateKeySystemRequest"      ->
         Settled(GenerateKeySystemRequest(Given(a)), a, s)
    [] m = "processKeySystemResponse"      ->
         Settled(ProcessKeySystemResponse(Given(a)), a, s)
    [] m = "generateMediaKeyRequest"       ->
         Settled(GenerateMediaKeyRequest(Given(a)), a, s)
    [] m = "processMediaKeyResponse"       ->
         Settled(ProcessMediaKeyResponse(Given(a)), a, s)
    [] m = "generateOfflineReleaseRequest" ->
         Settled(GenerateOfflineReleaseRequest(Given(a)), a, s)
    [] m = "processOfflineReleaseResponse" ->
         Settled(ProcessOfflineReleaseResponse(Given(a)), a, s)
    [] m = "restoreOfflineMediaKeys"       ->
         Settled(RestoreOfflineMediaKeys(Given(a)), a, s)

-----------------------------------------------------------------------------
(* What the methods are declared to take: the alternatives of each.        *)

Nothing == {<<>>}
OneBuffer == {<<Buffer>>, <<Buffer, {"function"}>>}

Signature ==
  [createMediaKeySystem          |-> {<<Text>>},
   isMediaKeySystemSupported     |->
     {<<{"string"}>>, <<{"string"}, {"string", "long"}>>, <<{"string"}, Text, {"level"}>>},
   getMediaKeySystems            |-> Nothing,
   getMediaKeySystemUuid         |-> {<<Text>>},
   createMediaKeySession         |-> {<<>>, <<{"level"}>>},
   setConfigurationString        |-> {<<Text, {"string", "long"}>>},
   getConfigurationString        |-> {<<Text>>},
   setConfigurationByteArray     |-> {<<Text, {"bytes"}>>},
   getConfigurationByteArray     |-> {<<Text>>},
   getMaxContentProtectionLevel  |-> Nothing,
   getStatistics                 |-> Nothing,
   getCertificateStatus          |-> Nothing,
   getOfflineMediaKeyIds         |-> Nothing,
   getOfflineMediaKeyStatus      |-> {<<{"bytes"}>>},
   clearOfflineMediaKeys         |-> {<<{"bytes"}>>},
   checkMediaKeyStatus           |-> Nothing,
   clearMediaKeys                |-> Nothing,
   requireSecureDecoderModule    |-> {<<Text>>},
   getContentProtectionLevel     |-> Nothing,
   on                            |-> {<<Text, {"function"}>>},
   off                           |-> {<<Text>>},
   destroy                       |-> Nothing,
   generateKeySystemRequest      |-> {<<>>, <<{"function"}>>},
   processKeySystemResponse      |-> OneBuffer,
   generateMediaKeyRequest       |->
     {<<Kind, Buffer, Int32>>, <<Kind, Buffer, Int32, {"pairs"}>>,
      <<Kind, Buffer, Int32, {"function"}>>},
   processMediaKeyResponse       |-> OneBuffer,
   generateOfflineReleaseRequest |-> OneBuffer,
   processOfflineReleaseResponse |-> {<<Buffer, Buffer>>, <<Buffer, Buffer, {"function"}>>},
   restoreOfflineMediaKeys       |-> OneBuffer]

Begins(a, t) == Len(t) <= Len(a) /\ \A i \in DOMAIN t : a[i] \in t[i]

Begun(m, a) == \E t \in Signature[m] : Begins(a, t)

Wanted(m, a) == \E t \in Signature[m] : Len(t) = Len(a) /\ Begins(a, t)

(* The answer misleads the application: it asked for, or blames, the       *)
(* service with arguments that are not of the signature, it refuses some   *)
(* that are, or it comes without the service.                              *)
Misleads(answer, m, a, s) ==
  \/ answer \cap {"ok", "SERVICE_FATAL"} # {} /\ ~ Begun(m, a)
  \/ Wanted(m, a) /\ s = "open" /\ ("ok" \notin answer \/ "INVALID_VAL" \in answer)
  \/ Wanted(m, a) /\ s = "closed" /\ "INVALID_VAL" \in answer
  \/ s = "bare" /\ m \notin Factory /\ "ok" \in answer
  \/ s = "closed" /\ m \notin Factory \cup {"on", "off"} /\ "ok" \in answer

(* The sides on which some call would be misled.                           *)
MisleadingSides(maxArgs) ==
  {s \in Side : \E m \in DOMAIN Signature, n \in 0..maxArgs : \E a \in [1..n -> Kind] :
     Misleads(Answer(m, a, s), m, a, s)}

=============================================================================
