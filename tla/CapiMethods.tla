---------------------------- MODULE CapiMethods ----------------------------
(***************************************************************************)
(* What a function of the C API answers: the checks it makes, what it asks *)
(* of the native object, and whether the caller's memory holds what comes  *)
(* back (frameworks/c/drm_capi/native_mediakeysystem.cpp,                  *)
(* native_mediakeysession.cpp).                                            *)
(*                                                                         *)
(* A handle is "null", "closed" when its object has no proxy of the        *)
(* service any more, or "open".  An argument is one of the kinds below;    *)
(* what the service returns has any size, and an answer is the set of all  *)
(* codes the caller may see.                                               *)
(***************************************************************************)
EXTENDS Naturals, Sequences

Handle == {"null", "closed", "open"}

Text == {"null", "empty", "text"}
Pointer == {"null", "valid"}
Length == {"none", "some"}             \* "none": not positive, for a Count negative
Limited == {"none", "some", "over"}    \* "over": beyond the maximum of the API
Count == {"none", "zero", "some", "over"}
Room == {"zero", "some"}
Level == {"null", "odd", "level"}      \* "odd": no DRM_ContentProtectionLevel

Right == {"text", "valid", "zero", "some", "level"}

(* Memory of the caller may hold what comes back, which may be nothing.    *)
Size == {"nothing", "held", "over"}

(* The native object is asked: every error of its is UNKNOWN.              *)
Asked(h, answer) == {"UNKNOWN"} \cup (IF h = "open" THEN answer ELSE {})

(* The checks on entry, of the handle first.                               *)
Checked(h, arguments, answer) ==
  IF h = "null" \/ ~ arguments \subseteq Right THEN {"INVALID_VAL"} ELSE answer

-----------------------------------------------------------------------------
(* The functions that need no handle. *)

IsSupported(uuid) == IF uuid = "text" THEN {"true", "false"} ELSE {"false"}

IsSupported2(uuid, mimeType) ==
  IF {uuid, mimeType} = {"text"} THEN {"true", "false"} ELSE {"false"}

IsSupported3(uuid, mimeType, level) ==
  IF {uuid, mimeType} = {"text"} /\ level = "level" THEN {"true", "false"} ELSE {"false"}

(* No plugin at all is UNKNOWN, a name that is too long NO_MEMORY.         *)
GetMediaKeySystems(description, count) ==
  IF "null" \in {description, count} THEN {"INVALID_VAL"}
  ELSE {"OK", "INVALID_VAL", "UNKNOWN", "NO_MEMORY"}

(* The table of Create: what it does not list is UNKNOWN.                  *)
CreateCode(inner) ==
  IF inner = "SERVICE_FATAL_ERROR" THEN "SERVICE_DIED"
  ELSE IF inner \in {"INVALID_VAL", "MAX_SYSTEM_NUM_REACHED"} THEN inner
  ELSE "UNKNOWN"

(* The factory's errors; SetCallback may fail once there is a system.      *)
Create(name, mediaKeySystem) ==
  IF "null" \in {name, mediaKeySystem} \/ name = "empty" THEN {"INVALID_VAL"}
  ELSE {"OK", "UNKNOWN"}
         \cup {CreateCode(e) : e \in {"BASE", "SERVICE_FATAL_ERROR", "MAX_SYSTEM_NUM_REACHED"}}

-----------------------------------------------------------------------------
(* The functions of a key system. *)

SetConfigurationString(h, name, value) == Checked(h, {name, value}, Asked(h, {"OK"}))

(* memcpy_s of nothing into no room at all fails as well.                  *)
Copied(n, tooSmall) ==
  CASE n = "nothing" -> {"NO_MEMORY"} [] n = "held" -> {"OK"} [] n = "over" -> {tooSmall}

GetConfigurationString(h, name, value, valueLen) ==
  Checked(h, {name, value, valueLen}, Asked(h, UNION {Copied(n, "INVALID_VAL") : n \in Size}))

(* Mutant: the length is not checked.                                      *)
SetAnyLength(h, name, value, valueLen) == Checked(h, {name, value}, Asked(h, {"OK"}))

SetConfigurationByteArray(h, name, value, valueLen) ==
  Checked(h, {name, value, valueLen}, Asked(h, {"OK"}))

GetConfigurationByteArray(h, name, value, valueLen) ==
  Checked(h, {name, value, valueLen}, Asked(h, UNION {Copied(n, "INVALID_VAL") : n \in Size}))

(* More than MAX_STATISTICS_COUNT metrics, or a value that is too long.    *)
vectorToClist(n) == IF n = "over" THEN {"NO_MEMORY"} ELSE {"OK"}

GetStatistics(h, statistics) == Checked(h, {statistics}, Asked(h, UNION {vectorToClist(n) : n \in Size}))

(* A level out of range is UNKNOWN like an error.                          *)
GetMaxContentProtectionLevel(h, level) == Checked(h, {level}, Asked(h, {"OK"}))

(* An empty request is UNKNOWN, an empty URL is not; each may be too long. *)
GenerateKeySystemRequest(h, request, requestLen, defaultUrl, defaultUrlLen) ==
  Checked(h, {request, requestLen, defaultUrl, defaultUrlLen},
          Asked(h, {"OK", "UNKNOWN", "NO_MEMORY"}))

ProcessKeySystemResponse(h, response, responseLen) ==
  Checked(h, {response, responseLen}, Asked(h, {"OK"}))

GetCertificateStatus(h, certStatus) == Checked(h, {certStatus}, Asked(h, {"OK"}))

(* Only the handle counts here, not whether it is open.                    *)
SetMediaKeySystemCallback(h, function) == Checked(h, {function}, {"OK"})

SetCallback(h, function) == Checked(h, {function}, {"OK"})

SessionCode(inner) ==
  IF inner = "SERVICE_FATAL_ERROR" THEN "SERVICE_DIED"
  ELSE IF inner = "MAX_SESSION_NUM_REACHED" THEN inner
  ELSE "UNKNOWN"

(* Without a proxy the error is SERVICE_FATAL_ERROR.                       *)
CreateMediaKeySession(h, level, mediaKeySession) ==
  Checked(h, {level, mediaKeySession},
          IF h = "closed" THEN {SessionCode("SERVICE_FATAL_ERROR")}
          ELSE {"OK", "UNKNOWN", "NO_MEMORY"}
                 \cup {SessionCode(e) : e \in {"BASE", "SERVICE_FATAL_ERROR",
                                               "MAX_SESSION_NUM_REACHED"}})

(* MAX_OFFLINE_MEDIA_KEY_ID_COUNT ids, or one that is too long.            *)
vectorToC2DArray(n) == IF n = "over" THEN {"NO_MEMORY"} ELSE {"OK"}

GetOfflineMediaKeyIds(h, offlineMediaKeyIds) ==
  Checked(h, {offlineMediaKeyIds}, Asked(h, UNION {vectorToC2DArray(n) : n \in Size}))

GetOfflineMediaKeyStatus(h, keyId, keyIdLen, status) ==
  Checked(h, {keyId, keyIdLen, status}, Asked(h, {"OK"}))

ClearOfflineMediaKeys(h, keyId, keyIdLen) == Checked(h, {keyId, keyIdLen}, Asked(h, {"OK"}))

Destroy(h) == Checked(h, {}, Asked(h, {"OK"}))

-----------------------------------------------------------------------------
(* The functions of a key session. *)

(* Neither no data nor too much, nor too long a URL.                       *)
DealMediaKeyRequest(n) == IF n = "held" THEN {"OK"} ELSE {"NO_MEMORY"}

GenerateMediaKeyRequest(h, info, initDataLen, optionsCount, mediaKeyRequest) ==
  Checked(h, {info, initDataLen, optionsCount, mediaKeyRequest},
          Asked(h, UNION {DealMediaKeyRequest(n) : n \in Size}))

(* The room for the id counts only when there is one.                      *)
IdReturned(n, room) ==
  IF n = "nothing" \/ (n = "held" /\ room = "some") THEN {"OK"} ELSE {"NO_MEMORY"}

ProcessMediaKeyResponse(h, response, responseLen, keyId, keyIdLen, room) ==
  Checked(h, {response, responseLen, keyId, keyIdLen},
          Asked(h, UNION {IdReturned(n, room) : n \in Size}))

(* At most MAX_MEDIA_KEY_STATUS_COUNT entries, of limited length.          *)
MapToClist(n) == IF n = "over" THEN {"NO_MEMORY"} ELSE {"OK"}

CheckMediaKeyStatus(h, mediaKeyStatus) ==
  Checked(h, {mediaKeyStatus},
          Asked(h, UNION {IF n = "nothing" THEN {"UNKNOWN"} ELSE MapToClist(n) : n \in Size}))

ClearMediaKeys(h) == Checked(h, {}, Asked(h, {"OK"}))

GenerateOfflineReleaseRequest(h, keyId, keyIdLen, request, requestLen, room) ==
  Checked(h, {keyId, keyIdLen, request, requestLen},
          Asked(h, UNION {IdReturned(n, room) : n \in Size}))

ProcessOfflineReleaseResponse(h, keyId, keyIdLen, response, responseLen) ==
  Checked(h, {keyId, keyIdLen, response, responseLen}, Asked(h, {"OK"}))

RestoreOfflineMediaKeys(h, keyId, keyIdLen) == Checked(h, {keyId, keyIdLen}, Asked(h, {"OK"}))

GetContentProtectionLevel(h, level) == Checked(h, {level}, Asked(h, {"OK"}))

RequireSecureDecoderModule(h, mimeType, status) ==
  Checked(h, {mimeType, status}, Asked(h, {"OK"}))

SetMediaKeySessionCallback(h, function) == Checked(h, {function}, {"OK"})

SetSessionCallback(h, function) == Checked(h, {function}, {"OK"})

DestroySession(h) == Checked(h, {}, Asked(h, {"OK"}))

-----------------------------------------------------------------------------
(* The functions by their names; those of a session that a system has too  *)
(* are told apart by their prefix.                                         *)

Answer(m, h, a) ==
  CASE m = "IsSupported"                   -> IsSupported(a[1])
    [] m = "IsSupported2"                  -> IsSupported2(a[1], a[2])
    [] m = "IsSupported3"                  -> IsSupported3(a[1], a[2], a[3])
    [] m = "GetMediaKeySystems"            -> GetMediaKeySystems(a[1], a[2])
    [] m = "Create"                        -> Create(a[1], a[2])
    [] m = "SetConfigurationString"        -> SetConfigurationString(h, a[1], a[2])
    [] m = "GetConfigurationString"        -> GetConfigurationString(h, a[1], a[2], a[3])
    [] m = "SetConfigurationByteArray"     -> SetConfigurationByteArray(h, a[1], a[2], a[3])
    [] m = "GetConfigurationByteArray"     -> GetConfigurationByteArray(h, a[1], a[2], a[3])
    [] m = "GetStatistics"                 -> GetStatistics(h, a[1])
    [] m = "GetMaxContentProtectionLevel"  -> GetMaxContentProtectionLevel(h, a[1])
    [] m = "GenerateKeySystemRequest"      ->
         GenerateKeySystemRequest(h, a[1], a[2], a[3], a[4])
    [] m = "ProcessKeySystemResponse"      -> ProcessKeySystemResponse(h, a[1], a[2])
    [] m = "GetCertificateStatus"          -> GetCertificateStatus(h, a[1])
    [] m = "SetMediaKeySystemCallback"     -> SetMediaKeySystemCallback(h, a[1])
    [] m = "SetCallback"                   -> SetCallback(h, a[1])
    [] m = "CreateMediaKeySession"         -> CreateMediaKeySession(h, a[1], a[2])
    [] m = "GetOfflineMediaKeyIds"         -> GetOfflineMediaKeyIds(h, a[1])
    [] m = "GetOfflineMediaKeyStatus"      -> GetOfflineMediaKeyStatus(h, a[1], a[2], a[3])
    [] m = "ClearOfflineMediaKeys"         -> ClearOfflineMediaKeys(h, a[1], a[2])
    [] m = "Destroy"                       -> Destroy(h)
    [] m = "GenerateMediaKeyRequest"       ->
         GenerateMediaKeyRequest(h, a[1], a[2], a[3], a[4])
    [] m = "ProcessMediaKeyResponse"       ->
         ProcessMediaKeyResponse(h, a[1], a[2], a[3], a[4], a[5])
    [] m = "CheckMediaKeyStatus"           -> CheckMediaKeyStatus(h, a[1])
    [] m = "ClearMediaKeys"                -> ClearMediaKeys(h)
    [] m = "GenerateOfflineReleaseRequest" ->
         GenerateOfflineReleaseRequest(h, a[1], a[2], a[3], a[4], a[5])
    [] m = "ProcessOfflineReleaseResponse" ->
         ProcessOfflineReleaseResponse(h, a[1], a[2], a[3], a[4])
    [] m = "RestoreOfflineMediaKeys"       -> RestoreOfflineMediaKeys(h, a[1], a[2])
    [] m = "GetContentProtectionLevel"     -> GetContentProtectionLevel(h, a[1])
    [] m = "RequireSecureDecoderModule"    -> RequireSecureDecoderModule(h, a[1], a[2])
    [] m = "SetMediaKeySessionCallback"    -> SetMediaKeySessionCallback(h, a[1])
    [] m = "Session_SetCallback"           -> SetSessionCallback(h, a[1])
    [] m = "Session_Destroy"               -> DestroySession(h)

(* What is passed besides the handle.                                      *)
Arguments ==
  [IsSupported                   |-> Text \X {"valid"},
   IsSupported2                  |-> Text \X Text,
   IsSupported3                  |-> Text \X Text \X (Level \ {"null"}),
   GetMediaKeySystems            |-> Pointer \X Pointer,
   Create                        |-> Text \X Pointer,
   SetConfigurationString        |-> Text \X Text,
   GetConfigurationString        |-> Text \X Pointer \X Length,
   SetConfigurationByteArray     |-> Text \X Pointer \X Length,
   GetConfigurationByteArray     |-> Text \X Pointer \X Pointer,
   GetStatistics                 |-> Pointer \X {"valid"},
   GetMaxContentProtectionLevel  |-> Pointer \X {"valid"},
   GenerateKeySystemRequest      |-> Pointer \X (Pointer \cup Length) \X Pointer \X Length,
   ProcessKeySystemResponse      |-> Pointer \X Length,
   GetCertificateStatus          |-> Pointer \X {"valid"},
   SetMediaKeySystemCallback     |-> Pointer \X {"valid"},
   SetCallback                   |-> Pointer \X {"valid"},
   CreateMediaKeySession         |-> Level \X Pointer,
   GetOfflineMediaKeyIds         |-> Pointer \X {"valid"},
   GetOfflineMediaKeyStatus      |-> Pointer \X Limited \X Pointer,
   ClearOfflineMediaKeys         |-> Pointer \X Limited,
   Destroy                       |-> {<<>>},
   GenerateMediaKeyRequest       |-> Pointer \X Count \X (Count \ {"none"}) \X Pointer,
   ProcessMediaKeyResponse       |-> Pointer \X Length \X Pointer \X Pointer \X Room,
   CheckMediaKeyStatus           |-> Pointer \X {"valid"},
   ClearMediaKeys                |-> {<<>>},
   GenerateOfflineReleaseRequest |-> Pointer \X Limited \X Pointer \X Pointer \X Room,
   ProcessOfflineReleaseResponse |-> Pointer \X Limited \X Pointer \X Length,
   RestoreOfflineMediaKeys       |-> Pointer \X Limited,
   GetContentProtectionLevel     |-> Pointer \X {"valid"},
   RequireSecureDecoderModule    |-> Text \X Pointer,
   SetMediaKeySessionCallback    |-> Pointer \X {"valid"},
   Session_SetCallback           |-> Pointer \X {"valid"},
   Session_Destroy               |-> {<<>>}]

=============================================================================
