---------------------- MODULE MediaDecryptModuleService ----------------------
(***************************************************************************)
(* The decryption module of a key session: the session that makes it once  *)
(* and keeps it, the calls that decrypt with it one at a time, its         *)
(* release, and the statistics of the dump and of the report               *)
(* (server/src/media_decrypt_module_service.cpp, key_session_service.cpp). *)
(*                                                                         *)
(* A decryption comes with two file descriptors, which are the service's   *)
(* to close.  UINT32_MAX is a constant, small enough for it to be reached; *)
(* a size is treated like a duration, which stands for both.  A duration   *)
(* is unsigned, the difference of two readings of a clock that may be set  *)
(* back in between: it may be larger than any int.                         *)
(*                                                                         *)
(* The names are told apart from those of the session (module              *)
(* MediaKeySystemService), to be proved about beside it: sessionOpen is    *)
(* its hdiMediaKeySession_.                                                *)
(***************************************************************************)
EXTENDS Integers, Sequences, FiniteSetsExt

CONSTANTS
  Caller,      \* threads that decrypt
  Duration,    \* how long one takes, in milliseconds
  INT32_MAX, UINT32_MAX,
  MIN_DECRYPTION_TIMES, \* fewer are not reported
  MaxDecrypts, \* bound: decryptions that reach the plugin
  MaxRefused,  \* bound: decryptions that do not
  Nobody

ASSUME DecryptAssumption ==
  /\ Nobody \notin Caller
  /\ INT32_MAX \in Nat /\ UINT32_MAX \in Nat /\ INT32_MAX < UINT32_MAX
  /\ Duration \subseteq 0..UINT32_MAX /\ Duration # {}
  /\ MIN_DECRYPTION_TIMES \in Nat \ {0}
  /\ MaxDecrypts \in Nat /\ MaxRefused \in Nat

VARIABLES
  sessionOpen,             \* the session has its HDI object
  decryptModule_,          \* it has made the module
  hdiMediaDecryptModule_,  \* the module has its HDI object
  moduleLock_,
  call,
  files,                   \* descriptors of the calls under way
  stray,                   \* those that nobody will close
  topThree, decryptTimes, decryptSumDuration, decryptMaxDuration, errorDecryptTimes,
  history                  \* what was decrypted, for the properties

sessionVars == <<sessionOpen, decryptModule_>>
statistics ==
  <<topThree, decryptTimes, decryptSumDuration, decryptMaxDuration, errorDecryptTimes, history>>
callVars == <<call, files, stray>>
moduleVars == <<sessionVars, hdiMediaDecryptModule_, moduleLock_, callVars, statistics>>

Files == {"src", "dst"}

TOP_THREE_SIZE == 3

ModuleInit ==
  /\ sessionOpen = TRUE
  /\ decryptModule_ = FALSE /\ hdiMediaDecryptModule_ = FALSE
  /\ moduleLock_ = Nobody
  /\ call = [c \in Caller |-> "idle"]
  /\ files = [c \in Caller |-> {}]
  /\ stray = 0
  /\ topThree = <<>>
  /\ decryptTimes = 0 /\ decryptSumDuration = 0
  /\ decryptMaxDuration = 0 /\ errorDecryptTimes = 0
  /\ history = <<>>

-----------------------------------------------------------------------------
(* The session. *)

(* Once made, the module is returned whether or not the session is open    *)
(* and the module released: only the making changes anything.              *)
GetMediaDecryptModule ==
  /\ ~ decryptModule_
  /\ sessionOpen
  /\ decryptModule_' = TRUE
  /\ hdiMediaDecryptModule_' = TRUE
  /\ UNCHANGED <<sessionOpen, moduleLock_, callVars, statistics>>

CloseMediaKeySession ==
  /\ sessionOpen
  /\ sessionOpen' = FALSE
  /\ UNCHANGED <<decryptModule_, hdiMediaDecryptModule_, moduleLock_, callVars, statistics>>

-----------------------------------------------------------------------------
(* The module. *)

(* Mutant: the release does not wait for the decryption in the plugin.     *)
NoModuleLock == TRUE

ModuleUnlocked == moduleLock_ = Nobody

ReleaseModule ==
  /\ hdiMediaDecryptModule_
  /\ ModuleUnlocked
  /\ hdiMediaDecryptModule_' = FALSE
  /\ UNCHANGED <<sessionVars, moduleLock_, callVars, statistics>>

DecryptMediaData(c) ==
  /\ decryptModule_
  /\ call[c] = "idle"
  /\ call' = [call EXCEPT ![c] = "waiting"]
  /\ files' = [files EXCEPT ![c] = Files]
  /\ UNCHANGED <<sessionVars, hdiMediaDecryptModule_, moduleLock_, stray, statistics>>

(* A released module refuses, before the descriptors are closed.           *)
DecryptRefused(c) ==
  /\ call[c] = "waiting"
  /\ ModuleUnlocked
  /\ ~ hdiMediaDecryptModule_
  /\ stray < MaxRefused * Cardinality(Files)
  /\ call' = [call EXCEPT ![c] = "idle"]
  /\ stray' = stray + Cardinality(files[c])
  /\ files' = [files EXCEPT ![c] = {}]
  /\ UNCHANGED <<sessionVars, hdiMediaDecryptModule_, moduleLock_, statistics>>

DecryptInPlugin(c) ==
  /\ call[c] = "waiting"
  /\ ModuleUnlocked
  /\ hdiMediaDecryptModule_
  /\ moduleLock_' = c
  /\ call' = [call EXCEPT ![c] = "plugin"]
  /\ UNCHANGED <<sessionVars, hdiMediaDecryptModule_, files, stray, statistics>>

(* The queue is one of ints: what the conversions to it and back make of a *)
(* duration that no int can hold.                                          *)
AsInt(d) == IF d > INT32_MAX THEN d - (UINT32_MAX + 1) ELSE d

AsUnsigned(x) == IF x < 0 THEN x + (UINT32_MAX + 1) ELSE x

(* The queue, least first: x goes in behind those that are no larger.      *)
Push(x) ==
  [i \in 1..(Len(topThree) + 1) |->
     IF i <= Len(topThree) /\ topThree[i] <= x THEN topThree[i]
     ELSE IF i = 1 \/ topThree[i - 1] <= x THEN x
     ELSE topThree[i - 1]]

(* What is left when the least is popped. *)

Pop(queue) == Tail(queue)

(* Mutant: the sum goes on when the number starts again.                   *)
KeepSum(d) ==
  /\ decryptTimes' = (IF decryptTimes = UINT32_MAX THEN 0 ELSE decryptTimes) + 1
  /\ decryptSumDuration' = decryptSumDuration + d

CountDecryption(d) ==
  IF decryptTimes = UINT32_MAX
    THEN decryptTimes' = 1 /\ decryptSumDuration' = d
    ELSE decryptTimes' = decryptTimes + 1 /\ decryptSumDuration' = decryptSumDuration + d

UpdateDecryptionStatistics(d, ok) ==
  /\ topThree' = LET queue == Push(AsInt(d))
                 IN  IF Len(queue) > TOP_THREE_SIZE THEN Pop(queue) ELSE queue
  /\ decryptMaxDuration' = IF decryptMaxDuration < d THEN d ELSE decryptMaxDuration
  /\ errorDecryptTimes' = errorDecryptTimes + (IF ok THEN 0 ELSE 1)
  /\ CountDecryption(d)
  /\ history' = Append(history, [duration |-> d, ok |-> ok])

(* The descriptors are closed, also after an error of the plugin.          *)
DecryptReturns(c) ==
  /\ call[c] = "plugin"
  /\ Len(history) < MaxDecrypts
  /\ \E d \in Duration, ok \in BOOLEAN : UpdateDecryptionStatistics(d, ok)
  /\ files' = [files EXCEPT ![c] = {}]
  /\ moduleLock_' = Nobody
  /\ call' = [call EXCEPT ![c] = "idle"]
  /\ UNCHANGED <<sessionVars, hdiMediaDecryptModule_, stray>>

ModuleNext ==
  \/ GetMediaDecryptModule
  \/ CloseMediaKeySession
  \/ ReleaseModule
  \/ \E c \in Caller :
       DecryptMediaData(c) \/ DecryptRefused(c) \/ DecryptInPlugin(c) \/ DecryptReturns(c)

ModuleSpec == ModuleInit /\ [][ModuleNext]_moduleVars

-----------------------------------------------------------------------------
(* What is told of the statistics. *)

(* GetTopThreeDecryptionDurations empties the queue and fills it again.    *)
GetTopThreeDecryptionDurations ==
  [i \in 1..TOP_THREE_SIZE |->
     IF i \in DOMAIN topThree THEN AsUnsigned(topThree[i]) ELSE 0]

GetDumpInfo == <<decryptTimes, errorDecryptTimes, GetTopThreeDecryptionDurations>>

Reported == decryptTimes >= MIN_DECRYPTION_TIMES

ReportDecryptionStatisticsEvent ==
  <<decryptTimes, decryptSumDuration \div decryptTimes, decryptMaxDuration>>

-----------------------------------------------------------------------------
(* Properties. *)

(* The types; who is in the plugin holds moduleLock_.  StatisticsAreTrue   *)
(* says more of topThree.                                                  *)
ModuleTypes ==
  /\ sessionOpen \in BOOLEAN /\ decryptModule_ \in BOOLEAN
  /\ hdiMediaDecryptModule_ \in BOOLEAN /\ (hdiMediaDecryptModule_ => decryptModule_)
  /\ moduleLock_ \in Caller \cup {Nobody}
  /\ call \in [Caller -> {"idle", "waiting", "plugin"}]
  /\ \A c \in Caller : call[c] = "plugin" <=> moduleLock_ = c
  /\ files \in [Caller -> SUBSET Files]
  /\ stray \in Nat
  /\ decryptTimes \in 0..UINT32_MAX
  /\ decryptSumDuration \in Nat
  /\ decryptMaxDuration \in Duration \cup {0}
  /\ errorDecryptTimes \in Nat

Durations(h) == [i \in DOMAIN h |-> h[i].duration]

(* The decryptions since the number started again, and how many they are.  *)
Counted(h) == IF h = <<>> THEN 0 ELSE ((Len(h) - 1) % UINT32_MAX) + 1

Recent(h) == SubSeq(h, Len(h) - Counted(h) + 1, Len(h))

Total(s) ==
  LET sum[i \in 0..Len(s)] == IF i = 0 THEN 0 ELSE sum[i - 1] + s[i]
  IN  sum[Len(s)]

Between(s, d, e) == Cardinality({i \in DOMAIN s : s[i] \in d..e})

Errors(h) == {i \in DOMAIN h : ~ h[i].ok}

(* Of the durations that an int can hold the three longest are told: of    *)
(* those of at least d there are as many as there were, up to three.  A    *)
(* duration of 0 looks like one that is not there, and one that no int can *)
(* hold ranks below all others.                                            *)
TopThreeIsTrue ==
  \A d \in 1..INT32_MAX :
    Between(GetDumpInfo[3], d, INT32_MAX)
      = Min({TOP_THREE_SIZE, Between(Durations(history), d, INT32_MAX)})

ReportIsTrue ==
  Reported =>
    ReportDecryptionStatisticsEvent =
      <<Len(Recent(history)),
        Total(Durations(Recent(history))) \div Len(Recent(history)),
        Max(Range(Durations(history)))>>

(* What the dump and the report say of the decryptions, however many there *)
(* were: the three longest that an int can hold, the longest of all, the   *)
(* errors, and the mean of those since the number started again at         *)
(* UINT32_MAX.                                                             *)
StatisticsAreTrue ==
  /\ TopThreeIsTrue
  /\ GetDumpInfo[2] = Cardinality(Errors(history))
  /\ ReportIsTrue

(* The module is not released under a decryption that is in the plugin,    *)
(* one decryption is in it at a time (ModuleTypes), and as long as it was  *)
(* not released every descriptor is closed when its decryption returns,    *)
(* also with an error.                                                     *)
DecryptionIsSafe ==
  /\ ModuleTypes
  /\ \A c \in Caller : call[c] = "plugin" => hdiMediaDecryptModule_
  /\ \A c \in Caller : files[c] # {} => call[c] # "idle"
  /\ hdiMediaDecryptModule_ => stray = 0

=============================================================================
