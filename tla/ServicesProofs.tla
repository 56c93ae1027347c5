--------------------------- MODULE ServicesProofs ---------------------------
(***************************************************************************)
(* Theorems about Services: what each component guarantees holds of the    *)
(* whole, whichever of them moves.                                         *)
(***************************************************************************)
EXTENDS Services, ConnectionPoolProofs

-----------------------------------------------------------------------------
(* One component moves at a time. *)

LEMMA OneMoves ==
  ASSUME ServicesNext
  PROVE  \/ part = "pool" /\ Next /\ Rest
         \/ part = "errors" /\ Log!Next /\ Rest
         \/ part = "health" /\ Health!Next /\ Rest
         \/ part = "boot" /\ Boot!Next /\ Rest
         \/ part = "backup" /\ Backup!Next /\ Rest
         \/ UNCHANGED servicesVars
  BY DEF ServicesNext, Stops, Next, Log!Next, Health!Next, Boot!Next, Backup!Next,
     PoolArrive, PoolConnect, PoolTimeOut, PoolWork, PoolFailure, PoolEnd, PoolConnectionDrops,
     LogOccurrence, LogPage, LogAdmin, LogTick, LogFlushHeld,
     HealthAsk, HealthProbeAnswers, HealthProbeTimesOut, HealthCheckEnds, HealthChanges, HealthTick,
     BootRun, BootFails, BootServe,
     BackupDeploy, BackupNextNight, BackupCountLive, BackupDumpLive, BackupNameDump, BackupRestore,
     BackupCheck, BackupDropYesterdays, BackupRename, BackupCleanup, BackupTrap, BackupPowerCut,
     BackupOver

\* A step of the whole is, for each component, one of its own or none.
LEMMA StepOfEach ==
  ASSUME [ServicesNext]_servicesVars
  PROVE  /\ part' = part
         /\ [Next]_vars /\ [Log!Next]_errorsVars /\ [Health!Next]_healthVars
         /\ [Boot!Next]_bootVars /\ [Backup!Next]_backupVars
<1>1. CASE UNCHANGED servicesVars
  BY <1>1 DEF servicesVars
<1>2. CASE ServicesNext /\ ~UNCHANGED servicesVars
  BY <1>2, OneMoves DEF Rest
<1> QED BY <1>1, <1>2

-----------------------------------------------------------------------------
(***************************************************************************)
(* The pool.                                                               *)
(***************************************************************************)
(* Whatever else the backend does, a connection is with one request and    *)
(* comes back clean, and a transaction is saved whole or not at all        *)
(* (db/client.ts).                                                         *)
THEOREM PoolServes == ServicesSpec => [](ConnectionsAreAccountedFor /\ AllOrNothing)
<1>1. ServicesInit => Inv
  BY InitInv DEF ServicesInit
<1>2. Inv /\ [ServicesNext]_servicesVars => Inv'
  BY StepOfEach, InvStep
<1>3. Inv => ConnectionsAreAccountedFor /\ AllOrNothing
  BY InvImplies
<1> QED BY <1>1, <1>2, <1>3, PTL DEF ServicesSpec

-----------------------------------------------------------------------------
(***************************************************************************)
(* The error log.                                                          *)
(***************************************************************************)
\* What the log and its notifications hold is what they should, and an error is
\* announced as often as it is opened: the first says that a handler has read the
\* kind of a group, the second what that kind is worth by the time it writes.
LogInv == Log!TypeOK /\ Log!AnnouncedOnce

LEMMA LeastOfTwo ==
  ASSUME NEW a \in Int, NEW b \in Int
  PROVE  Log!Min({a, b}) = IF a <= b THEN a ELSE b
  BY DEF Log!Min

LEMMA LogInitInv == Log!Init => LogInv
<1> SUFFICES ASSUME Log!Init PROVE LogInv
  OBVIOUS
<1>1. [reported |-> {}, token |-> FALSE] \in [reported : SUBSET PageErrors, token : BOOLEAN]
  OBVIOUS
<1>2. Log!TypeOK
  BY <1>1, LogAssumption DEF Log!Init, Log!TypeOK
<1>3. Log!AnnouncedOnce
  BY DEF Log!Init, Log!AnnouncedOnce
<1> QED BY <1>2, <1>3 DEF LogInv

\* The type of what the notifier keeps.
NotifierOK ==
    /\ errAge \in 0..Window /\ errSentInWindow \in 0..MaxPerWindow /\ errHeld \in 0..MaxHeld
    /\ errFlushTimer \in 0..Window \cup {None}
    /\ errPosted \in [0..(Window - 1) -> Nat]

LEMMA PostsType ==
  ASSUME NotifierOK, NEW n \in Nat, Log!Posts(n)
  PROVE  errPosted' \in [0..(Window - 1) -> Nat]
  BY LogAssumption DEF NotifierOK, Log!Posts

LEMMA NotifyKeeps ==
  ASSUME NotifierOK, Log!Notify
  PROVE  NotifierOK'
<1> DEFINE sent == IF Log!OpensWindow THEN 0 ELSE errSentInWindow
<1>1. errAge' \in 0..Window
  BY LogAssumption DEF NotifierOK, Log!Notify
<1>2. sent \in 0..MaxPerWindow
  BY LogAssumption DEF NotifierOK
<1>3. \/ /\ sent < MaxPerWindow
         /\ errSentInWindow' = sent + 1 /\ Log!Posts(1)
         /\ UNCHANGED <<errHeld, errFlushTimer>>
      \/ /\ errHeld < MaxHeld
         /\ errHeld' = errHeld + 1
         /\ errFlushTimer' = IF errFlushTimer = None THEN Window - errAge ELSE errFlushTimer
         /\ UNCHANGED <<errSentInWindow, errPosted>>
  BY DEF Log!Notify
<1>4. CASE /\ sent < MaxPerWindow
           /\ errSentInWindow' = sent + 1 /\ Log!Posts(1)
           /\ UNCHANGED <<errHeld, errFlushTimer>>
  <2>1. errPosted' \in [0..(Window - 1) -> Nat] BY <1>4, PostsType
  <2>2. errSentInWindow' \in 0..MaxPerWindow BY <1>2, <1>4, LogAssumption
  <2> QED BY <1>1, <1>4, <2>1, <2>2 DEF NotifierOK
<1>5. CASE /\ errHeld < MaxHeld
           /\ errHeld' = errHeld + 1
           /\ errFlushTimer' = IF errFlushTimer = None THEN Window - errAge ELSE errFlushTimer
           /\ UNCHANGED <<errSentInWindow, errPosted>>
  <2>1. errHeld' \in 0..MaxHeld BY <1>5, LogAssumption DEF NotifierOK
  <2>2. errFlushTimer' \in 0..Window \cup {None} BY <1>5, LogAssumption DEF NotifierOK
  <2> QED BY <1>1, <1>5, <2>1, <2>2 DEF NotifierOK
<1> QED BY <1>3, <1>4, <1>5

\* The notifier's half of the type invariant, and the groups' half.
GroupsOK ==
    /\ errGroups \in [Errors -> {"none", "open", "resolved"}]
    /\ errRecording \in [Handlers -> [error : Errors, kind : Log!Kinds] \cup {None}]
    /\ errPage \in [reported : SUBSET PageErrors, token : BOOLEAN]
    /\ errTold \in [Errors -> Nat] /\ errMuddled \subseteq Errors

LEMMA LogTypeParts == Log!TypeOK <=> GroupsOK /\ NotifierOK
  BY DEF Log!TypeOK, GroupsOK, NotifierOK

LEMMA LogTypePartsNext == (Log!TypeOK)' <=> GroupsOK' /\ NotifierOK'
  BY DEF Log!TypeOK, GroupsOK, NotifierOK

\* The notifier alone moves.
LEMMA LogNotifierStep ==
  ASSUME LogInv, NotifierOK', UNCHANGED <<errGroups, errRecording, errPage, errTold, errMuddled>>
  PROVE  LogInv'
<1>1. GroupsOK BY LogTypeParts DEF LogInv
<1>2. GroupsOK' BY <1>1 DEF GroupsOK
<1>3. (Log!AnnouncedOnce)' BY DEF LogInv, Log!AnnouncedOnce
<1> QED BY <1>2, <1>3, LogTypePartsNext DEF LogInv

LEMMA LogTickKeeps ==
  ASSUME LogInv, Log!Tick
  PROVE  LogInv'
<1>1. NotifierOK BY LogTypeParts DEF LogInv
<1>2. errAge' \in 0..Window
  <2>1. errAge' = IF errAge + 1 <= Window THEN errAge + 1 ELSE Window
    <3>1. errAge + 1 \in Int /\ Window \in Int BY <1>1, LogAssumption DEF NotifierOK
    <3>2. Log!Min({errAge + 1, Window}) = IF errAge + 1 <= Window THEN errAge + 1 ELSE Window
      BY <3>1, LeastOfTwo
    <3> QED BY <3>2 DEF Log!Tick
  <2> QED BY <1>1, <2>1, LogAssumption DEF NotifierOK
<1>3. errFlushTimer' \in 0..Window \cup {None}
  BY <1>1, LogAssumption DEF Log!Tick, NotifierOK
<1>4. errPosted' \in [0..(Window - 1) -> Nat]
  <2>1. errPosted' = [k \in 0..(Window - 1) |-> IF k = 0 THEN 0 ELSE errPosted[k - 1]]
    BY <1>1 DEF Log!Tick, NotifierOK
  <2>2. \A k \in 0..(Window - 1) : k # 0 => errPosted[k - 1] \in Nat
    BY <1>1, LogAssumption DEF NotifierOK
  <2> QED BY <2>1, <2>2
<1>5. NotifierOK' BY <1>1, <1>2, <1>3, <1>4 DEF Log!Tick, NotifierOK
<1> QED BY <1>5, LogNotifierStep DEF Log!Tick

LEMMA LogFlushKeeps ==
  ASSUME LogInv, Log!FlushHeld
  PROVE  LogInv'
<1>1. NotifierOK BY LogTypeParts DEF LogInv
<1>2. errPosted' \in [0..(Window - 1) -> Nat] BY <1>1, PostsType DEF Log!FlushHeld
<1>3. NotifierOK' BY <1>2, LogAssumption DEF Log!FlushHeld, NotifierOK
<1> QED BY <1>3, LogNotifierStep DEF Log!FlushHeld

\* The page reports to nobody, or an occurrence reads its group.
LEMMA LogReadsKeeps ==
  ASSUME LogInv, NEW h \in Handlers, NEW e \in Errors, Log!Reads(h, e),
         errPage' \in [reported : SUBSET PageErrors, token : BOOLEAN]
  PROVE  LogInv'
<1>1. GroupsOK /\ NotifierOK BY LogTypeParts DEF LogInv
<1>2. Log!Kind(e) \in Log!Kinds
  BY <1>1 DEF GroupsOK, Log!Kind, Log!Kinds
<1>3. errRecording' \in [Handlers -> [error : Errors, kind : Log!Kinds] \cup {None}]
  BY <1>1, <1>2 DEF GroupsOK, Log!Reads
<1>4. GroupsOK' BY <1>1, <1>3 DEF GroupsOK, Log!Reads
<1>5. NotifierOK' BY <1>1 DEF NotifierOK, Log!Reads, Log!notifier
<1>6. (Log!AnnouncedOnce)' BY DEF LogInv, Log!AnnouncedOnce, Log!Reads
<1> QED BY <1>4, <1>5, <1>6, LogTypePartsNext DEF LogInv

LEMMA LogPageKeeps ==
  ASSUME LogInv, errPage' \in [reported : SUBSET PageErrors, token : BOOLEAN],
         UNCHANGED <<errGroups, errRecording, Log!notifier, errTold, errMuddled>>
  PROVE  LogInv'
<1>1. GroupsOK /\ NotifierOK BY LogTypeParts DEF LogInv
<1>2. GroupsOK' BY <1>1 DEF GroupsOK
<1>3. NotifierOK' BY <1>1 DEF NotifierOK, Log!notifier
<1>4. (Log!AnnouncedOnce)' BY DEF LogInv, Log!AnnouncedOnce
<1> QED BY <1>2, <1>3, <1>4, LogTypePartsNext DEF LogInv

\* The write: a group that is as it was read is announced, or not, as it should be;
\* one that is not is muddled.
LEMMA LogRecordsKeeps ==
  ASSUME LogInv, NEW h \in Handlers, Log!Records(h)
  PROVE  LogInv'
<1>1. GroupsOK /\ NotifierOK BY LogTypeParts DEF LogInv
<1> DEFINE e == errRecording[h].error
<1> DEFINE kind == errRecording[h].kind
<1>2. e \in Errors /\ kind \in Log!Kinds
  BY <1>1 DEF GroupsOK, Log!Records
<1>3. /\ errRecording' = [errRecording EXCEPT ![h] = None]
      /\ errGroups' = [errGroups EXCEPT ![e] = "open"]
      /\ errMuddled' = IF Log!Kind(e) = kind THEN errMuddled ELSE errMuddled \cup {e}
      /\ errPage' = errPage
  BY DEF Log!Records, Log!Opened, Log!Muddles
<1>4. CASE kind = "repeat"
  <2>1. UNCHANGED <<Log!notifier, errTold>> BY <1>4 DEF Log!Records
  <2>2. GroupsOK' BY <1>1, <1>2, <1>3, <2>1 DEF GroupsOK
  <2>3. NotifierOK' BY <1>1, <2>1 DEF NotifierOK, Log!notifier
  <2>4. ASSUME NEW f \in Errors \ errMuddled'
        PROVE  errTold'[f] = IF errGroups'[f] = "open" THEN 1 ELSE 0
    <3>1. f \in Errors \ errMuddled BY <1>3, <2>4
    <3>2. errTold[f] = IF errGroups[f] = "open" THEN 1 ELSE 0
      BY <3>1 DEF LogInv, Log!AnnouncedOnce
    <3>3. CASE f = e
      <4>1. Log!Kind(f) = "repeat" BY <1>3, <1>4, <2>4, <3>3
      <4>2. errGroups[f] = "open"
        BY <1>1, <2>4, <4>1 DEF Log!Kind, GroupsOK
      <4> QED BY <1>1, <1>2, <1>3, <2>1, <3>2, <3>3, <4>2 DEF GroupsOK
    <3>4. CASE f # e
      BY <1>1, <1>2, <1>3, <2>1, <3>2, <3>4 DEF GroupsOK
    <3> QED BY <3>3, <3>4
  <2> QED BY <2>2, <2>3, <2>4, LogTypePartsNext DEF LogInv, Log!AnnouncedOnce
<1>5. CASE kind # "repeat"
  <2>1. Log!Notify /\ errTold' = [errTold EXCEPT ![e] = Log!Min({errTold[e] + 1, 2})]
    BY <1>5 DEF Log!Records
  <2>2. errTold[e] \in Nat BY <1>1, <1>2 DEF GroupsOK
  <2>3. Log!Min({errTold[e] + 1, 2}) = IF errTold[e] + 1 <= 2 THEN errTold[e] + 1 ELSE 2
    BY <2>2, LeastOfTwo
  <2>4. errTold' \in [Errors -> Nat]
    <3>1. Log!Min({errTold[e] + 1, 2}) \in Nat BY <2>2, <2>3
    <3>2. errTold \in [Errors -> Nat] BY <1>1 DEF GroupsOK
    <3> HIDE DEF e
    <3> QED BY <2>1, <3>1, <3>2
  <2>5. GroupsOK' BY <1>1, <1>2, <1>3, <2>4 DEF GroupsOK
  <2>6. NotifierOK' BY <1>1, <2>1, NotifyKeeps
  <2>7. ASSUME NEW f \in Errors \ errMuddled'
        PROVE  errTold'[f] = IF errGroups'[f] = "open" THEN 1 ELSE 0
    <3>1. f \in Errors \ errMuddled BY <1>3, <2>7
    <3>2. errTold[f] = IF errGroups[f] = "open" THEN 1 ELSE 0
      BY <3>1 DEF LogInv, Log!AnnouncedOnce
    <3>3. CASE f = e
      <4>1. Log!Kind(f) # "repeat" BY <1>3, <1>5, <2>7, <3>3
      <4>2. errGroups[f] # "open"
        BY <1>1, <2>7, <4>1 DEF Log!Kind, GroupsOK
      <4>3. errTold'[f] = 1 BY <1>1, <2>1, <2>3, <3>2, <3>3, <4>2, <1>2 DEF GroupsOK
      <4>4. errGroups'[f] = "open" BY <1>1, <1>2, <1>3, <3>3 DEF GroupsOK
      <4> QED BY <4>3, <4>4
    <3>4. CASE f # e
      BY <1>1, <1>2, <1>3, <2>1, <3>2, <3>4 DEF GroupsOK
    <3> QED BY <3>3, <3>4
  <2> QED BY <2>5, <2>6, <2>7, LogTypePartsNext DEF LogInv, Log!AnnouncedOnce
<1> QED BY <1>4, <1>5

LEMMA LogRecordFailsKeeps ==
  ASSUME LogInv, NEW h \in Handlers, Log!RecordFails(h)
  PROVE  LogInv'
<1>1. GroupsOK /\ NotifierOK BY LogTypeParts DEF LogInv
<1> DEFINE e == errRecording[h].error
<1>2. e \in Errors
  BY <1>1 DEF GroupsOK, Log!RecordFails
<1>3. /\ errRecording' = [errRecording EXCEPT ![h] = None]
      /\ UNCHANGED <<errPage, Log!notifier, errTold>>
      /\ \/ UNCHANGED <<errGroups, errMuddled>>
         \/ errGroups' = [errGroups EXCEPT ![e] = "open"] /\ errMuddled' = errMuddled \cup {e}
  BY DEF Log!RecordFails, Log!Opened
<1>4. GroupsOK' BY <1>1, <1>2, <1>3 DEF GroupsOK
<1>5. NotifierOK' BY <1>1, <1>3 DEF NotifierOK, Log!notifier
<1>6. ASSUME NEW f \in Errors \ errMuddled'
      PROVE  errTold'[f] = IF errGroups'[f] = "open" THEN 1 ELSE 0
  <2>1. errTold[f] = IF errGroups[f] = "open" THEN 1 ELSE 0
    BY <1>3, <1>6 DEF LogInv, Log!AnnouncedOnce
  <2> QED BY <1>1, <1>2, <1>3, <1>6, <2>1 DEF GroupsOK
<1> QED BY <1>4, <1>5, <1>6, LogTypePartsNext DEF LogInv, Log!AnnouncedOnce

LEMMA LogSetResolvedKeeps ==
  ASSUME LogInv, NEW e \in Errors, NEW resolved \in BOOLEAN, Log!SetResolved(e, resolved)
  PROVE  LogInv'
<1>1. GroupsOK /\ NotifierOK BY LogTypeParts DEF LogInv
<1>2. /\ errGroups' = [errGroups EXCEPT ![e] = IF resolved THEN "resolved" ELSE "open"]
      /\ errTold' = [errTold EXCEPT ![e] = IF resolved THEN 0 ELSE IF errGroups[e] = "open" THEN errTold[e] ELSE 1]
      /\ UNCHANGED <<errRecording, errPage, Log!notifier, errMuddled>>
  BY DEF Log!SetResolved
<1>3. GroupsOK' BY <1>1, <1>2 DEF GroupsOK
<1>4. NotifierOK' BY <1>1, <1>2 DEF NotifierOK, Log!notifier
<1>5. ASSUME NEW f \in Errors \ errMuddled'
      PROVE  errTold'[f] = IF errGroups'[f] = "open" THEN 1 ELSE 0
  <2>1. errTold[f] = IF errGroups[f] = "open" THEN 1 ELSE 0
    BY <1>2, <1>5 DEF LogInv, Log!AnnouncedOnce
  <2> QED BY <1>1, <1>2, <2>1 DEF GroupsOK
<1> QED BY <1>3, <1>4, <1>5, LogTypePartsNext DEF LogInv, Log!AnnouncedOnce

LEMMA LogStepKeeps == LogInv /\ [Log!Next]_errorsVars => LogInv'
<1> SUFFICES ASSUME LogInv, [Log!Next]_errorsVars PROVE LogInv'
  OBVIOUS
<1>1. errPage \in [reported : SUBSET PageErrors, token : BOOLEAN]
  BY DEF LogInv, Log!TypeOK
<1>2. ASSUME NEW h \in Handlers, Log!Occurrence(h) PROVE LogInv'
  <2>1. ASSUME NEW e \in Errors, Log!Throws(h, e) PROVE LogInv'
    BY <1>1, <2>1, LogReadsKeeps DEF Log!Throws
  <2>2. ASSUME NEW e \in Errors, Log!Reports(h, e) PROVE LogInv'
    <3>1. errPage' \in [reported : SUBSET PageErrors, token : BOOLEAN]
      BY <1>1, <2>2 DEF Log!Reports
    <3> QED BY <2>2, <3>1, LogReadsKeeps, LogPageKeeps DEF Log!Reports
  <2> QED BY <1>2, <2>1, <2>2, LogRecordsKeeps, LogRecordFailsKeeps DEF Log!Occurrence
<1>3. ASSUME Log!Page PROVE LogInv'
  <2>1. errPage' \in [reported : SUBSET PageErrors, token : BOOLEAN]
    BY <1>1, <1>3 DEF Log!Page, Log!LoadsPage, Log!LogsIn
  <2>2. UNCHANGED <<errGroups, errRecording, Log!notifier, errTold, errMuddled>>
    BY <1>3 DEF Log!Page, Log!LoadsPage, Log!LogsIn
  <2> QED BY <2>1, <2>2, LogPageKeeps
<1>4. ASSUME Log!Admin PROVE LogInv'
  BY <1>4, LogSetResolvedKeeps DEF Log!Admin
<1>5. CASE UNCHANGED errorsVars
  <2>1. UNCHANGED <<errGroups, errRecording, Log!notifier, errTold, errMuddled>> /\ errPage' = errPage
    BY <1>5 DEF errorsVars, Log!notifier
  <2> QED BY <1>1, <2>1, LogPageKeeps
<1> QED BY <1>2, <1>3, <1>4, <1>5, LogTickKeeps, LogFlushKeeps DEF Log!Next

(* A group is announced once for each time it is opened, whichever         *)
(* requests and pages record it in turn, or others beside it: but for a    *)
(* group that another occurrence or the administrator changed between an   *)
(* occurrence's read and its write, or whose answer was lost               *)
(* (recordErrorInDB, buildErrorNotification, notifyDiscord).               *)
THEOREM ErrorsAreAnnouncedOnce == ServicesSpec => []AnnouncedOnce
<1>1. ServicesInit => LogInv
  BY LogInitInv DEF ServicesInit
<1>2. LogInv /\ [ServicesNext]_servicesVars => LogInv'
  BY StepOfEach, LogStepKeeps
<1>3. LogInv => AnnouncedOnce
  BY DEF LogInv, AnnouncedOnce
<1> QED BY <1>1, <1>2, <1>3, PTL DEF ServicesSpec

-----------------------------------------------------------------------------
(***************************************************************************)
(* The health check.                                                       *)
(***************************************************************************)
\* How long ago a dependency was well is bounded by the age of what says so: the
\* check on its way, or the report.  A check is on its way for somebody, so time
\* does not pass over one that is settled.
CheckFits ==
    hcInFlight # None =>
        /\ hcWaiting # {}
        /\ \A d \in Health!Dependencies : hcInFlight.results[d] = "ok" =>
              hcLastOk[d] <= CheckTimeout - hcInFlight.left

ReportFits ==
    hcCached # None /\ hcCached.age < CacheTime =>
        \A d \in Health!Dependencies : hcCached.report[d] = "ok" =>
              hcLastOk[d] <= hcCached.age + CheckTimeout

HealthInv ==
    /\ Health!TypeOK /\ CheckFits /\ ReportFits
    /\ \A d \in Health!Dependencies : hcDependency[d] = "ok" => hcLastOk[d] = 0
    /\ hcSinceCheck < CacheTime => hcCached # None /\ hcCached.age = hcSinceCheck

LEMMA EarlierOfTwo ==
  ASSUME NEW a \in Int, NEW b \in Int
  PROVE  Health!Min({a, b}) = IF a <= b THEN a ELSE b
  BY DEF Health!Min

LEMMA LaterOfTwo ==
  ASSUME NEW a \in Int, NEW b \in Int
  PROVE  Health!Max({a, b}) = IF a >= b THEN a ELSE b
  BY DEF Health!Max

LEMMA LimitType == Health!Limit \in Nat /\ Health!Limit = CacheTime + CheckTimeout
  BY HealthAssumption DEF Health!Limit

LEMMA HealthInitInv == Health!Init => HealthInv
<1> SUFFICES ASSUME Health!Init PROVE HealthInv
  OBVIOUS
<1>1. Health!TypeOK
  BY HealthAssumption, LimitType DEF Health!Init, Health!TypeOK
<1> QED BY <1>1, HealthAssumption DEF HealthInv, CheckFits, ReportFits, Health!Init

LEMMA AskKeeps ==
  ASSUME HealthInv, NEW q \in Monitors, Health!Ask(q)
  PROVE  HealthInv'
<1>1. Health!TypeOK BY DEF HealthInv
<1>2. UNCHANGED <<hcDependency, hcCached, hcLastOk, hcSinceCheck>>
  BY DEF Health!Ask
<1>3. ReportFits' BY <1>2 DEF HealthInv, ReportFits
<1>4. CASE Health!Fresh
  <2>1. hcAnswers' = [hcAnswers EXCEPT ![q] = hcCached.report] /\ UNCHANGED <<hcInFlight, hcWaiting>>
    BY <1>4 DEF Health!Ask
  <2>2. hcCached.report \in Health!Report
    BY <1>1, <1>4 DEF Health!TypeOK, Health!Fresh
  <2>3. hcAnswers' \in [Monitors -> Health!Report \cup {None}]
    BY <1>1, <2>1, <2>2 DEF Health!TypeOK
  <2>4. (Health!TypeOK)' BY <1>1, <1>2, <2>1, <2>3 DEF Health!TypeOK
  <2>5. CheckFits' BY <1>2, <2>1 DEF HealthInv, CheckFits
  <2> QED BY <1>2, <1>3, <2>4, <2>5 DEF HealthInv
<1>5. CASE ~Health!Fresh
  <2> DEFINE new == [results |-> [d \in Health!Dependencies |-> None], left |-> CheckTimeout]
  <2>1. /\ hcWaiting' = hcWaiting \cup {q}
        /\ hcAnswers' = [hcAnswers EXCEPT ![q] = None]
        /\ hcInFlight' = IF hcInFlight # None THEN hcInFlight ELSE new
    BY <1>5 DEF Health!Ask
  <2>2. new \in [results : [Health!Dependencies -> Health!Status \cup {None}], left : 0..CheckTimeout]
    BY HealthAssumption
  <2>3. hcAnswers' \in [Monitors -> Health!Report \cup {None}] /\ hcWaiting' \subseteq Monitors
    BY <1>1, <2>1 DEF Health!TypeOK
  <2>4. (Health!TypeOK)' BY <1>1, <1>2, <2>1, <2>2, <2>3 DEF Health!TypeOK
  <2>5. \A d \in Health!Dependencies : new.results[d] # "ok"
    BY HealthAssumption DEF Health!Status
  <2>6. CheckFits'
    <3> HIDE DEF new
    <3>1. CASE hcInFlight # None BY <1>2, <2>1, <3>1 DEF HealthInv, CheckFits
    <3>2. CASE hcInFlight = None BY <2>1, <2>5, <3>2 DEF CheckFits
    <3> QED BY <3>1, <3>2
  <2> QED BY <1>2, <1>3, <2>4, <2>6 DEF HealthInv
<1> QED BY <1>4, <1>5

\* A result comes in; one that says a dependency is well comes from one that is.
LEMMA ResultsKeep ==
  ASSUME HealthInv, NEW d \in Health!Dependencies, NEW status \in Health!Status,
         Health!Results(d, status), status = "ok" => hcDependency[d] = "ok"
  PROVE  HealthInv'
<1>1. Health!TypeOK BY DEF HealthInv
<1>2. /\ hcInFlight # None
      /\ hcInFlight' = [hcInFlight EXCEPT !.results[d] = status]
      /\ UNCHANGED <<hcDependency, hcCached, hcWaiting, hcAnswers, hcLastOk, hcSinceCheck>>
  BY DEF Health!Results
<1>3. hcInFlight \in [results : [Health!Dependencies -> Health!Status \cup {None}], left : 0..CheckTimeout]
  BY <1>1, <1>2 DEF Health!TypeOK
<1>4. /\ hcInFlight' \in [results : [Health!Dependencies -> Health!Status \cup {None}], left : 0..CheckTimeout]
      /\ hcInFlight'.left = hcInFlight.left
      /\ \A e \in Health!Dependencies :
            hcInFlight'.results[e] = IF e = d THEN status ELSE hcInFlight.results[e]
  BY <1>2, <1>3
<1>5. (Health!TypeOK)' BY <1>1, <1>2, <1>4 DEF Health!TypeOK
<1>6. ASSUME NEW e \in Health!Dependencies, hcInFlight'.results[e] = "ok"
      PROVE  hcLastOk'[e] <= CheckTimeout - hcInFlight'.left
  <2>1. CASE e = d
    <3>1. hcLastOk'[e] = 0 BY <1>2, <1>4, <1>6, <2>1 DEF HealthInv
    <3>2. hcInFlight.left \in 0..CheckTimeout BY <1>3
    <3> QED BY <1>4, <3>1, <3>2, HealthAssumption
  <2>2. CASE e # d
    BY <1>2, <1>4, <1>6, <2>2 DEF HealthInv, CheckFits
  <2> QED BY <2>1, <2>2
<1>7. CheckFits' BY <1>2, <1>6 DEF HealthInv, CheckFits
<1>8. ReportFits' BY <1>2 DEF HealthInv, ReportFits
<1> QED BY <1>2, <1>5, <1>7, <1>8 DEF HealthInv

LEMMA ProbesKeep ==
  ASSUME HealthInv, NEW d \in Health!Dependencies, Health!ProbeAnswers(d) \/ Health!ProbeTimesOut(d)
  PROVE  HealthInv'
<1>1. CASE Health!ProbeAnswers(d)
  <2>1. hcDependency[d] \in Health!Status /\ Health!Results(d, hcDependency[d])
    BY <1>1 DEF Health!ProbeAnswers
  <2> QED BY <2>1, ResultsKeep
<1>2. CASE Health!ProbeTimesOut(d)
  <2>1. "error" \in Health!Status /\ Health!Results(d, "error")
    BY <1>2 DEF Health!ProbeTimesOut, Health!Status
  <2> QED BY <2>1, ResultsKeep
<1> QED BY <1>1, <1>2

LEMMA CheckEndsKeeps ==
  ASSUME HealthInv, Health!CheckEnds
  PROVE  HealthInv'
<1>1. Health!TypeOK /\ CheckFits BY DEF HealthInv
<1>2. /\ hcInFlight # None /\ Health!Settled
      /\ hcCached' = [report |-> hcInFlight.results, age |-> 0]
      /\ hcInFlight' = None
      /\ hcAnswers' = [q \in Monitors |-> IF q \in hcWaiting THEN hcInFlight.results ELSE hcAnswers[q]]
      /\ hcWaiting' = {} /\ hcSinceCheck' = 0
      /\ UNCHANGED <<hcDependency, hcLastOk>>
  BY DEF Health!CheckEnds, Health!NoCheck
<1>3. hcInFlight \in [results : [Health!Dependencies -> Health!Status \cup {None}], left : 0..CheckTimeout]
  BY <1>1, <1>2 DEF Health!TypeOK
<1>4. hcInFlight.results \in Health!Report
  <2>1. hcInFlight.results \in [Health!Dependencies -> Health!Status \cup {None}] BY <1>3
  <2>2. \A d \in Health!Dependencies : hcInFlight.results[d] # None BY <1>2 DEF Health!Settled
  <2>3. \A d \in Health!Dependencies : hcInFlight.results[d] \in Health!Status BY <2>1, <2>2
  <2> QED BY <2>1, <2>3 DEF Health!Report
<1>5. hcCached' \in [report : Health!Report, age : 0..CacheTime]
  BY <1>2, <1>4, HealthAssumption
<1>6. hcCached' # None BY <1>5, HealthAssumption
<1>7. hcAnswers' \in [Monitors -> Health!Report \cup {None}]
  BY <1>1, <1>2, <1>4 DEF Health!TypeOK
<1>8. (Health!TypeOK)' BY <1>1, <1>2, <1>5, <1>7, HealthAssumption DEF Health!TypeOK
<1>9. ASSUME NEW d \in Health!Dependencies, hcCached'.report[d] = "ok"
      PROVE  hcLastOk'[d] <= hcCached'.age + CheckTimeout
  <2>1. hcLastOk[d] <= CheckTimeout - hcInFlight.left BY <1>1, <1>2, <1>9 DEF CheckFits
  <2>2. hcInFlight.left \in 0..CheckTimeout BY <1>3
  <2>3. hcLastOk[d] \in Int BY <1>1, LimitType DEF Health!TypeOK
  <2>4. hcLastOk[d] <= CheckTimeout BY <2>1, <2>2, <2>3, HealthAssumption
  <2>5. hcCached'.age = 0 BY <1>2
  <2> QED BY <1>2, <2>3, <2>4, <2>5, HealthAssumption
<1>10. CheckFits' BY <1>2 DEF CheckFits
<1>11. ReportFits' BY <1>9 DEF ReportFits
<1>12. hcCached'.age = hcSinceCheck' BY <1>2
<1> QED BY <1>2, <1>6, <1>8, <1>10, <1>11, <1>12 DEF HealthInv

LEMMA ChangesKeep ==
  ASSUME HealthInv, NEW d \in Health!Dependencies, NEW how \in Health!Status \cup {"hangs"},
         Health!Changes(d, how)
  PROVE  HealthInv'
<1>1. Health!TypeOK BY DEF HealthInv
<1>2. /\ hcDependency' = [hcDependency EXCEPT ![d] = how]
      /\ hcLastOk' = [hcLastOk EXCEPT ![d] = IF how = "ok" THEN 0 ELSE hcLastOk[d]]
      /\ UNCHANGED <<hcCached, hcInFlight, hcWaiting, hcAnswers, hcSinceCheck>>
  BY DEF Health!Changes
<1>3. hcDependency' \in [Health!Dependencies -> {"ok", "error", "hangs"}]
  BY <1>1, <1>2 DEF Health!TypeOK, Health!Status
<1>4. hcLastOk' \in [Health!Dependencies -> 0..(Health!Limit + 1)]
  BY <1>1, <1>2, LimitType DEF Health!TypeOK
<1>5. (Health!TypeOK)' BY <1>1, <1>2, <1>3, <1>4 DEF Health!TypeOK
<1>6. \A e \in Health!Dependencies : hcLastOk[e] \in Nat /\ hcLastOk'[e] \in {0, hcLastOk[e]}
  BY <1>1, <1>2, LimitType DEF Health!TypeOK
<1>7. CheckFits'
  <2>1. ASSUME NEW e \in Health!Dependencies, hcInFlight # None, hcInFlight.results[e] = "ok"
        PROVE  hcLastOk'[e] <= CheckTimeout - hcInFlight.left
    <3>1. hcLastOk[e] <= CheckTimeout - hcInFlight.left BY <2>1 DEF HealthInv, CheckFits
    <3>2. hcInFlight.left \in 0..CheckTimeout BY <1>1, <2>1 DEF Health!TypeOK
    <3> QED BY <1>6, <3>1, <3>2, HealthAssumption
  <2> QED BY <1>2, <2>1 DEF HealthInv, CheckFits
<1>8. ReportFits'
  <2>1. ASSUME NEW e \in Health!Dependencies, hcCached # None, hcCached.age < CacheTime,
               hcCached.report[e] = "ok"
        PROVE  hcLastOk'[e] <= hcCached.age + CheckTimeout
    <3>1. hcLastOk[e] <= hcCached.age + CheckTimeout BY <2>1 DEF HealthInv, ReportFits
    <3>2. hcCached.age \in 0..CacheTime BY <1>1, <2>1 DEF Health!TypeOK
    <3> QED BY <1>6, <3>1, <3>2, HealthAssumption
  <2> QED BY <1>2, <2>1 DEF ReportFits
<1>9. \A e \in Health!Dependencies : hcDependency'[e] = "ok" => hcLastOk'[e] = 0
  BY <1>1, <1>2 DEF HealthInv, Health!TypeOK
<1> QED BY <1>2, <1>5, <1>7, <1>8, <1>9 DEF HealthInv

LEMMA HealthTickKeeps ==
  ASSUME HealthInv, Health!Tick
  PROVE  HealthInv'
<1>1. Health!TypeOK /\ CheckFits /\ ReportFits BY DEF HealthInv
<1>2. \A d \in Health!Dependencies : hcLastOk[d] \in 0..(Health!Limit + 1)
  BY <1>1 DEF Health!TypeOK
<1>3. ASSUME NEW d \in Health!Dependencies
      PROVE  /\ hcLastOk'[d] \in 0..(Health!Limit + 1) /\ hcLastOk'[d] <= hcLastOk[d] + 1
             /\ hcDependency'[d] = "ok" => hcLastOk'[d] = 0
  <2>1. hcLastOk[d] + 1 \in Int /\ Health!Limit + 1 \in Int BY <1>2, LimitType
  <2>2. Health!Min({hcLastOk[d] + 1, Health!Limit + 1}) =
           IF hcLastOk[d] + 1 <= Health!Limit + 1 THEN hcLastOk[d] + 1 ELSE Health!Limit + 1
    BY <2>1, EarlierOfTwo
  <2>3. hcLastOk'[d] = IF hcDependency[d] = "ok" THEN 0 ELSE Health!Min({hcLastOk[d] + 1, Health!Limit + 1})
    BY DEF Health!Tick
  <2>4. hcDependency' = hcDependency BY DEF Health!Tick
  <2> QED BY <1>2, <2>2, <2>3, <2>4, LimitType
<1>4. hcLastOk' \in [Health!Dependencies -> 0..(Health!Limit + 1)]
  BY <1>3 DEF Health!Tick
<1>5. ASSUME hcInFlight # None
      PROVE  /\ hcInFlight' \in [results : [Health!Dependencies -> Health!Status \cup {None}],
                                 left : 0..CheckTimeout]
             /\ hcInFlight'.results = hcInFlight.results
             /\ hcInFlight.left \in 1..CheckTimeout /\ hcInFlight'.left = hcInFlight.left - 1
  <2>1. hcInFlight \in [results : [Health!Dependencies -> Health!Status \cup {None}], left : 0..CheckTimeout]
    BY <1>1, <1>5 DEF Health!TypeOK
  <2>2. hcInFlight.left > 0
    BY <1>1, <1>5 DEF Health!Tick, CheckFits
  <2>3. hcInFlight.left \in 1..CheckTimeout BY <2>1, <2>2, HealthAssumption
  <2>4. hcInFlight.left - 1 \in Int /\ 0 \in Int BY <2>3
  <2>5. Health!Max({hcInFlight.left - 1, 0}) = hcInFlight.left - 1
    BY <2>3, <2>4, LaterOfTwo
  <2>6. hcInFlight' = [hcInFlight EXCEPT !.left = Health!Max({hcInFlight.left - 1, 0})]
    BY <1>5 DEF Health!Tick
  <2> QED BY <2>1, <2>3, <2>5, <2>6, HealthAssumption
<1>6. hcInFlight = None => hcInFlight' = None BY DEF Health!Tick
<1>7. ASSUME hcCached # None
      PROVE  /\ hcCached' \in [report : Health!Report, age : 0..CacheTime]
             /\ hcCached'.report = hcCached.report /\ hcCached.age \in 0..CacheTime
             /\ hcCached'.age = IF hcCached.age + 1 <= CacheTime THEN hcCached.age + 1 ELSE CacheTime
  <2>1. hcCached \in [report : Health!Report, age : 0..CacheTime]
    BY <1>1, <1>7 DEF Health!TypeOK
  <2>2. hcCached.age \in 0..CacheTime /\ hcCached.age + 1 \in Int /\ CacheTime \in Int
    BY <2>1, HealthAssumption
  <2>3. Health!Min({hcCached.age + 1, CacheTime}) =
           IF hcCached.age + 1 <= CacheTime THEN hcCached.age + 1 ELSE CacheTime
    BY <2>2, EarlierOfTwo
  <2>4. hcCached' = [hcCached EXCEPT !.age = Health!Min({hcCached.age + 1, CacheTime})]
    BY <1>7 DEF Health!Tick
  <2>5. Health!Min({hcCached.age + 1, CacheTime}) \in 0..CacheTime BY <2>2, <2>3, HealthAssumption
  <2> QED BY <2>1, <2>2, <2>3, <2>4, <2>5
<1>8. hcCached = None => hcCached' = None BY DEF Health!Tick
<1>9. hcSinceCheck \in 0..CacheTime
      /\ hcSinceCheck' = IF hcSinceCheck + 1 <= CacheTime THEN hcSinceCheck + 1 ELSE CacheTime
  <2>1. hcSinceCheck \in 0..CacheTime BY <1>1 DEF Health!TypeOK
  <2>2. hcSinceCheck + 1 \in Int /\ CacheTime \in Int BY <2>1, HealthAssumption
  <2>3. Health!Min({hcSinceCheck + 1, CacheTime}) =
           IF hcSinceCheck + 1 <= CacheTime THEN hcSinceCheck + 1 ELSE CacheTime
    BY <2>2, EarlierOfTwo
  <2> QED BY <2>1, <2>3 DEF Health!Tick
<1>10. UNCHANGED <<hcDependency, hcWaiting, hcAnswers>> BY DEF Health!Tick
<1>11. (Health!TypeOK)'
  <2>1. hcSinceCheck' \in 0..CacheTime BY <1>9, HealthAssumption
  <2>2. hcCached' = None \/ hcCached' \in [report : Health!Report, age : 0..CacheTime] BY <1>7, <1>8
  <2>3. hcInFlight' = None \/ hcInFlight' \in [results : [Health!Dependencies -> Health!Status \cup {None}],
                                               left : 0..CheckTimeout]
    BY <1>5, <1>6
  <2> QED BY <1>1, <1>4, <1>10, <2>1, <2>2, <2>3 DEF Health!TypeOK
<1>12. CheckFits'
  <2> SUFFICES ASSUME hcInFlight' # None
               PROVE  /\ hcWaiting' # {}
                      /\ \A d \in Health!Dependencies : hcInFlight'.results[d] = "ok" =>
                            hcLastOk'[d] <= CheckTimeout - hcInFlight'.left
    BY DEF CheckFits
  <2>1. hcInFlight # None BY <1>6
  <2>2. ASSUME NEW d \in Health!Dependencies, hcInFlight'.results[d] = "ok"
        PROVE  hcLastOk'[d] <= CheckTimeout - hcInFlight'.left
    <3>1. hcLastOk[d] <= CheckTimeout - hcInFlight.left
      BY <1>1, <1>5, <2>1, <2>2 DEF CheckFits
    <3>2. hcInFlight.left \in 1..CheckTimeout /\ hcInFlight'.left = hcInFlight.left - 1
      BY <1>5, <2>1
    <3>3. hcLastOk[d] \in Int /\ hcLastOk'[d] \in Int /\ hcLastOk'[d] <= hcLastOk[d] + 1
      BY <1>2, <1>3, LimitType
    <3> QED BY <3>1, <3>2, <3>3, HealthAssumption
  <2> QED BY <1>1, <1>10, <2>1, <2>2 DEF CheckFits
<1>13. ReportFits'
  <2> SUFFICES ASSUME hcCached' # None, hcCached'.age < CacheTime,
                      NEW d \in Health!Dependencies, hcCached'.report[d] = "ok"
               PROVE  hcLastOk'[d] <= hcCached'.age + CheckTimeout
    BY DEF ReportFits
  <2>1. hcCached # None BY <1>8
  <2>2. hcCached.age \in 0..CacheTime /\ hcCached'.age = hcCached.age + 1 /\ hcCached.age < CacheTime
    BY <1>7, <2>1, HealthAssumption
  <2>3. hcLastOk[d] <= hcCached.age + CheckTimeout
    BY <1>1, <1>7, <2>1, <2>2 DEF ReportFits
  <2>4. hcLastOk[d] \in Int /\ hcLastOk'[d] \in Int /\ hcLastOk'[d] <= hcLastOk[d] + 1
    BY <1>2, <1>3, LimitType
  <2> QED BY <2>2, <2>3, <2>4, HealthAssumption
<1>14. ASSUME hcSinceCheck' < CacheTime PROVE hcCached' # None /\ hcCached'.age = hcSinceCheck'
  <2>1. hcSinceCheck < CacheTime /\ hcSinceCheck' = hcSinceCheck + 1
    BY <1>9, <1>14, HealthAssumption
  <2>2. hcCached # None /\ hcCached.age = hcSinceCheck BY <2>1 DEF HealthInv
  <2>3. hcCached' # None BY <1>7, <2>2, HealthAssumption
  <2> QED BY <1>7, <1>9, <1>14, <2>1, <2>2, <2>3
<1> QED BY <1>3, <1>11, <1>12, <1>13, <1>14 DEF HealthInv

LEMMA HealthStepKeeps == HealthInv /\ [Health!Next]_healthVars => HealthInv'
<1> SUFFICES ASSUME HealthInv, [Health!Next]_healthVars PROVE HealthInv'
  OBVIOUS
<1>1. CASE UNCHANGED healthVars
  BY <1>1 DEF healthVars, HealthInv, Health!TypeOK, CheckFits, ReportFits
<1>2. CASE Health!Next
  BY <1>2, AskKeeps, ProbesKeep, CheckEndsKeeps, ChangesKeep, HealthTickKeeps DEF Health!Next
<1> QED BY <1>1, <1>2

\* Who is answered that a dependency is well is told so by a check that ends, or by a
\* report that is kept.
LEMMA AnswersAreCurrent ==
  ASSUME HealthInv, [Health!Next]_healthVars, NEW q \in Monitors, NEW d \in Health!Dependencies,
         hcAnswers'[q] # hcAnswers[q], hcAnswers'[q] # None, hcAnswers'[q][d] = "ok"
  PROVE  hcLastOk[d] <= Health!Limit
<1>1. Health!TypeOK /\ CheckFits /\ ReportFits BY DEF HealthInv
<1>2. hcLastOk[d] \in Int BY <1>1, LimitType DEF Health!TypeOK
<1>3. CASE \E p \in Monitors : Health!Ask(p)
  <2>1. PICK p \in Monitors : Health!Ask(p) BY <1>3
  <2>2. p = q /\ Health!Fresh /\ hcAnswers'[q] = hcCached.report
    BY <1>1, <2>1 DEF Health!Ask, Health!TypeOK
  <2>3. hcLastOk[d] <= hcCached.age + CheckTimeout BY <1>1, <2>2 DEF ReportFits, Health!Fresh
  <2>4. hcCached.age \in 0..CacheTime BY <1>1, <2>2 DEF Health!TypeOK, Health!Fresh
  <2> QED BY <1>2, <2>3, <2>4, LimitType, HealthAssumption
<1>4. CASE Health!CheckEnds
  <2>1. hcInFlight # None /\ hcAnswers'[q] = hcInFlight.results
    BY <1>4 DEF Health!CheckEnds
  <2>2. hcLastOk[d] <= CheckTimeout - hcInFlight.left BY <1>1, <2>1 DEF CheckFits
  <2>3. hcInFlight.left \in 0..CheckTimeout BY <1>1, <2>1 DEF Health!TypeOK
  <2> QED BY <1>2, <2>2, <2>3, LimitType, HealthAssumption
<1>5. CASE hcAnswers' = hcAnswers BY <1>5
<1> QED BY <1>3, <1>4, <1>5
      DEF Health!Next, Health!ProbeAnswers, Health!ProbeTimesOut, Health!Results, Health!Changes,
          Health!Tick, healthVars

LEMMA ChecksAreRare ==
  ASSUME HealthInv, [Health!Next]_healthVars, hcInFlight = None, hcInFlight' # None
  PROVE  hcSinceCheck >= CacheTime
<1>1. PICK q \in Monitors : Health!Ask(q)
  BY DEF Health!Next, Health!ProbeAnswers, Health!ProbeTimesOut, Health!Results, Health!CheckEnds,
         Health!Changes, Health!Tick, healthVars
<1>2. ~Health!Fresh BY <1>1 DEF Health!Ask
<1>3. hcSinceCheck \in 0..CacheTime BY DEF HealthInv, Health!TypeOK
<1> QED BY <1>2, <1>3, HealthAssumption DEF HealthInv, Health!Fresh

(* However the monitors' requests, the probes and the timers interleave,   *)
(* nobody is told that a dependency is well which has not been for longer  *)
(* than a report is kept and a check may take, and a check starts no       *)
(* sooner than the report of the last one has aged (getHealthServ,         *)
(* runChecks).                                                             *)
THEOREM HealthStaysCurrent == ServicesSpec => HealthIsCurrent
<1>1. ServicesInit => HealthInv
  BY HealthInitInv DEF ServicesInit
<1>2. HealthInv /\ [ServicesNext]_servicesVars => HealthInv'
  BY StepOfEach, HealthStepKeeps
<1> DEFINE Current == \A q \in Monitors, d \in Health!Dependencies :
         hcAnswers'[q] # hcAnswers[q] /\ hcAnswers'[q] # None /\ hcAnswers'[q][d] = "ok"
            => hcLastOk[d] <= Health!Limit
<1> DEFINE Rare == hcInFlight = None /\ hcInFlight' # None => hcSinceCheck >= CacheTime
<1>3. HealthInv /\ [ServicesNext]_servicesVars => Current
  BY StepOfEach, AnswersAreCurrent
<1>4. HealthInv /\ [ServicesNext]_servicesVars => Rare
  BY StepOfEach, ChecksAreRare
<1>5. HealthInv => (part = "health" => Health!TypeOK)
  BY DEF HealthInv
<1>6. ServicesSpec => []HealthInv
  BY <1>1, <1>2, PTL DEF ServicesSpec
<1>7. ServicesSpec => [](part = "health" => Health!TypeOK)
  BY <1>5, <1>6, PTL
<1>8. ServicesSpec => [][Current]_(Health!vars)
  BY <1>3, <1>6, PTL DEF ServicesSpec
<1>9. ServicesSpec => [][Rare]_(Health!vars)
  BY <1>4, <1>6, PTL DEF ServicesSpec
<1> QED BY <1>7, <1>8, <1>9 DEF HealthIsCurrent, Health!OutageIsNoticed, Health!CostIsBounded

-----------------------------------------------------------------------------
(***************************************************************************)
(* The starts: what StartupProofs proves of Startup, here.                 *)
(***************************************************************************)
Starts == INSTANCE StartupProofs WITH
    applied <- bootApplied,
    recorded <- bootRecorded, at <- bootAt, pending <- bootPending,
    bucket <- bootBucket, failures <- bootFailures

\* Boot and Starts are instances of the same definitions, with the same variables.
LEMMA SameStart ==
  /\ Boot!Init = Starts!Init
  /\ [Boot!Next]_bootVars = [Starts!Next]_(Starts!vars)
  /\ Boot!MigratedInOrder = Starts!MigratedInOrder
<1>1. Boot!Init = Starts!Init
  BY DEF Boot!Init, Starts!Init, Boot!Empty, Starts!Empty, Boot!Files, Starts!Files
<1>2. Boot!Next = Starts!Next
  BY DEF Boot!Next, Starts!Next, Boot!Run, Starts!Run, Boot!Start, Starts!Start, Boot!Look,
     Starts!Look, Boot!Changes, Starts!Changes, Boot!ChangeFails, Starts!ChangeFails,
     Boot!Record, Starts!Record, Boot!EnsureBucket, Starts!EnsureBucket, Boot!Fails,
     Starts!Fails, Boot!Serve, Starts!Serve, Boot!Goes, Starts!Goes, Boot!Exits,
     Starts!Exits, Boot!Empty, Starts!Empty, Boot!Files, Starts!Files, Boot!File,
     Starts!File, Boot!Locked, Starts!Locked, Boot!vars, Starts!vars
<1>3. [Boot!Next]_bootVars = [Starts!Next]_(Starts!vars)
  BY <1>2 DEF bootVars, Starts!vars
<1>4. Boot!MigratedInOrder = Starts!MigratedInOrder
  BY DEF Boot!MigratedInOrder, Starts!MigratedInOrder, Boot!TypeOK, Starts!TypeOK,
     Boot!AppliedOnce, Starts!AppliedOnce, Boot!ServesMigrated, Starts!ServesMigrated,
     Boot!Files, Starts!Files, Boot!Steps, Starts!Steps
<1> QED BY <1>1, <1>2, <1>3, <1>4

LEMMA SameHistory ==
  /\ Boot!History!SchemaInit = Starts!History!SchemaInit
  /\ Boot!History!SchemaNext = Starts!History!SchemaNext
<1>1. Boot!History!SchemaInit = Starts!History!SchemaInit
  BY DEF Boot!History!SchemaInit, Starts!History!SchemaInit, Boot!History!Files,
     Starts!History!Files
<1>2. Boot!History!SchemaNext = Starts!History!SchemaNext
  BY DEF Boot!History!SchemaNext, Starts!History!SchemaNext, Boot!History!Files,
     Starts!History!Files, Boot!History!Apply, Starts!History!Apply, Boot!History!Listen,
     Starts!History!Listen, Boot!History!Stop, Starts!History!Stop, Boot!History!Complete,
     Starts!History!Complete
<1> QED BY <1>1, <1>2

LEMMA BootInitInv == ServicesInit => Starts!StartInv
  BY Starts!InitInv, SameStart, BootAssumption DEF ServicesInit

LEMMA BootStepKeeps == Starts!StartInv /\ [ServicesNext]_servicesVars => Starts!StartInv'
<1> SUFFICES ASSUME Starts!StartInv, [ServicesNext]_servicesVars PROVE Starts!StartInv'
  OBVIOUS
<1>1. [Starts!Next]_(Starts!vars)
  BY StepOfEach, SameStart
<1> QED BY <1>1, Starts!StepKeeps, BootAssumption

(* Wherever two starts stop beside each other, a recorded migration is     *)
(* applied once and the others not at all, and nobody listens before they  *)
(* all are (migrate.ts, server.ts).                                        *)
THEOREM MigratedOnce == ServicesSpec => []MigratedInOrder
<1>1. Starts!StartInv => MigratedInOrder
  BY Starts!InvImplies, SameStart DEF MigratedInOrder
<1> QED BY BootInitInv, BootStepKeeps, <1>1, PTL DEF ServicesSpec

(* The starts are seen from the database as Schema: one whole migration    *)
(* after the other.                                                        *)
THEOREM StartsRefineSchema == ServicesSpec => OneAfterTheOther
<1>1. ServicesInit => Boot!History!SchemaInit
  BY Starts!InitRefines, SameStart, SameHistory DEF ServicesInit
<1>2. Starts!StartInv /\ [ServicesNext]_servicesVars =>
        [Boot!History!SchemaNext]_<<bootApplied, Starts!Serving>>
  <2> SUFFICES ASSUME Starts!StartInv, [ServicesNext]_servicesVars
               PROVE  [Boot!History!SchemaNext]_<<bootApplied, Starts!Serving>>
    OBVIOUS
  <2>1. [Starts!Next]_(Starts!vars)
    BY StepOfEach, SameStart
  <2>2. [Starts!History!SchemaNext]_<<bootApplied, Starts!Serving>>
    BY <2>1, Starts!StepRefines, BootAssumption
  <2> QED BY <2>2, SameHistory
<1>3. ServicesSpec => Boot!History!SchemaInit /\ [][Boot!History!SchemaNext]_<<bootApplied, Starts!Serving>>
  BY BootInitInv, BootStepKeeps, <1>1, <1>2, PTL DEF ServicesSpec
<1>4. (Boot!History!SchemaInit /\ [][Boot!History!SchemaNext]_<<bootApplied, Starts!Serving>>) <=> OneAfterTheOther
  BY DEF OneAfterTheOther, Boot!OneAfterTheOther, Boot!History!SchemaSpec, Starts!Serving
<1> QED BY <1>3, <1>4

-----------------------------------------------------------------------------
(***************************************************************************)
(* The nightly backup.  That a checked copy is kept needs to know          *)
(* where it is while two databases change places; that the last good dump  *)
(* is kept, that the night which deletes old ones has its own.             *)
(***************************************************************************)
\* What stands in the directory.
DumpFile == [name : {"part", "dump", "unverified"}, content : Backup!Content]

Named(d, name) == bakFiles[d] # None /\ bakFiles[d].name = name

DumpFits ==
    /\ bakStep \in {"count", "dump"} => bakFiles[bakNight] = None
    /\ bakStep = "named" => Named(bakNight, "part")
    /\ bakStep \in {"restore", "check", "swap", "rename", "cleanup", "done"} => Named(bakNight, "dump")

CopyFits ==
    /\ bakStep \in {"check", "swap", "rename"} => bakIncoming # None /\ bakIncoming.of = bakNight
    /\ bakMain # None => bakMain.of \in bakVerified
    /\ bakVerified # {} /\ 0 \notin bakCut => bakMain # None \/ bakStep \in {"swap", "rename"}

CountFits ==
    /\ bakStep = "dump" => bakCounted <= bakLive
    /\ bakStep \in {"named", "restore"} => bakCounted <= bakFiles[bakNight].content.version
    /\ bakStep = "check" => bakCounted <= bakIncoming.content.version

NightFits ==
    /\ \A d \in Backup!Days : d > bakNight => bakFiles[d] = None /\ d \notin bakVerified
    /\ bakStep \in {"count", "dump", "named", "restore", "check"} => bakNight \notin bakVerified
    /\ bakStep \in {"swap", "rename", "cleanup", "done"} => bakNight \in bakVerified

BackupInv ==
    /\ Backup!TypeOK /\ NightFits /\ DumpFits /\ CopyFits /\ CountFits
    /\ Backup!LastDumpIsKept /\ Backup!DumpsAreVerified

\* What the invariant says of the properties.
LEMMA BackupInvImplies ==
  ASSUME BackupInv
  PROVE  Backup!CopyIsKept /\ Backup!DumpsAreVerified /\ Backup!LastDumpIsKept /\ Backup!SoundDumpPasses
<1>1. Backup!CopyIsKept
  <2> SUFFICES ASSUME bakVerified # {}, 0 \notin bakCut
               PROVE  \E copy \in {bakMain, bakIncoming} \ {None} : copy.of \in bakVerified
    BY DEF Backup!CopyIsKept
  <2>1. CASE bakMain # None
    BY <2>1 DEF BackupInv, CopyFits
  <2>2. CASE bakMain = None
    <3>1. bakStep \in {"swap", "rename"}
      BY <2>2 DEF BackupInv, CopyFits
    <3> QED BY <3>1 DEF BackupInv, CopyFits, NightFits
  <2> QED BY <2>1, <2>2
<1>2. Backup!SoundDumpPasses
  <2> SUFFICES ASSUME bakStep = "check", bakIncoming.content.sound
               PROVE  Backup!Passes
    BY DEF Backup!SoundDumpPasses
  <2>1. bakIncoming \in Backup!Copy /\ bakCounted \in 0..MaxVersion
    BY DEF BackupInv, CopyFits, Backup!TypeOK
  <2>2. bakCounted <= bakIncoming.content.version /\ bakIncoming.content.version \in Nat
    BY <2>1 DEF BackupInv, CountFits, Backup!Copy, Backup!Content
  <2> QED BY <2>1, <2>2, BackupAssumption DEF Backup!Passes, Backup!Counted
<1> QED BY <1>1, <1>2 DEF BackupInv

LEMMA BackupInitInv ==
  ASSUME Backup!Init
  PROVE  BackupInv
<1>1. Backup!TypeOK
  BY BackupAssumption DEF Backup!Init, Backup!TypeOK, Backup!Days, Backup!Steps
<1>2. NightFits /\ DumpFits /\ CopyFits /\ CountFits
  BY BackupAssumption DEF Backup!Init, NightFits, DumpFits, CopyFits, CountFits, Named,
    Backup!Days
<1>3. Backup!LastDumpIsKept /\ Backup!DumpsAreVerified
  BY DEF Backup!Init, Backup!LastDumpIsKept, Backup!DumpsAreVerified
<1> QED BY <1>1, <1>2, <1>3 DEF BackupInv

\* A deployment may come at any step: what is counted is no more than what is live.
LEMMA BackupDeployKeeps ==
  ASSUME BackupInv, Backup!Deploy
  PROVE  BackupInv'
<1>1. bakLive' = bakLive + 1 /\ bakLive < MaxVersion
      /\ UNCHANGED <<bakNight, bakStep, bakCounted, bakFiles, bakMain, bakIncoming, bakVerified, bakCut>>
  BY DEF Backup!Deploy
<1>2. Backup!TypeOK'
  BY <1>1, BackupAssumption DEF BackupInv, Backup!TypeOK
<1>3. bakCounted \in Nat /\ bakLive \in Nat
  BY BackupAssumption DEF BackupInv, Backup!TypeOK
<1>4. NightFits' /\ DumpFits' /\ CopyFits' /\ CountFits'
  BY <1>1, <1>3 DEF BackupInv, NightFits, DumpFits, CopyFits, CountFits, Named
<1>5. Backup!LastDumpIsKept' /\ Backup!DumpsAreVerified'
  BY <1>1 DEF BackupInv, Backup!LastDumpIsKept, Backup!DumpsAreVerified
<1> QED BY <1>2, <1>4, <1>5 DEF BackupInv

\* The next night has no dump yet and has not been checked.
LEMMA BackupNextNightKeeps ==
  ASSUME BackupInv, Backup!NextNight
  PROVE  BackupInv'
<1>1. /\ bakStep \in {"off", "done"} /\ bakNight < Nights /\ bakNight' = bakNight + 1 /\ bakStep' = "count"
      /\ UNCHANGED <<bakLive, bakCounted, bakFiles, bakMain, bakIncoming, bakVerified, bakCut>>
  BY DEF Backup!NextNight
<1>2. bakNight \in Nat /\ bakNight + 1 \in Backup!Days /\ Backup!Days \subseteq Nat
  BY <1>1, BackupAssumption DEF BackupInv, Backup!TypeOK, Backup!Days
<1>3. Backup!TypeOK'
  BY <1>1, <1>2 DEF BackupInv, Backup!TypeOK, Backup!Steps
<1>4. NightFits' /\ DumpFits' /\ CopyFits' /\ CountFits'
  BY <1>1, <1>2 DEF BackupInv, NightFits, DumpFits, CopyFits, CountFits, Named
<1>5. Backup!LastDumpIsKept'
  BY <1>1 DEF BackupInv, Backup!LastDumpIsKept
<1>6. Backup!DumpsAreVerified'
  BY <1>1, <1>2 DEF BackupInv, Backup!DumpsAreVerified
<1> QED BY <1>3, <1>4, <1>5, <1>6 DEF BackupInv

LEMMA BackupCountLiveKeeps ==
  ASSUME BackupInv, Backup!CountLive
  PROVE  BackupInv'
<1>1. /\ bakStep = "count" /\ bakCounted' = bakLive /\ bakStep' = "dump"
      /\ UNCHANGED <<bakNight, bakLive, bakFiles, bakMain, bakIncoming, bakVerified, bakCut>>
  BY DEF Backup!CountLive
<1>2. Backup!TypeOK' /\ bakLive \in Nat
  BY <1>1, BackupAssumption DEF BackupInv, Backup!TypeOK, Backup!Steps
<1>3. NightFits' /\ DumpFits' /\ CopyFits' /\ CountFits'
  BY <1>1, <1>2 DEF BackupInv, NightFits, DumpFits, CopyFits, CountFits, Named
<1>4. Backup!LastDumpIsKept' /\ Backup!DumpsAreVerified'
  BY <1>1 DEF BackupInv, Backup!LastDumpIsKept, Backup!DumpsAreVerified
<1> QED BY <1>2, <1>3, <1>4 DEF BackupInv

\* A step that changes the file of a night that has not been checked.
LEMMA BackupOwnFile ==
  ASSUME BackupInv, NEW file \in DumpFile, bakNight \notin bakVerified,
         bakFiles' = [bakFiles EXCEPT ![bakNight] = file]
  PROVE  /\ bakFiles' \in [Backup!Days -> DumpFile \cup {None}] /\ bakFiles'[bakNight] = file
         /\ \A d \in Backup!Days : d # bakNight => bakFiles'[d] = bakFiles[d]
         /\ file # None
         /\ bakVerified' = bakVerified => Backup!LastDumpIsKept'
<1>1. bakFiles \in [Backup!Days -> DumpFile \cup {None}] /\ bakNight \in Backup!Days /\ bakVerified \in SUBSET Backup!Days
  BY DEF BackupInv, Backup!TypeOK, DumpFile
<1>2. /\ bakFiles' \in [Backup!Days -> DumpFile \cup {None}] /\ bakFiles'[bakNight] = file
      /\ \A d \in Backup!Days : d # bakNight => bakFiles'[d] = bakFiles[d]
  BY <1>1
<1>3. file # None
  BY BackupAssumption DEF DumpFile
<1>4. bakVerified' = bakVerified => Backup!LastDumpIsKept'
  BY <1>1, <1>2 DEF BackupInv, Backup!LastDumpIsKept
<1> QED BY <1>2, <1>3, <1>4

LEMMA BackupDumpLiveKeeps ==
  ASSUME BackupInv, NEW sound \in BOOLEAN, Backup!DumpLive(sound)
  PROVE  BackupInv'
<1> DEFINE file == [name |-> "part", content |-> [version |-> bakLive, sound |-> sound]]
<1>1. /\ bakStep = "dump" /\ bakStep' = "named" /\ bakFiles' = [bakFiles EXCEPT ![bakNight] = file]
      /\ UNCHANGED <<bakNight, bakLive, bakCounted, bakMain, bakIncoming, bakVerified, bakCut>>
  BY DEF Backup!DumpLive
<1>2. file \in DumpFile /\ file.name = "part" /\ file.content.version = bakLive
  BY DEF DumpFile, Backup!Content, BackupInv, Backup!TypeOK
<1>3. bakNight \notin bakVerified /\ bakCounted <= bakLive
  BY <1>1 DEF BackupInv, NightFits, CountFits
<1>4. /\ bakFiles' \in [Backup!Days -> DumpFile \cup {None}] /\ bakFiles'[bakNight] = file /\ file # None
      /\ \A d \in Backup!Days : d # bakNight => bakFiles'[d] = bakFiles[d]
      /\ Backup!LastDumpIsKept'
  BY <1>1, <1>2, <1>3, BackupOwnFile
<1>5. bakNight \in Backup!Days /\ bakNight \in Nat
  BY DEF BackupInv, Backup!TypeOK, Backup!Days
<1>6. Backup!TypeOK'
  BY <1>1, <1>4 DEF BackupInv, Backup!TypeOK, Backup!Steps, DumpFile
<1>7. NightFits' /\ DumpFits' /\ CopyFits' /\ CountFits'
  BY <1>1, <1>2, <1>3, <1>4, <1>5 DEF BackupInv, NightFits, DumpFits, CopyFits, CountFits, Named
<1>8. Backup!DumpsAreVerified'
  BY <1>1, <1>2, <1>4 DEF BackupInv, Backup!DumpsAreVerified
<1> QED BY <1>4, <1>6, <1>7, <1>8 DEF BackupInv

LEMMA BackupNameDumpKeeps ==
  ASSUME BackupInv, Backup!NameDump
  PROVE  BackupInv'
<1> DEFINE file == [bakFiles[bakNight] EXCEPT !.name = "dump"]
<1>1. /\ bakStep = "named" /\ bakStep' = "restore" /\ bakFiles' = [bakFiles EXCEPT ![bakNight] = file]
      /\ UNCHANGED <<bakNight, bakLive, bakCounted, bakMain, bakIncoming, bakVerified, bakCut>>
  BY DEF Backup!NameDump
<1>2. bakNight \in Backup!Days /\ bakNight \in Nat /\ bakFiles[bakNight] \in DumpFile
  BY <1>1 DEF BackupInv, Backup!TypeOK, Backup!Days, DumpFile, DumpFits, Named
<1>3. file \in DumpFile /\ file.name = "dump" /\ file.content = bakFiles[bakNight].content
  BY <1>2 DEF DumpFile
<1>4. bakNight \notin bakVerified /\ bakCounted <= bakFiles[bakNight].content.version
  BY <1>1 DEF BackupInv, NightFits, CountFits
<1>5. /\ bakFiles' \in [Backup!Days -> DumpFile \cup {None}] /\ bakFiles'[bakNight] = file /\ file # None
      /\ \A d \in Backup!Days : d # bakNight => bakFiles'[d] = bakFiles[d]
      /\ Backup!LastDumpIsKept'
  BY <1>1, <1>3, <1>4, BackupOwnFile
<1>6. Backup!TypeOK'
  BY <1>1, <1>5 DEF BackupInv, Backup!TypeOK, Backup!Steps, DumpFile
<1>7. NightFits' /\ DumpFits' /\ CopyFits' /\ CountFits'
  BY <1>1, <1>2, <1>3, <1>4, <1>5 DEF BackupInv, NightFits, DumpFits, CopyFits, CountFits, Named
<1>8. Backup!DumpsAreVerified'
  BY <1>1, <1>5 DEF BackupInv, Backup!DumpsAreVerified
<1> QED BY <1>5, <1>6, <1>7, <1>8 DEF BackupInv

LEMMA BackupRestoreKeeps ==
  ASSUME BackupInv, Backup!Restore
  PROVE  BackupInv'
<1> DEFINE copy == [of |-> bakNight, content |-> bakFiles[bakNight].content]
<1>1. /\ bakStep = "restore" /\ bakStep' = "check" /\ bakIncoming' = copy
      /\ UNCHANGED <<bakNight, bakLive, bakCounted, bakFiles, bakMain, bakVerified, bakCut>>
  BY DEF Backup!Restore, Backup!Dump
<1>2. bakNight \in Backup!Days /\ bakFiles[bakNight] \in DumpFile
  BY <1>1 DEF BackupInv, Backup!TypeOK, DumpFile, DumpFits, Named
<1>3. copy \in Backup!Copy /\ copy.of = bakNight /\ copy.content = bakFiles[bakNight].content /\ copy # None
  BY <1>2, BackupAssumption DEF DumpFile, Backup!Copy
<1>4. Backup!TypeOK'
  BY <1>1, <1>3 DEF BackupInv, Backup!TypeOK, Backup!Steps
<1>5. NightFits' /\ DumpFits' /\ CopyFits' /\ CountFits'
  BY <1>1, <1>3 DEF BackupInv, NightFits, DumpFits, CopyFits, CountFits, Named
<1>6. Backup!LastDumpIsKept' /\ Backup!DumpsAreVerified'
  BY <1>1 DEF BackupInv, Backup!LastDumpIsKept, Backup!DumpsAreVerified
<1> QED BY <1>4, <1>5, <1>6 DEF BackupInv

\* Tonight's dump is the one that was checked.
LEMMA BackupCheckKeeps ==
  ASSUME BackupInv, Backup!Check
  PROVE  BackupInv'
<1>1. /\ bakStep = "check" /\ bakStep' = "swap" /\ bakVerified' = bakVerified \cup {bakNight}
      /\ UNCHANGED <<bakNight, bakLive, bakCounted, bakFiles, bakMain, bakIncoming, bakCut>>
  BY DEF Backup!Check
<1>2. bakNight \in Backup!Days /\ bakNight \in Nat
  BY DEF BackupInv, Backup!TypeOK, Backup!Days
<1>3. Backup!TypeOK'
  BY <1>1, <1>2 DEF BackupInv, Backup!TypeOK, Backup!Steps
<1>4. NightFits' /\ DumpFits' /\ CopyFits' /\ CountFits'
  BY <1>1, <1>2 DEF BackupInv, NightFits, DumpFits, CopyFits, CountFits, Named
<1>5. Backup!LastDumpIsKept'
  BY <1>1 DEF BackupInv, DumpFits, Named, Backup!LastDumpIsKept
<1>6. Backup!DumpsAreVerified'
  BY <1>1 DEF BackupInv, Backup!DumpsAreVerified
<1> QED BY <1>3, <1>4, <1>5, <1>6 DEF BackupInv

\* Between the two, the checked copy is in the scratch database.
LEMMA BackupSwapKeeps ==
  ASSUME BackupInv, Backup!DropYesterdays \/ Backup!Rename
  PROVE  BackupInv'
<1>1. UNCHANGED <<bakNight, bakLive, bakCounted, bakFiles, bakVerified, bakCut>>
  BY DEF Backup!DropYesterdays, Backup!Rename
<1>2. CASE Backup!DropYesterdays
  <2>1. bakStep = "swap" /\ bakStep' = "rename" /\ bakMain' = None /\ bakIncoming' = bakIncoming
    BY <1>2 DEF Backup!DropYesterdays
  <2>2. Backup!TypeOK'
    BY <1>1, <2>1 DEF BackupInv, Backup!TypeOK, Backup!Steps
  <2>3. NightFits' /\ DumpFits' /\ CopyFits' /\ CountFits'
    BY <1>1, <2>1 DEF BackupInv, NightFits, DumpFits, CopyFits, CountFits, Named
  <2>4. Backup!LastDumpIsKept' /\ Backup!DumpsAreVerified'
    BY <1>1, <2>1 DEF BackupInv, Backup!LastDumpIsKept, Backup!DumpsAreVerified
  <2> QED BY <2>2, <2>3, <2>4 DEF BackupInv
<1>3. CASE Backup!Rename
  <2>1. bakStep = "rename" /\ bakStep' = "cleanup" /\ bakMain' = bakIncoming /\ bakIncoming' = None
    BY <1>3 DEF Backup!Rename
  <2>2. Backup!TypeOK'
    BY <1>1, <2>1 DEF BackupInv, Backup!TypeOK, Backup!Steps
  <2>3. NightFits' /\ DumpFits' /\ CopyFits' /\ CountFits'
    BY <1>1, <2>1 DEF BackupInv, NightFits, DumpFits, CopyFits, CountFits, Named
  <2>4. Backup!LastDumpIsKept' /\ Backup!DumpsAreVerified'
    BY <1>1, <2>1 DEF BackupInv, Backup!LastDumpIsKept, Backup!DumpsAreVerified
  <2> QED BY <2>2, <2>3, <2>4 DEF BackupInv
<1> QED BY <1>2, <1>3

\* Old dumps go on a night that has a good one, which is too young to go.
LEMMA BackupCleanupKeeps ==
  ASSUME BackupInv, Backup!Cleanup
  PROVE  BackupInv'
<1>1. /\ bakStep = "cleanup" /\ bakStep' = "done" /\ bakFiles' = Backup!Kept(bakFiles)
      /\ UNCHANGED <<bakNight, bakLive, bakCounted, bakMain, bakIncoming, bakVerified, bakCut>>
  BY DEF Backup!Cleanup
<1>2. bakNight \in Backup!Days /\ bakNight \in Nat /\ ~(bakNight + KeepDays <= bakNight) /\ Backup!Days \subseteq Nat
  BY BackupAssumption DEF BackupInv, Backup!TypeOK, Backup!Days
<1>3. bakFiles \in [Backup!Days -> DumpFile \cup {None}]
  BY DEF BackupInv, Backup!TypeOK, DumpFile
<1>4. /\ bakFiles' \in [Backup!Days -> DumpFile \cup {None}] /\ bakFiles'[bakNight] = bakFiles[bakNight]
      /\ \A d \in Backup!Days : bakFiles'[d] \in {bakFiles[d], None}
  BY <1>1, <1>2, <1>3 DEF Backup!Kept
<1>5. Backup!TypeOK'
  BY <1>1, <1>4 DEF BackupInv, Backup!TypeOK, Backup!Steps, DumpFile
<1>6. NightFits' /\ DumpFits' /\ CopyFits' /\ CountFits'
  BY <1>1, <1>4 DEF BackupInv, NightFits, DumpFits, CopyFits, CountFits, Named
<1>7. Backup!LastDumpIsKept'
  BY <1>1, <1>2, <1>4 DEF BackupInv, DumpFits, NightFits, Named, Backup!LastDumpIsKept
<1>8. Backup!DumpsAreVerified'
  BY <1>1, <1>4 DEF BackupInv, Backup!DumpsAreVerified, NightFits
<1> QED BY <1>5, <1>6, <1>7, <1>8 DEF BackupInv

\* The trap takes its good name from a dump that was not checked, and from no other.
LEMMA BackupTrapKeeps ==
  ASSUME BackupInv, Backup!Trap
  PROVE  BackupInv'
<1>1. /\ bakStep \notin {"off", "done"} /\ bakStep' = "off"
      /\ UNCHANGED <<bakNight, bakLive, bakCounted, bakMain, bakVerified>>
  BY DEF Backup!Trap
<1> DEFINE file == Backup!SetAside(bakFiles[bakNight])
<1>2. bakFiles \in [Backup!Days -> DumpFile \cup {None}] /\ bakNight \in Backup!Days /\ bakNight \in Nat
      /\ bakCut \in SUBSET (Backup!Days \cup {0}) /\ bakVerified \in SUBSET Backup!Days
      /\ bakIncoming \in Backup!Copy \cup {None}
  BY DEF BackupInv, Backup!TypeOK, DumpFile, Backup!Days
<1>3. /\ file \in DumpFile \cup {None}
      /\ bakStep \in {"restore", "check"} /\ file # None => file.name = "unverified"
      /\ bakStep \notin {"restore", "check"} => file = bakFiles[bakNight]
      /\ file = None <=> bakFiles[bakNight] = None
  BY <1>2, BackupAssumption DEF Backup!SetAside, DumpFile
<1>4. bakFiles' = Backup!NoParts([bakFiles EXCEPT ![bakNight] = file])
  BY DEF Backup!Trap
<1>5. /\ bakFiles' \in [Backup!Days -> DumpFile \cup {None}]
      /\ \A d \in Backup!Days : d # bakNight => bakFiles'[d] \in {bakFiles[d], None}
      /\ \A d \in Backup!Days : d # bakNight /\ Named(d, "dump") => bakFiles'[d] = bakFiles[d]
      /\ bakFiles'[bakNight] \in {file, None}
      /\ file # None /\ file.name = "dump" => bakFiles'[bakNight] = file
      /\ file # None /\ file.name = "part" => bakFiles'[bakNight] = None
  BY <1>2, <1>3, <1>4 DEF Backup!NoParts, Named
<1>6. bakIncoming' \in Backup!Copy \cup {None}
  BY <1>2 DEF Backup!Trap
<1>7. bakCut' \in SUBSET (Backup!Days \cup {0}) /\ bakCut \subseteq bakCut' /\ (Backup!BeforeRename => 0 \in bakCut')
  BY <1>2 DEF Backup!Trap
<1>8. Backup!TypeOK'
  BY <1>1, <1>5, <1>6, <1>7 DEF BackupInv, Backup!TypeOK, Backup!Steps, DumpFile
<1>9. NightFits'
  BY <1>1, <1>2, <1>5 DEF BackupInv, NightFits
<1>10. DumpFits' /\ CountFits'
  BY <1>1 DEF DumpFits, CountFits
<1>11. CopyFits'
  BY <1>1, <1>7 DEF BackupInv, CopyFits, Backup!BeforeRename
<1>12. Backup!LastDumpIsKept'
  <2> SUFFICES ASSUME bakVerified # {}
               PROVE  \E d \in bakVerified : bakFiles'[d] # None /\ bakFiles'[d].name = "dump"
    BY <1>1 DEF Backup!LastDumpIsKept
  <2>1. PICK d \in bakVerified : Named(d, "dump")
    BY DEF BackupInv, Backup!LastDumpIsKept, Named
  <2>2. CASE d # bakNight
    BY <1>2, <1>5, <2>1, <2>2 DEF Named
  <2>3. CASE d = bakNight
    <3>1. bakStep \notin {"restore", "check"}
      BY <2>3 DEF BackupInv, NightFits
    <3>2. bakFiles'[bakNight] = bakFiles[bakNight]
      BY <1>3, <1>5, <2>1, <2>3, <3>1 DEF Named
    <3> QED BY <2>1, <2>3, <3>2 DEF Named
  <2> QED BY <2>2, <2>3
<1>13. Backup!DumpsAreVerified'
  <2> SUFFICES ASSUME NEW d \in Backup!Days, d \notin bakVerified, d \notin bakCut,
                      bakFiles'[d] # None, bakFiles'[d].name = "dump"
               PROVE  FALSE
    BY <1>1, <1>7 DEF Backup!DumpsAreVerified
  <2>1. CASE d # bakNight
    BY <1>1, <1>5, <2>1 DEF BackupInv, Backup!DumpsAreVerified
  <2>2. CASE d = bakNight
    <3>1. bakFiles'[bakNight] = file /\ file # None /\ file.name = "dump"
      BY <1>5, <2>2
    <3>2. bakStep \notin {"restore", "check"} /\ Named(bakNight, "dump")
      BY <1>3, <3>1 DEF Named
    <3>3. bakStep \in {"count", "dump", "named", "restore", "check"}
      BY <1>1, <2>2 DEF BackupInv, NightFits, Backup!TypeOK, Backup!Steps
    <3> QED BY <3>2, <3>3 DEF BackupInv, DumpFits, Named
  <2> QED BY <2>1, <2>2
<1> QED BY <1>8, <1>9, <1>10, <1>11, <1>12, <1>13 DEF BackupInv

\* A cut leaves everything as it is, and is remembered.
LEMMA BackupPowerCutKeeps ==
  ASSUME BackupInv, Backup!PowerCut
  PROVE  BackupInv'
<1>1. /\ bakStep \notin {"off", "done"} /\ bakStep' = "off"
      /\ UNCHANGED <<bakNight, bakLive, bakCounted, bakFiles, bakMain, bakIncoming, bakVerified>>
      /\ bakCut' = bakCut \cup {bakNight} \cup IF Backup!BeforeRename THEN {0} ELSE {}
  BY DEF Backup!PowerCut
<1>2. bakNight \in Backup!Days /\ bakCut' \in SUBSET (Backup!Days \cup {0}) /\ bakCut \subseteq bakCut' /\ bakNight \in bakCut'
      /\ (Backup!BeforeRename => 0 \in bakCut')
  BY <1>1 DEF BackupInv, Backup!TypeOK
<1>3. Backup!TypeOK'
  BY <1>1, <1>2 DEF BackupInv, Backup!TypeOK, Backup!Steps
<1>4. NightFits' /\ DumpFits' /\ CopyFits' /\ CountFits'
  BY <1>1, <1>2 DEF BackupInv, NightFits, DumpFits, CopyFits, CountFits, Backup!BeforeRename
<1>5. Backup!LastDumpIsKept'
  BY <1>1 DEF BackupInv, Backup!LastDumpIsKept
<1>6. Backup!DumpsAreVerified'
  BY <1>1, <1>2 DEF BackupInv, Backup!DumpsAreVerified
<1> QED BY <1>3, <1>4, <1>5, <1>6 DEF BackupInv

LEMMA BackupStepKeeps ==
  BackupInv /\ [Backup!Next]_backupVars => BackupInv'
<1> SUFFICES ASSUME BackupInv, [Backup!Next]_backupVars
             PROVE  BackupInv'
  OBVIOUS
<1>1. CASE UNCHANGED backupVars
  <2>1. UNCHANGED <<bakNight, bakLive, bakStep, bakCounted, bakFiles, bakMain, bakIncoming, bakVerified, bakCut>>
    BY <1>1 DEF backupVars
  <2> QED BY <2>1 DEF BackupInv, Backup!TypeOK, NightFits, DumpFits, CopyFits, CountFits, Named,
                      Backup!LastDumpIsKept, Backup!DumpsAreVerified
<1>2. CASE Backup!Over
  BY <1>1, <1>2 DEF Backup!Over, Backup!vars, backupVars
<1> QED BY <1>1, <1>2, BackupDeployKeeps, BackupNextNightKeeps, BackupCountLiveKeeps,
    BackupDumpLiveKeeps, BackupNameDumpKeeps,
           BackupRestoreKeeps, BackupCheckKeeps, BackupSwapKeeps, BackupCleanupKeeps,
           BackupTrapKeeps, BackupPowerCutKeeps
           DEF Backup!Next

(* Whatever night fails: the last good dump does not age out, and no       *)
(* deployment makes a sound dump fail.  As long as no run stops within its *)
(* swap, the backup container keeps a copy that passed the check: one that *)
(* does leaves its copy to be dropped by the next.  A good name means a    *)
(* checked dump, but for the nights of a power cut (backup-db.sh).         *)
THEOREM BackupsAreKept == ServicesSpec => []BackupIsSound
<1>1. ServicesInit => BackupInv
  BY BackupInitInv DEF ServicesInit
<1>2. BackupInv /\ [ServicesNext]_servicesVars => BackupInv'
  BY StepOfEach, BackupStepKeeps
<1>3. BackupInv => BackupIsSound
  BY BackupInvImplies DEF BackupInv, BackupIsSound
<1> QED BY <1>1, <1>2, <1>3, PTL DEF ServicesSpec

=============================================================================
