------------------------------ MODULE Services ------------------------------
(***************************************************************************)
(* What the backend does beside the documents, with the pool its requests  *)
(* share.  The components share no state: `part` is the one that moves,    *)
(* and the others stay at one of their initial states.                     *)
(***************************************************************************)
EXTENDS ConnectionPool

CONSTANTS
    Errors, PageErrors, Handlers, MaxReports, MaxPerWindow, Window, MaxHeld,
    Monitors, CacheTime, CheckTimeout,    \* who asks for the health
    Processes, Migrations, MaxFailures,
    Nights, KeepDays, MaxVersion

VARIABLES
    part,
    errGroups, errRecording, errPage, errAge, errSentInWindow, errHeld, errFlushTimer,
    errPosted, errTold, errMuddled,
    hcDependency, hcCached, hcInFlight, hcWaiting, hcAnswers, hcLastOk, hcSinceCheck,
    bootApplied, bootRecorded, bootAt, bootPending, bootBucket, bootFailures,
    bakNight, bakLive, bakStep, bakCounted, bakFiles, bakMain, bakIncoming, bakVerified,
    bakCut

Log == INSTANCE ErrorLog WITH
    groups <- errGroups,
    recording <- errRecording, page <- errPage, age <- errAge,
    sentInWindow <- errSentInWindow, held <- errHeld, flushTimer <- errFlushTimer,
    posted <- errPosted, told <- errTold, muddled <- errMuddled

Health == INSTANCE HealthCheck WITH
    Requests <- Monitors, dependency <- hcDependency,
    cached <- hcCached, inFlight <- hcInFlight, waiting <- hcWaiting,
    answers <- hcAnswers, lastOk <- hcLastOk, sinceCheck <- hcSinceCheck

Boot == INSTANCE Startup WITH
    applied <- bootApplied,
    recorded <- bootRecorded, at <- bootAt, pending <- bootPending,
    bucket <- bootBucket, failures <- bootFailures

Backup == INSTANCE NightlyBackup WITH
    night <- bakNight, live <- bakLive,
    step <- bakStep, counted <- bakCounted, files <- bakFiles, main <- bakMain,
    incoming <- bakIncoming, verified <- bakVerified, cut <- bakCut

errorsVars == <<errGroups, errRecording, errPage, errAge, errSentInWindow, errHeld,
    errFlushTimer, errPosted, errTold, errMuddled>>
healthVars == <<hcDependency, hcCached, hcInFlight, hcWaiting, hcAnswers, hcLastOk,
    hcSinceCheck>>
bootVars == <<bootApplied, bootRecorded, bootAt, bootPending, bootBucket, bootFailures>>
backupVars == <<bakNight, bakLive, bakStep, bakCounted, bakFiles, bakMain, bakIncoming,
    bakVerified, bakCut>>
\* What a deployment sets: a window and a message in it, periods that may be zero,
\* and nothing that could be taken for None.
ASSUME LogAssumption == MaxPerWindow \in Nat \ {0} /\ Window \in Nat \ {0} /\ MaxHeld \in Nat
ASSUME HealthAssumption ==
    /\ CacheTime \in Nat /\ CheckTimeout \in Nat
    /\ None \notin [report : Health!Report, age : 0..CacheTime]
    /\ None \notin Health!Status
ASSUME BootAssumption == Migrations \in Nat /\ MaxFailures \in Nat
ASSUME BackupAssumption ==
    /\ Nights \in Nat \ {0} /\ KeepDays \in Nat \ {0} /\ MaxVersion \in Nat
    /\ None \notin [name : {"part", "dump", "unverified"}, content : Backup!Content]
    /\ None \notin Backup!Copy

servicesVars == <<part, vars, errorsVars, healthVars, bootVars, backupVars>>

Parts == {"pool", "errors", "health", "boot", "backup"}

ServicesInit ==
    /\ part \in Parts
    /\ Init
    /\ Log!Init
    /\ Health!Init
    /\ Boot!Init
    /\ Backup!Init

\* A step of one component leaves the others as they are.
Rest ==
    /\ UNCHANGED part
    /\ IF part = "pool" THEN TRUE ELSE UNCHANGED vars
    /\ IF part = "errors" THEN TRUE ELSE UNCHANGED errorsVars
    /\ IF part = "health" THEN TRUE ELSE UNCHANGED healthVars
    /\ IF part = "boot" THEN TRUE ELSE UNCHANGED bootVars
    /\ IF part = "backup" THEN TRUE ELSE UNCHANGED backupVars

PoolArrive(r, op) == part = "pool" /\ Arrive(r, op) /\ Rest
PoolConnect(r) == part = "pool" /\ Connect(r) /\ Rest
PoolTimeOut(r) == part = "pool" /\ TimeOut(r) /\ Rest
PoolWork(r) == part = "pool" /\ Work(r) /\ Rest
PoolFailure(r) == part = "pool" /\ Failure(r) /\ Rest
PoolEnd(r) == part = "pool" /\ End(r) /\ Rest
Stops == part # "pool" /\ UNCHANGED servicesVars
PoolConnectionDrops(c) == part = "pool" /\ IdleConnectionDrops(c) /\ Rest


LogOccurrence(h) == part = "errors" /\ Log!Occurrence(h) /\ Rest
LogPage == part = "errors" /\ Log!Page /\ Rest
LogAdmin == part = "errors" /\ Log!Admin /\ Rest
LogTick == part = "errors" /\ Log!Tick /\ Rest
LogFlushHeld == part = "errors" /\ Log!FlushHeld /\ Rest

HealthAsk(q) == part = "health" /\ Health!Ask(q) /\ Rest
HealthProbeAnswers(d) == part = "health" /\ Health!ProbeAnswers(d) /\ Rest
HealthProbeTimesOut(d) == part = "health" /\ Health!ProbeTimesOut(d) /\ Rest
HealthCheckEnds == part = "health" /\ Health!CheckEnds /\ Rest
HealthChanges(d, how) == part = "health" /\ Health!Changes(d, how) /\ Rest
HealthTick == part = "health" /\ Health!Tick /\ Rest

BootRun(p) == part = "boot" /\ Boot!Run(p) /\ Rest
BootFails(p) == part = "boot" /\ Boot!Fails(p) /\ Rest
BootServe == part = "boot" /\ Boot!Serve /\ Rest

BackupDeploy == part = "backup" /\ Backup!Deploy /\ Rest
BackupNextNight == part = "backup" /\ Backup!NextNight /\ Rest
BackupCountLive == part = "backup" /\ Backup!CountLive /\ Rest
BackupDumpLive(sound) == part = "backup" /\ Backup!DumpLive(sound) /\ Rest
BackupNameDump == part = "backup" /\ Backup!NameDump /\ Rest
BackupRestore == part = "backup" /\ Backup!Restore /\ Rest
BackupCheck == part = "backup" /\ Backup!Check /\ Rest
BackupDropYesterdays == part = "backup" /\ Backup!DropYesterdays /\ Rest
BackupRename == part = "backup" /\ Backup!Rename /\ Rest
BackupCleanup == part = "backup" /\ Backup!Cleanup /\ Rest
BackupTrap == part = "backup" /\ Backup!Trap /\ Rest
BackupPowerCut == part = "backup" /\ Backup!PowerCut /\ Rest
BackupOver == part = "backup" /\ Backup!Over /\ Rest

ServicesNext ==
    \/ \E r \in Requests, op \in Ops : PoolArrive(r, op)
    \/ Stops
    \/ \E r \in Requests :
          PoolConnect(r) \/ PoolTimeOut(r) \/ PoolWork(r) \/ PoolFailure(r)
          \/ PoolEnd(r)
    \/ \E c \in Conns : PoolConnectionDrops(c)
    \/ \E h \in Handlers : LogOccurrence(h)
    \/ LogPage \/ LogAdmin \/ LogTick \/ LogFlushHeld
    \/ \E q \in Monitors : HealthAsk(q)
    \/ \E d \in Health!Dependencies : HealthProbeAnswers(d) \/ HealthProbeTimesOut(d)
    \/ HealthCheckEnds \/ HealthTick
    \/ \E d \in Health!Dependencies, how \in Health!Status \cup {"hangs"} :
          HealthChanges(d, how)
    \/ \E p \in Processes : BootRun(p) \/ BootFails(p)
    \/ BootServe
    \/ BackupDeploy \/ BackupNextNight \/ BackupCountLive \/ BackupNameDump
       \/ BackupRestore \/ BackupCheck \/ BackupDropYesterdays \/ BackupRename
       \/ BackupCleanup \/ BackupTrap \/ BackupPowerCut \/ BackupOver
    \/ \E sound \in BOOLEAN : BackupDumpLive(sound)

ServicesFairness ==
    /\ \A r \in Requests : WF_vars(PoolConnect(r)) /\ WF_vars(PoolWork(r))
                         /\ WF_vars(PoolEnd(r))
    /\ WF_errorsVars(LogTick) /\ WF_errorsVars(LogFlushHeld)
    /\ WF_healthVars(HealthTick) /\ WF_healthVars(HealthCheckEnds)
    /\ \A d \in Health!Dependencies : WF_healthVars(HealthProbeTimesOut(d))
    /\ \A p \in Processes : WF_bootVars(BootRun(p))

ServicesSpec == ServicesInit /\ [][ServicesNext]_servicesVars /\ ServicesFairness
-----------------------------------------------------------------------------
(* What the components guarantee.  Each part is explained where it is defined. *)

\* Whichever requests record it, one after the other, an error is announced once
\* for each time it is opened: but for one that two of them, or one and the
\* administrator, changed at once.
AnnouncedOnce == part = "errors" => Log!TypeOK /\ Log!AnnouncedOnce

\* No span of a window sees more than two windows of messages, and what was held
\* back is summed up in the end, however late the timer.
NotificationsKeepPace == [](part = "errors" => Log!RateBounded) /\ Log!HeldIsFlushed

\* No monitor is told that a dependency is well when it has long not been, and the
\* probes are as rare as the cache allows.
HealthIsCurrent ==
    /\ [](part = "health" => Health!TypeOK)
    /\ Health!OutageIsNoticed /\ Health!CostIsBounded

\* Wherever two starts stop beside each other, a recorded migration is applied
\* once and the others not at all, and nobody listens before they all are.
MigratedInOrder == part = "boot" => Boot!MigratedInOrder

\* The starts are seen from the database as Schema: one whole migration after the
\* other.
OneAfterTheOther == Boot!OneAfterTheOther

\* A process that lost the race, or was stopped, is up in the end, and a probe that
\* hangs keeps nobody waiting.
StartsAndChecksEnd ==
    /\ part = "boot" => Boot!EveryStartSucceeds
    /\ Health!EveryRequestAnswered

\* Whatever night fails, a verified dump is left and a deployment does not make a
\* sound one look broken; as long as no run stops within its swap, a verified copy is
\* left; a file named as a good dump is one, but for a night of a power cut.
BackupIsSound ==
    part = "backup" => /\ Backup!TypeOK
                       /\ Backup!CopyIsKept /\ Backup!LastDumpIsKept
                       /\ Backup!DumpsAreVerified /\ Backup!SoundDumpPasses
=============================================================================
