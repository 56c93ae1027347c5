------------------------------ MODULE Startup ------------------------------
(***************************************************************************)
(* The backend starts: it runs the migrations the database does not know   *)
(* of, in the order of their names and each in a transaction, makes sure   *)
(* the bucket is there, and only then listens.  A start that fails ends    *)
(* the process, and the container is started again.  Two processes may     *)
(* start at once, when a deployment replaces one by the other; a process   *)
(* may stop anywhere.                                                      *)
(***************************************************************************)
EXTENDS Naturals, FiniteSets

CONSTANTS
    Processes,
    Migrations,   \* the number of files, in the order of their names
    MaxFailures   \* bound: processes stopped, databases gone

VARIABLES
    applied,      \* how often the changes of a file are committed
    recorded,     \* schema_migrations
    at,           \* where each process is, at which file
    pending,      \* what the transaction of a process has done
    bucket,       \* whether the bucket exists
    failures

vars == <<applied, recorded, at, pending, bucket, failures>>

Files == 1..Migrations
Steps == {"down", "looking", "begun", "changed", "bucket", "listening"}
Empty == [changes |-> {}, records |-> {}]

TypeOK ==
    /\ applied \in [Files -> Nat] /\ recorded \subseteq Files
    /\ at \in [Processes -> [step : Steps, file : 0..(Migrations + 1)]]
    /\ pending \in [Processes -> [changes : SUBSET Files, records : SUBSET Files]]
    /\ bucket \in BOOLEAN /\ failures \in 0..MaxFailures

\* A database that has had the first files already, or none.
Init ==
    /\ \E known \in 0..Migrations :
         /\ recorded = 1..known
         /\ applied = [f \in Files |-> IF f <= known THEN 1 ELSE 0]
    /\ at = [p \in Processes |-> [step |-> "down", file |-> 0]]
    /\ pending = [p \in Processes |-> Empty]
    /\ bucket = FALSE /\ failures = 0

Goes(p, step, file) == at' = [at EXCEPT ![p] = [step |-> step, file |-> file]]
File(p) == at[p].file

Start(p) ==
    /\ at[p].step = "down"
    /\ Goes(p, "looking", 1)
    /\ UNCHANGED <<applied, recorded, pending, bucket, failures>>

\* A slip: what was run before is run again.
LookNot(p) ==
    /\ at[p].step = "looking"
    /\ IF File(p) > Migrations THEN Goes(p, "bucket", 0) ELSE Goes(p, "begun", File(p))
    /\ UNCHANGED <<applied, recorded, pending, bucket, failures>>

\* The directory is read once; the table is asked for each file.
Look(p) ==
    /\ at[p].step = "looking"
    /\ CASE File(p) > Migrations     -> Goes(p, "bucket", 0)
         [] File(p) \in recorded     -> Goes(p, "looking", File(p) + 1)
         [] OTHER                    -> Goes(p, "begun", File(p))
    /\ UNCHANGED <<applied, recorded, pending, bucket, failures>>

\* The file's statements lock the tables they change until the commit.
Locked(f) == \E p \in Processes : f \in pending[p].changes \cup pending[p].records

\* A slip: what the file changes is committed by itself.
ChangesByItself(p) ==
    /\ at[p].step = "begun" /\ ~Locked(File(p))
    /\ applied' = [applied EXCEPT ![File(p)] = @ + 1]
    /\ Goes(p, "changed", File(p))
    /\ UNCHANGED <<recorded, pending, bucket, failures>>

Changes(p) ==
    /\ at[p].step = "begun" /\ ~Locked(File(p))
    /\ pending' = [pending EXCEPT ![p].changes = {File(p)}]
    /\ Goes(p, "changed", File(p))
    /\ UNCHANGED <<applied, recorded, bucket, failures>>

\* A slip: the start goes on past a migration that failed.
GoesOn(p) ==
    /\ pending' = [pending EXCEPT ![p] = Empty]
    /\ Goes(p, "looking", File(p) + 1)

\* ROLLBACK, then the error ends the process.
Exits(p) ==
    /\ pending' = [pending EXCEPT ![p] = Empty]
    /\ Goes(p, "down", 0)

\* INSERT and COMMIT; the file's name is the key, a second one is refused.
Record(p) ==
    /\ at[p].step = "changed"
    /\ IF File(p) \in recorded
         THEN Exits(p) /\ UNCHANGED <<applied, recorded>>
         ELSE /\ applied' = [f \in Files |-> IF f \in pending[p].changes THEN applied[f] + 1 ELSE applied[f]]
              /\ recorded' = recorded \cup {File(p)}
              /\ pending' = [pending EXCEPT ![p] = Empty]
              /\ Goes(p, "looking", File(p) + 1)
    /\ UNCHANGED <<bucket, failures>>

\* A file a second process has applied may fail before it is recorded again.
ChangeFails(p) ==
    /\ at[p].step = "begun" /\ File(p) \in recorded
    /\ Exits(p)
    /\ UNCHANGED <<applied, recorded, bucket, failures>>

\* ensureBucketExistsServ: asks, and creates what is not there.
EnsureBucket(p) ==
    /\ at[p].step = "bucket"
    /\ bucket' = TRUE /\ Goes(p, "listening", 0)
    /\ UNCHANGED <<applied, recorded, pending, failures>>

\* The database or the storage cannot be reached, or the process is stopped.
Fails(p) ==
    /\ at[p].step # "down" /\ failures < MaxFailures
    /\ failures' = failures + 1
    /\ Exits(p)
    /\ UNCHANGED <<applied, recorded, bucket>>

\* Nothing is left to do, but to be stopped.
Serve == (\A p \in Processes : at[p].step = "listening") /\ UNCHANGED vars

Run(p) == Start(p) \/ Look(p) \/ Changes(p) \/ ChangeFails(p) \/ Record(p) \/ EnsureBucket(p)

Next == (\E p \in Processes : Run(p) \/ Fails(p)) \/ Serve

\* restart: unless-stopped.
Spec == Init /\ [][Next]_vars /\ \A p \in Processes : WF_vars(Run(p))
-----------------------------------------------------------------------------
(* What a start guarantees. *)

\* Whatever two starts do beside each other and wherever they stop, a migration is
\* applied once if it is recorded, and not at all before.
AppliedOnce == \A f \in Files : applied[f] = IF f \in recorded THEN 1 ELSE 0

\* None is applied before the ones it builds on, and no process listens on a
\* database that lacks one, or without a bucket.
ServesMigrated ==
    /\ \A f \in recorded : 1..f \subseteq recorded
    /\ (\E p \in Processes : at[p].step = "listening") => recorded = Files /\ bucket

\* A start finds, and leaves, a database migrated file by file.
MigratedInOrder == TypeOK /\ AppliedOnce /\ ServesMigrated

\* Its starts, however they interleave and wherever they stop, are seen from the
\* database as one migration after the other, each whole and once, and as processes
\* that listen once all are there.
History == INSTANCE Schema WITH
    schema <- applied, serving <- {p \in Processes : at[p].step = "listening"}
OneAfterTheOther == History!SchemaSpec

\* A process that lost the race, or was stopped, is up in the end.
EveryStartSucceeds == \A p \in Processes : <>[](at[p].step = "listening")
=============================================================================
