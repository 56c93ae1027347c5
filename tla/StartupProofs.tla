--------------------------- MODULE StartupProofs ---------------------------
(* Proofs about Startup, for any number of processes and migrations. *)
EXTENDS Startup, TLAPS

(***************************************************************************)
(* The inductive invariant.  MigratedInOrder says nothing of a process in  *)
(* the middle of its start; what it has found and what its transaction     *)
(* holds at each step is what makes the next step right.                   *)
(***************************************************************************)
\* The files before the n-th are in.
Before(n) == \A f \in Files : f < n => f \in recorded

ProcessFits(p) ==
    /\ pending[p].records = {}
    /\ pending[p].changes = IF at[p].step = "changed" THEN {File(p)} ELSE {}
    /\ at[p].step \in {"begun", "changed"} => File(p) \in Files
    /\ at[p].step \in {"looking", "begun", "changed"} =>
          File(p) >= 1 /\ Before(File(p))
    /\ at[p].step \in {"bucket", "listening"} => recorded = Files
    /\ at[p].step = "listening" => bucket

InOrder == \A f \in recorded : 1..f \subseteq recorded

StartInv == TypeOK /\ AppliedOnce /\ InOrder /\ \A p \in Processes : ProcessFits(p)

-----------------------------------------------------------------------------
\* The invariant is what MigratedInOrder asks, and more.
LEMMA InvImplies == StartInv => MigratedInOrder
  BY DEF StartInv, MigratedInOrder, ServesMigrated, InOrder, ProcessFits

LEMMA InitInv ==
  ASSUME Migrations \in Nat, MaxFailures \in Nat, Init
  PROVE  StartInv
<1>1. PICK known \in 0..Migrations :
         /\ recorded = 1..known
         /\ applied = [f \in Files |-> IF f <= known THEN 1 ELSE 0]
  BY DEF Init
<1>2. at = [p \in Processes |-> [step |-> "down", file |-> 0]]
      /\ pending = [p \in Processes |-> Empty] /\ bucket = FALSE /\ failures = 0
  BY DEF Init
<1>3. TypeOK
  <2>1. applied \in [Files -> Nat] /\ recorded \subseteq Files
    BY <1>1 DEF Files
  <2>2. [step |-> "down", file |-> 0] \in [step : Steps, file : 0..(Migrations + 1)]
    BY DEF Steps
  <2>3. Empty \in [changes : SUBSET Files, records : SUBSET Files]
    BY DEF Empty
  <2>4. at \in [Processes -> [step : Steps, file : 0..(Migrations + 1)]]
    BY <1>2, <2>2
  <2>5. pending \in [Processes -> [changes : SUBSET Files, records : SUBSET Files]]
    BY <1>2, <2>3
  <2>6. failures \in 0..MaxFailures
    BY <1>2
  <2>7. bucket \in BOOLEAN
    BY <1>2
  <2>8. QED BY <2>1, <2>4, <2>5, <2>6, <2>7 DEF TypeOK
<1>4. AppliedOnce
  BY <1>1 DEF AppliedOnce, Files
<1>5. InOrder
  BY <1>1 DEF InOrder
<1>6. \A p \in Processes : ProcessFits(p)
  BY <1>2 DEF ProcessFits, Empty, File
<1>7. QED BY <1>3, <1>4, <1>5, <1>6 DEF StartInv

(***************************************************************************)
(* One process moves: the others keep what they have.  The database only   *)
(* gains migrations, so what they have found in it stays true.             *)
(***************************************************************************)
LEMMA OthersKeep ==
  ASSUME Migrations \in Nat, StartInv, TypeOK', NEW p \in Processes, NEW q \in Processes, p # q,
         at'[q] = at[q], pending'[q] = pending[q],
         recorded \subseteq recorded', bucket => bucket'
  PROVE  ProcessFits(q)'
<1>1. ProcessFits(q)
  BY DEF StartInv
<1>2. recorded' \subseteq Files
  BY DEF TypeOK
<1>3. QED BY <1>1, <1>2 DEF ProcessFits, Before, File

\* A step that leaves the database alone: only the process that moves is to be
\* looked at again.
LEMMA DatabaseKept ==
  ASSUME Migrations \in Nat, StartInv, NEW p \in Processes,
         UNCHANGED <<applied, recorded>>, bucket \in BOOLEAN, bucket' \in BOOLEAN,
         bucket => bucket', failures' \in 0..MaxFailures,
         NEW step \in Steps, NEW file \in 0..(Migrations + 1), Goes(p, step, file),
         NEW held \in SUBSET Files, pending' = [pending EXCEPT ![p] = [changes |-> held, records |-> {}]],
         ProcessFits(p)'
  PROVE  StartInv'
<1>1. TypeOK /\ AppliedOnce /\ InOrder
  BY DEF StartInv
<1>2. at' = [at EXCEPT ![p] = [step |-> step, file |-> file]]
  BY DEF Goes
<1>3. at' \in [Processes -> [step : Steps, file : 0..(Migrations + 1)]]
  BY <1>1, <1>2 DEF TypeOK
<1>4. pending' \in [Processes -> [changes : SUBSET Files, records : SUBSET Files]]
  BY <1>1 DEF TypeOK
<1>5. TypeOK'
  BY <1>1, <1>3, <1>4 DEF TypeOK
<1>6. AppliedOnce' /\ InOrder'
  BY <1>1 DEF AppliedOnce, InOrder
<1>7. ASSUME NEW q \in Processes PROVE ProcessFits(q)'
  <2>1. CASE q = p BY <2>1
  <2>2. CASE q # p
    <3>1. at'[q] = at[q] /\ pending'[q] = pending[q]
      BY <1>1, <1>2, <2>2 DEF TypeOK
    <3>2. QED BY <1>5, <2>2, <3>1, OthersKeep
  <2>3. QED BY <2>1, <2>2
<1>8. QED BY <1>5, <1>6, <1>7 DEF StartInv

-----------------------------------------------------------------------------
(* One lemma per action. *)

\* What a process that is not changing anything has pending.
LEMMA NothingPending ==
  ASSUME StartInv, NEW p \in Processes, at[p].step # "changed"
  PROVE  pending = [pending EXCEPT ![p] = [changes |-> {}, records |-> {}]]
<1>1. pending \in [Processes -> [changes : SUBSET Files, records : SUBSET Files]]
  BY DEF StartInv, TypeOK
<1>2. pending[p].changes = {} /\ pending[p].records = {}
  BY DEF StartInv, ProcessFits
<1>3. pending[p] = [changes |-> {}, records |-> {}]
  BY <1>1, <1>2
<1>4. QED BY <1>1, <1>3

\* The process goes to a step and holds no lock there.
LEMMA MovesOn ==
  ASSUME Migrations \in Nat, StartInv, NEW p \in Processes,
         UNCHANGED <<applied, recorded>>, bucket => bucket', bucket' \in BOOLEAN,
         failures' \in 0..MaxFailures,
         NEW step \in Steps \ {"changed"}, NEW file \in 0..(Migrations + 1), Goes(p, step, file),
         pending' = [pending EXCEPT ![p] = [changes |-> {}, records |-> {}]],
         step = "begun" => file \in Files,
         step \in {"looking", "begun"} => file >= 1 /\ Before(file),
         step \in {"bucket", "listening"} => recorded = Files,
         step = "listening" => bucket'
  PROVE  StartInv'
<1>1. TypeOK
  BY DEF StartInv
<1>2. at'[p] = [step |-> step, file |-> file] /\ pending'[p] = [changes |-> {}, records |-> {}]
  BY <1>1 DEF TypeOK, Goes
<1>3. at'[p].step = step /\ at'[p].file = file
      /\ pending'[p].changes = {} /\ pending'[p].records = {}
  BY <1>2
<1>4. ProcessFits(p)'
  BY <1>3 DEF ProcessFits, Before, File
<1>5. bucket \in BOOLEAN /\ {} \in SUBSET Files /\ step \in Steps
  BY <1>1 DEF TypeOK
<1>6. QED BY <1>4, <1>5, DatabaseKept

LEMMA StartKeeps ==
  ASSUME Migrations \in Nat, MaxFailures \in Nat, StartInv, NEW p \in Processes, Start(p)
  PROVE  StartInv'
<1>1. TypeOK
  BY DEF StartInv
<1>2. pending' = [pending EXCEPT ![p] = [changes |-> {}, records |-> {}]]
  BY NothingPending DEF Start
<1>3. Goes(p, "looking", 1) /\ UNCHANGED <<applied, recorded, bucket, failures>>
  BY DEF Start
<1>4. 1 \in 0..(Migrations + 1) /\ "looking" \in Steps \ {"changed"} /\ Before(1)
  BY DEF Steps, Before, Files
<1>5. bucket' \in BOOLEAN /\ failures' \in 0..MaxFailures
  BY <1>1, <1>3 DEF TypeOK
<1>6. applied' = applied /\ recorded' = recorded /\ bucket' = bucket
  BY <1>3
<1>7. ASSUME NEW first \in 0..(Migrations + 1), first = 1
      PROVE  StartInv'
  <2>1. Goes(p, "looking", first) /\ Before(first) /\ first >= 1
    BY <1>3, <1>4, <1>7
  <2>2. QED BY <1>2, <1>4, <1>5, <1>6, <2>1, MovesOn
<1>8. QED BY <1>4, <1>7

LEMMA LookKeeps ==
  ASSUME Migrations \in Nat, MaxFailures \in Nat, StartInv, NEW p \in Processes, Look(p)
  PROVE  StartInv'
<1>1. TypeOK /\ ProcessFits(p)
  BY DEF StartInv
<1>2. /\ at[p].step = "looking"
      /\ UNCHANGED <<applied, recorded, pending, bucket, failures>>
  BY DEF Look
<1>3. pending' = [pending EXCEPT ![p] = [changes |-> {}, records |-> {}]]
  BY <1>2, NothingPending
<1>4. bucket' \in BOOLEAN /\ failures' \in 0..MaxFailures
  BY <1>1, <1>2 DEF TypeOK
<1>5. File(p) \in 0..(Migrations + 1) /\ File(p) >= 1 /\ Before(File(p))
  BY <1>1, <1>2 DEF TypeOK, ProcessFits, File
<1>6. CASE File(p) > Migrations
  <2>1. recorded = Files /\ File(p) \notin recorded
    <3>1. recorded \subseteq Files BY <1>1 DEF TypeOK
    <3>2. \A f \in Files : f < File(p) BY <1>5, <1>6 DEF Files
    <3>3. File(p) \notin Files BY <1>5, <1>6 DEF Files
    <3>4. QED BY <1>5, <3>1, <3>2, <3>3 DEF Before
  <2>2. Goes(p, "bucket", 0) BY <1>6, <2>1 DEF Look
  <2>3. 0 \in 0..(Migrations + 1) /\ "bucket" \in Steps \ {"changed"}
    BY DEF Steps
  <2>4. QED BY <1>2, <1>3, <1>4, <2>1, <2>2, <2>3, MovesOn
<1>7. CASE File(p) <= Migrations /\ File(p) \in recorded
  <2>1. Goes(p, "looking", File(p) + 1) BY <1>5, <1>7 DEF Look
  <2>2. File(p) + 1 \in 0..(Migrations + 1) /\ "looking" \in Steps \ {"changed"} /\ File(p) + 1 >= 1
    BY <1>5, <1>7 DEF Steps
  <2>3. Before(File(p) + 1) BY <1>5, <1>7 DEF Before, Files
  <2>4. QED BY <1>2, <1>3, <1>4, <2>1, <2>2, <2>3, MovesOn
<1>8. CASE File(p) <= Migrations /\ File(p) \notin recorded
  <2>1. Goes(p, "begun", File(p)) BY <1>5, <1>8 DEF Look
  <2>2. File(p) \in Files /\ "begun" \in Steps \ {"changed"}
    BY <1>5, <1>8 DEF Files, Steps
  <2>3. QED BY <1>2, <1>3, <1>4, <1>5, <2>1, <2>2, MovesOn
<1>9. QED BY <1>5, <1>6, <1>7, <1>8

LEMMA ChangesKeeps ==
  ASSUME Migrations \in Nat, MaxFailures \in Nat, StartInv, NEW p \in Processes, Changes(p)
  PROVE  StartInv'
<1>1. TypeOK /\ ProcessFits(p)
  BY DEF StartInv
<1>2. /\ at[p].step = "begun"
      /\ pending' = [pending EXCEPT ![p].changes = {File(p)}]
      /\ Goes(p, "changed", File(p))
      /\ UNCHANGED <<applied, recorded, bucket, failures>>
  BY DEF Changes
<1>3. File(p) \in Files /\ File(p) >= 1 /\ Before(File(p))
  BY <1>1, <1>2 DEF ProcessFits
<1>4. pending' = [pending EXCEPT ![p] = [changes |-> {File(p)}, records |-> {}]]
  <2>1. pending[p] \in [changes : SUBSET Files, records : SUBSET Files] /\ pending[p].records = {}
    BY <1>1 DEF TypeOK, ProcessFits
  <2>2. [pending[p] EXCEPT !.changes = {File(p)}] = [changes |-> {File(p)}, records |-> {}]
    BY <2>1
  <2>3. QED BY <1>2, <2>2
<1>5. at'[p] = [step |-> "changed", file |-> File(p)]
      /\ pending'[p] = [changes |-> {File(p)}, records |-> {}]
  BY <1>1, <1>2, <1>4 DEF TypeOK, Goes
<1>6. ProcessFits(p)'
  <2>1. at'[p].step = "changed" /\ at'[p].file = File(p)
        /\ pending'[p].changes = {File(p)} /\ pending'[p].records = {}
    BY <1>5
  <2>2. QED BY <1>2, <1>3, <2>1 DEF ProcessFits, Before, File
<1>7. "changed" \in Steps /\ File(p) \in 0..(Migrations + 1) /\ {File(p)} \in SUBSET Files
  BY <1>3 DEF Steps, Files
<1>8. bucket \in BOOLEAN /\ bucket' \in BOOLEAN /\ failures' \in 0..MaxFailures
  BY <1>1, <1>2 DEF TypeOK
<1>9. QED BY <1>2, <1>4, <1>6, <1>7, <1>8, DatabaseKept

\* A process that exits holds nothing.
LEMMA ExitKeeps ==
  ASSUME Migrations \in Nat, StartInv, NEW p \in Processes, Exits(p),
         UNCHANGED <<applied, recorded, bucket>>, failures' \in 0..MaxFailures
  PROVE  StartInv'
<1>1. TypeOK
  BY DEF StartInv
<1>2. pending' = [pending EXCEPT ![p] = [changes |-> {}, records |-> {}]] /\ Goes(p, "down", 0)
  BY DEF Exits, Empty
<1>3. bucket' \in BOOLEAN /\ 0 \in 0..(Migrations + 1) /\ "down" \in Steps \ {"changed"}
  BY <1>1 DEF TypeOK, Steps
<1>4. QED BY <1>2, <1>3, MovesOn

\* The commit: the file that was missing next, once.
LEMMA RecordKeeps ==
  ASSUME Migrations \in Nat, MaxFailures \in Nat, StartInv, NEW p \in Processes, Record(p)
  PROVE  StartInv'
<1>1. TypeOK /\ AppliedOnce /\ InOrder /\ ProcessFits(p)
  BY DEF StartInv
<1>2. at[p].step = "changed" /\ UNCHANGED <<bucket, failures>>
  BY DEF Record
<1>3. bucket' \in BOOLEAN /\ failures' \in 0..MaxFailures
  BY <1>1, <1>2 DEF TypeOK
<1>4. CASE File(p) \in recorded
  BY <1>2, <1>3, <1>4, ExitKeeps DEF Record
<1>5. CASE File(p) \notin recorded
  <2>1. /\ applied' = [f \in Files |-> IF f \in pending[p].changes THEN applied[f] + 1 ELSE applied[f]]
        /\ recorded' = recorded \cup {File(p)}
        /\ pending' = [pending EXCEPT ![p] = Empty]
        /\ at' = [at EXCEPT ![p] = [step |-> "looking", file |-> File(p) + 1]]
    BY <1>5 DEF Record, Goes
  <2>2. File(p) \in Files /\ Before(File(p)) /\ pending[p].changes = {File(p)}
    BY <1>1, <1>2 DEF ProcessFits
  <2>3. File(p) \in 1..Migrations /\ File(p) + 1 \in 0..(Migrations + 1)
    BY <2>2 DEF Files
  <2>4. TypeOK'
    <3>1. applied' \in [Files -> Nat]
      BY <1>1, <2>1 DEF TypeOK
    <3>2. recorded' \subseteq Files
      BY <1>1, <2>1, <2>2 DEF TypeOK
    <3>3. at' \in [Processes -> [step : Steps, file : 0..(Migrations + 1)]]
      BY <1>1, <2>1, <2>3 DEF TypeOK, Steps
    <3>4. pending' \in [Processes -> [changes : SUBSET Files, records : SUBSET Files]]
      BY <1>1, <2>1 DEF TypeOK, Empty
    <3>5. QED BY <1>3, <3>1, <3>2, <3>3, <3>4 DEF TypeOK
  <2>5. AppliedOnce'
    <3>1. ASSUME NEW f \in Files PROVE applied'[f] = IF f \in recorded' THEN 1 ELSE 0
      <4>1. applied[f] = IF f \in recorded THEN 1 ELSE 0 BY <1>1 DEF AppliedOnce
      <4>2. applied'[f] = IF f = File(p) THEN applied[f] + 1 ELSE applied[f]
        BY <2>1, <2>2
      <4>3. QED BY <1>5, <2>1, <4>1, <4>2
    <3>2. QED BY <3>1 DEF AppliedOnce
  <2>6. InOrder'
    <3>1. ASSUME NEW f \in recorded' PROVE 1..f \subseteq recorded'
      <4>1. CASE f = File(p) BY <2>1, <2>2, <2>3, <4>1 DEF Before, Files
      <4>2. CASE f \in recorded BY <1>1, <2>1, <4>2 DEF InOrder
      <4>3. QED BY <2>1, <4>1, <4>2
    <3>2. QED BY <3>1 DEF InOrder
  <2>7. ASSUME NEW q \in Processes PROVE ProcessFits(q)'
    <3>1. CASE q = p
      <4>1. at'[p] = [step |-> "looking", file |-> File(p) + 1] /\ pending'[p] = Empty
        BY <1>1, <2>1 DEF TypeOK
      <4>2. at'[p].step = "looking" /\ at'[p].file = File(p) + 1
            /\ pending'[p].changes = {} /\ pending'[p].records = {}
        BY <4>1 DEF Empty
      <4>3. \A f \in Files : f < File(p) + 1 => f \in recorded'
        BY <2>1, <2>2, <2>3 DEF Before, Files
      <4>4. Before(at[p].file)' /\ at'[p].file >= 1
        BY <2>3, <4>2, <4>3 DEF Before
      <4>5. QED BY <3>1, <4>2, <4>4 DEF ProcessFits, File
    <3>2. CASE q # p
      <4>1. at'[q] = at[q] /\ pending'[q] = pending[q]
        BY <1>1, <2>1, <3>2 DEF TypeOK
      <4>2. QED BY <1>2, <2>1, <2>4, <3>2, <4>1, OthersKeep
    <3>3. QED BY <3>1, <3>2
  <2>8. QED BY <2>4, <2>5, <2>6, <2>7 DEF StartInv
<1>6. QED BY <1>4, <1>5

LEMMA EnsureBucketKeeps ==
  ASSUME Migrations \in Nat, MaxFailures \in Nat, StartInv, NEW p \in Processes, EnsureBucket(p)
  PROVE  StartInv'
<1>1. TypeOK /\ ProcessFits(p)
  BY DEF StartInv
<1>2. /\ at[p].step = "bucket" /\ bucket' = TRUE /\ Goes(p, "listening", 0)
      /\ UNCHANGED <<applied, recorded, pending, failures>>
  BY DEF EnsureBucket
<1>3. pending' = [pending EXCEPT ![p] = [changes |-> {}, records |-> {}]]
  BY <1>2, NothingPending
<1>4. recorded = Files
  BY <1>1, <1>2 DEF ProcessFits
<1>5. failures' \in 0..MaxFailures /\ 0 \in 0..(Migrations + 1) /\ "listening" \in Steps \ {"changed"}
  BY <1>1, <1>2 DEF TypeOK, Steps
<1>6. QED BY <1>2, <1>3, <1>4, <1>5, MovesOn

LEMMA FailsKeeps ==
  ASSUME Migrations \in Nat, MaxFailures \in Nat, StartInv, NEW p \in Processes, Fails(p)
  PROVE  StartInv'
<1>1. failures \in 0..MaxFailures
  BY DEF StartInv, TypeOK
<1>2. failures' \in 0..MaxFailures
  BY <1>1 DEF Fails
<1>3. QED BY <1>2, ExitKeeps DEF Fails

LEMMA ChangeFailsKeeps ==
  ASSUME Migrations \in Nat, MaxFailures \in Nat, StartInv, NEW p \in Processes, ChangeFails(p)
  PROVE  StartInv'
<1>1. failures' \in 0..MaxFailures
  BY DEF StartInv, TypeOK, ChangeFails
<1>2. QED BY <1>1, ExitKeeps DEF ChangeFails

LEMMA StutterKeeps ==
  ASSUME StartInv, UNCHANGED vars
  PROVE  StartInv'
  BY DEF StartInv, vars, TypeOK, AppliedOnce, InOrder, ProcessFits, Before, File

LEMMA StepKeeps ==
  ASSUME Migrations \in Nat, MaxFailures \in Nat, StartInv, [Next]_vars
  PROVE  StartInv'
<1>1. CASE UNCHANGED vars BY <1>1, StutterKeeps
<1>2. ASSUME NEW p \in Processes, Run(p) \/ Fails(p) PROVE StartInv'
  BY <1>2, StartKeeps, LookKeeps, ChangesKeeps, ChangeFailsKeeps, RecordKeeps, EnsureBucketKeeps,
     FailsKeeps DEF Run
<1>3. QED BY <1>1, <1>2 DEF Next, Serve

-----------------------------------------------------------------------------
(* The invariant of every start: migrate.ts applies each file once, in     *)
(* order and whole, and server.ts listens only then, however many          *)
(* processes start at once and wherever they stop.                         *)
THEOREM Invariance ==
  ASSUME Migrations \in Nat, MaxFailures \in Nat
  PROVE  Spec => []StartInv
<1>1. Init => StartInv BY InitInv
<1>2. StartInv /\ [Next]_vars => StartInv' BY StepKeeps
<1>3. QED BY <1>1, <1>2, PTL DEF Spec

(* A start finds, and leaves, a database migrated file by file, and nobody *)
(* listens before the last (migrate.ts, server.ts).                        *)
THEOREM Migrated ==
  ASSUME Migrations \in Nat, MaxFailures \in Nat
  PROVE  Spec => []MigratedInOrder
<1>1. Spec => []StartInv BY Invariance
<1>2. QED BY <1>1, InvImplies, PTL

-----------------------------------------------------------------------------
(* Refinement. *)

LEMMA InitRefines ==
  ASSUME Init
  PROVE  History!SchemaInit
<1>1. {p \in Processes : at[p].step = "listening"} = {}
  BY DEF Init
<1>2. QED BY <1>1 DEF Init, History!SchemaInit, History!Files, Files

\* The file that is recorded next is the first that is missing.
LEMMA NextMissing ==
  ASSUME Migrations \in Nat, StartInv, NEW p \in Processes, at[p].step = "changed",
         File(p) \notin recorded
  PROVE  /\ File(p) \in Files /\ pending[p].changes = {File(p)}
         /\ applied = [g \in Files |-> IF g < File(p) THEN 1 ELSE 0]
<1>1. TypeOK /\ AppliedOnce /\ InOrder /\ ProcessFits(p)
  BY DEF StartInv
<1>2. File(p) \in Files /\ pending[p].changes = {File(p)} /\ Before(File(p))
  BY <1>1 DEF ProcessFits
<1>3. ASSUME NEW g \in Files PROVE applied[g] = IF g < File(p) THEN 1 ELSE 0
  <2>1. CASE g < File(p)
    BY <1>1, <1>2, <2>1 DEF AppliedOnce, Before, Files
  <2>2. CASE ~(g < File(p))
    <3>1. g \in recorded => File(p) \in 1..g BY <1>2, <2>2 DEF Files
    <3>2. g \notin recorded BY <1>1, <3>1 DEF InOrder
    <3>3. QED BY <1>1, <2>2, <3>2 DEF AppliedOnce
  <2>3. QED BY <2>1, <2>2
<1>4. applied \in [Files -> Nat] BY <1>1 DEF TypeOK
<1>5. applied = [g \in Files |-> IF g < File(p) THEN 1 ELSE 0]
  BY <1>3, <1>4
<1>6. QED BY <1>2, <1>5

\* Of the processes, who listens.
Serving == {p \in Processes : at[p].step = "listening"}

\* A process that was not listening and is not now: nothing to see.
LEMMA ServingKept ==
  ASSUME StartInv, NEW p \in Processes, NEW step, NEW file, Goes(p, step, file),
         at[p].step # "listening", step # "listening"
  PROVE  Serving' = Serving
<1>1. at \in [Processes -> [step : Steps, file : 0..(Migrations + 1)]]
  BY DEF StartInv, TypeOK
<1>2. \A q \in Processes : at'[q].step = IF q = p THEN step ELSE at[q].step
  BY <1>1 DEF Goes
<1>3. QED BY <1>2 DEF Serving

LEMMA RecordRefines ==
  ASSUME Migrations \in Nat, StartInv, NEW p \in Processes, Record(p)
  PROVE  [History!SchemaNext]_<<applied, Serving>>
<1>1. at[p].step = "changed" BY DEF Record
<1>2. CASE File(p) \in recorded
  <2>1. Goes(p, "down", 0) /\ UNCHANGED applied BY <1>2 DEF Record, Exits
  <2>2. QED BY <1>1, <2>1, ServingKept
<1>3. CASE File(p) \notin recorded
  <2>1. Goes(p, "looking", File(p) + 1)
        /\ applied' = [f \in Files |-> IF f \in pending[p].changes THEN applied[f] + 1 ELSE applied[f]]
    BY <1>3 DEF Record
  <2>2. Serving' = Serving BY <1>1, <2>1, ServingKept
  <2>3. File(p) \in Files /\ pending[p].changes = {File(p)}
        /\ applied = [g \in Files |-> IF g < File(p) THEN 1 ELSE 0]
    BY <1>1, <1>3, NextMissing
  <2>4. applied' = [g \in Files |-> IF g <= File(p) THEN 1 ELSE 0]
    <3>1. ASSUME NEW g \in Files
          PROVE (IF g = File(p) THEN applied[g] + 1 ELSE applied[g]) = (IF g <= File(p) THEN 1 ELSE 0)
      <4>1. applied[g] = IF g < File(p) THEN 1 ELSE 0 BY <2>3
      <4>2. QED BY <2>3, <4>1 DEF Files
    <3>2. applied' = [f \in Files |-> IF f = File(p) THEN applied[f] + 1 ELSE applied[f]]
      BY <2>1, <2>3
    <3>3. QED BY <3>1, <3>2
  <2>5. History!Apply(File(p))
    BY <2>2, <2>3, <2>4 DEF History!Apply, History!Files, Files, Serving
  <2>6. QED BY <2>3, <2>5 DEF History!SchemaNext, History!Files, Files, Serving
<1>4. QED BY <1>2, <1>3

LEMMA EnsureBucketRefines ==
  ASSUME Migrations \in Nat, StartInv, NEW p \in Processes, EnsureBucket(p)
  PROVE  [History!SchemaNext]_<<applied, Serving>>
<1>1. TypeOK /\ AppliedOnce /\ ProcessFits(p)
  BY DEF StartInv
<1>2. at[p].step = "bucket" /\ Goes(p, "listening", 0) /\ UNCHANGED applied
  BY DEF EnsureBucket
<1>3. recorded = Files BY <1>1, <1>2 DEF ProcessFits
<1>4. applied = [f \in Files |-> 1]
  BY <1>1, <1>3 DEF TypeOK, AppliedOnce
<1>5. \A q \in Processes : at'[q].step = IF q = p THEN "listening" ELSE at[q].step
  BY <1>1, <1>2 DEF TypeOK, Goes
<1>6. Serving' = Serving \cup {p}
  BY <1>5 DEF Serving
<1>7. History!Listen(p)
  BY <1>2, <1>4, <1>6 DEF History!Listen, History!Complete, History!Files, Files, Serving
<1>8. QED BY <1>7 DEF History!SchemaNext, Serving

LEMMA ExitRefines ==
  ASSUME StartInv, NEW p \in Processes, Exits(p), UNCHANGED applied
  PROVE  [History!SchemaNext]_<<applied, Serving>>
<1>1. at \in [Processes -> [step : Steps, file : 0..(Migrations + 1)]]
  BY DEF StartInv, TypeOK
<1>2. \A q \in Processes : at'[q].step = IF q = p THEN "down" ELSE at[q].step
  BY <1>1 DEF Exits, Goes
<1>3. Serving' = Serving \ {p}
  BY <1>2 DEF Serving
<1>4. History!Stop(p)
  BY <1>3 DEF History!Stop, Serving
<1>5. QED BY <1>4 DEF History!SchemaNext, Serving

LEMMA StepRefines ==
  ASSUME Migrations \in Nat, StartInv, [Next]_vars
  PROVE  [History!SchemaNext]_<<applied, Serving>>
<1>1. CASE UNCHANGED vars BY <1>1 DEF vars, Serving
<1>2. ASSUME NEW p \in Processes, Run(p) \/ Fails(p)
      PROVE  [History!SchemaNext]_<<applied, Serving>>
  <2>1. CASE Start(p)
    <3>1. at[p].step = "down" /\ Goes(p, "looking", 1) /\ UNCHANGED applied BY <2>1 DEF Start
    <3>2. QED BY <3>1, ServingKept
  <2>2. CASE Look(p)
    <3>1. at[p].step = "looking" /\ UNCHANGED applied BY <2>2 DEF Look
    <3>2. \/ Goes(p, "bucket", 0) \/ Goes(p, "looking", File(p) + 1) \/ Goes(p, "begun", File(p))
      BY <2>2 DEF Look
    <3>3. QED BY <3>1, <3>2, ServingKept
  <2>3. CASE Changes(p)
    <3>1. at[p].step = "begun" /\ Goes(p, "changed", File(p)) /\ UNCHANGED applied BY <2>3 DEF Changes
    <3>2. QED BY <3>1, ServingKept
  <2>4. CASE ChangeFails(p) BY <2>4, ExitRefines DEF ChangeFails
  <2>5. CASE Record(p) BY <2>5, RecordRefines
  <2>6. CASE EnsureBucket(p) BY <2>6, EnsureBucketRefines
  <2>7. CASE Fails(p) BY <2>7, ExitRefines DEF Fails
  <2>8. QED BY <1>2, <2>1, <2>2, <2>3, <2>4, <2>5, <2>6, <2>7 DEF Run
<1>3. QED BY <1>1, <1>2 DEF Next, Serve

(* Seen from the database, the starts are one migration after the other,   *)
(* each whole and once, and processes that listen once all are there       *)
(* (Schema): migrate.ts and server.ts, however the starts interleave.      *)
THEOREM Refinement ==
  ASSUME Migrations \in Nat, MaxFailures \in Nat
  PROVE  Spec => OneAfterTheOther
<1>1. Init => History!SchemaInit BY InitRefines
<1>2. StartInv /\ [Next]_vars => [History!SchemaNext]_<<applied, Serving>> BY StepRefines
<1>3. Spec => []StartInv BY Invariance
<1>4. Spec => History!SchemaInit /\ [][History!SchemaNext]_<<applied, Serving>>
  BY <1>1, <1>2, <1>3, PTL DEF Spec
<1>5. (History!SchemaInit /\ [][History!SchemaNext]_<<applied, Serving>>) <=> OneAfterTheOther
  BY DEF OneAfterTheOther, History!SchemaSpec, Serving
<1>6. QED BY <1>4, <1>5
=============================================================================
