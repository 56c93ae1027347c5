---------------------- MODULE DocumentLifecycleProofs ----------------------
(***************************************************************************)
(* Theorems about DocumentLifecycle, for every set of documents, any       *)
(* number of concurrent requests and any span of years, and their proofs.  *)
(*                                                                         *)
(* Each conjunct of the inductive invariant Inv is preserved by a lemma of *)
(* its own, which has one step per action; InvStep puts them together.     *)
(***************************************************************************)
EXTENDS DocumentLifecycle, TLAPS

-----------------------------------------------------------------------------
(* Numbers. *)

\* When 1 .. n are taken, the last number is n.
LEMMA LastOfInterval ==
    ASSUME NEW n \in Nat
    PROVE  (CHOOSE k \in (1 .. n) \cup {0} : \A m \in 1 .. n : m <= k) = n
  <1> DEFINE IsLast(k) == k \in (1 .. n) \cup {0} /\ \A m \in 1 .. n : m <= k
  <1>1. IsLast(n)
    OBVIOUS
  <1>2. ASSUME NEW k, IsLast(k) PROVE k = n
    <2>1. k \in 0 .. n
      BY <1>2
    <2>2. n > 0 => n \in 1 .. n
      OBVIOUS
    <2> QED
      BY <1>2, <2>1, <2>2
  <1> QED
    BY <1>1, <1>2

\* A step that keeps the number of every document keeps every sequence.
LEMMA SameNumbers ==
    ASSUME \A d \in Docs : /\ documents'[d] # None <=> documents[d] # None
                           /\ documents[d] # None =>
                                 /\ documents'[d].type = documents[d].type
                                 /\ documents'[d].year = documents[d].year
                                 /\ documents'[d].seq = documents[d].seq
    PROVE  \A p : Used(p)' = Used(p) /\ LastSequence(p)' = LastSequence(p)
  <1>1. \A p : Used(p)' = Used(p)
    BY DEF Used, Exists
  <1> QED
    BY <1>1 DEF LastSequence

-----------------------------------------------------------------------------
(* Types. *)

LEMMA IdleRequestType == IdleRequest \in Request
  BY YearAssumption DEF IdleRequest, Request, Ops, Steps, Types, Statuses, Years

\* What a request's slot is set to when it arrives.
LEMMA ArrivalType ==
    ASSUME TypeOK, NEW r \in Requests, Arrive(r)
    PROVE  \E request \in Request : Start(r, request)
  <1> USE DEF Request, Ops, Steps, Types, Statuses, IdleRequest
  <1> year \in Years /\ FirstYear \in Years
    BY YearAssumption DEF TypeOK, Years
  <1>1. PICK d \in Docs :
          \/ \E type \in {"QUOTE", "INVOICE"}, parent \in Docs \cup {None} :
                StartCreate(r, d, type, parent)
          \/ StartProject(r, d)
          \/ \E q \in Docs : StartAccept(r, d, q)
          \/ \E status \in Statuses : StartStatus(r, d, status)
    BY DEF Arrive
  <1>2. ASSUME NEW type \in {"QUOTE", "INVOICE"}, NEW parent \in Docs \cup {None},
               StartCreate(r, d, type, parent)
        PROVE  \E request \in Request : Start(r, request)
    <2>1. [IdleRequest EXCEPT !.op = "create", !.pc = "lock", !.type = type,
                  !.target = parent, !.new = d, !.year = year] \in Request
      OBVIOUS
    <2> QED
      BY <1>2, <2>1 DEF StartCreate
  <1>3. CASE StartProject(r, d)
    <2>1. [IdleRequest EXCEPT !.op = "project", !.pc = "lock", !.type = "PROJECT",
                  !.new = d, !.year = year] \in Request
      OBVIOUS
    <2> QED
      BY <1>3, <2>1 DEF StartProject
  <1>4. ASSUME NEW q \in Docs, StartAccept(r, d, q)
        PROVE  \E request \in Request : Start(r, request)
    <2>1. [IdleRequest EXCEPT !.op = "accept", !.pc = "accept", !.type = "PROJECT",
                  !.target = q, !.new = d] \in Request
      OBVIOUS
    <2> QED
      BY <1>4, <2>1 DEF StartAccept
  <1>5. ASSUME NEW status \in Statuses, StartStatus(r, d, status)
        PROVE  \E request \in Request : Start(r, request)
    <2>1. [IdleRequest EXCEPT !.op = "status", !.pc = "update", !.target = d,
                  !.want = status] \in Request
      OBVIOUS
    <2> QED
      BY <1>5, <2>1 DEF StartStatus
  <1> QED
    BY <1>1, <1>2, <1>3, <1>4, <1>5

LEMMA GotoType ==
    ASSUME req \in [Requests -> Request], NEW r \in Requests,
           NEW step \in Steps, Goto(r, step)
    PROVE  req' \in [Requests -> Request]
  <1>1. [req[r] EXCEPT !.pc = step] \in Request
    BY DEF Request
  <1> QED
    BY <1>1 DEF Goto

\* The row a transaction publishes.
LEMMA NewRowType ==
    ASSUME Inv, NEW r \in Requests, At(r, "commit")
    PROVE  NewRow(req[r].type, req[r].target, req[r].year, req[r].seq) \in Row
  <1>1. req[r].seq > 0
    BY DEF At, Inv, ReadsAreCurrent, NumberedSteps, NumberingSteps
  <1>2. req[r] \in Request
    BY DEF Inv, TypeOK
  <1> QED
    BY <1>1, <1>2 DEF NewRow, FirstStatus, Row, Request, Types, Statuses

LEMMA TypeStep == Inv /\ [Next]_vars => TypeOK'
  <1> SUFFICES ASSUME Inv, [Next]_vars PROVE TypeOK'
    OBVIOUS
  <1> USE YearAssumption, NoneAssumption, RequestsAssumption
  <1> TypeOK
    BY DEF Inv
  <1> USE DEF TypeOK, LedgerTypeOK
  <1>0. CASE UNCHANGED vars
    BY <1>0 DEF vars
  <1>1. ASSUME NEW r \in Requests, Arrive(r) PROVE TypeOK'
    <2>1. PICK request \in Request : Start(r, request)
      BY <1>1, ArrivalType
    <2> QED
      BY <2>1 DEF Start
  <1>2. ASSUME NEW r \in Requests, FlipToAccepted(r) PROVE TypeOK'
    <2>1. [req[r] EXCEPT !.pc = "lock", !.year = year] \in Request
      BY DEF Request, Steps
    <2> QED
      BY <1>2, <2>1 DEF FlipToAccepted, Request
  <1>3. ASSUME NEW r \in Requests, TakeNumberingLock(r) PROVE TypeOK'
    BY <1>3, GotoType DEF TakeNumberingLock, Steps
  <1>4. ASSUME NEW r \in Requests, Proceed(r) PROVE TypeOK'
    <2>1. CASE RefuseAccept(r)
      BY <2>1, GotoType DEF RefuseAccept, Steps
    <2>2. CASE ReadLastNumber(r)
      <3>1. Prefix(r) \in Prefixes
        BY DEF Prefix, Prefixes, Request
      <3>2. LastSequence(Prefix(r)) + 1 \in Nat
        BY <3>1 DEF Inv, RowsAreNumbered
      <3> QED
        <4> DEFINE step == IF req[r].op = "create" /\ req[r].target # None
                           THEN "check_project" ELSE "insert"
        <4>1. [req[r] EXCEPT !.seq = LastSequence(Prefix(r)) + 1, !.pc = step] \in Request
          BY <3>2 DEF Steps, Request
        <4> QED
          BY <2>2, <4>1 DEF ReadLastNumber, NextNumber, Request
    <2>3. CASE CheckProjectCompleted(r)
      BY <2>3, GotoType DEF CheckProjectCompleted, Steps
    <2>4. CASE CheckNotInvoiced(r)
      BY <2>4, GotoType DEF CheckNotInvoiced, Steps
    <2>5. CASE InsertDocument(r)
      BY <2>5, GotoType DEF InsertDocument, Steps
    <2>6. CASE InsertProject(r)
      BY <2>6, GotoType DEF InsertProject, Steps
    <2>7. CASE Commit(r)
      <3>1. NewRow(req[r].type, req[r].target, req[r].year, req[r].seq) \in Row
        BY <2>7, NewRowType DEF Commit
      <3>2. req[r].op = "accept" => documents[req[r].target] \in Row
        BY DEF Inv, TargetFitsRequest, Request, Exists
      <3>3. documents' \in [Docs -> Row \cup {None}]
        BY <2>7, <3>1, <3>2 DEF Commit, Row, Statuses
      <3>4. projects' \in [Docs -> ProjectRow \cup {None}]
        BY <2>7 DEF Commit, NewProject, ProjectRow
      <3>5. req' \in [Requests -> Request]
        BY <2>7, IdleRequestType DEF Commit
      <3> QED
        BY <2>7, <3>3, <3>4, <3>5 DEF Commit, ReleaseLocks
    <2>8. CASE Rollback(r)
      BY <2>8, IdleRequestType DEF Rollback, ReleaseLocks
    <2> QED
      BY <1>4, <2>1, <2>2, <2>3, <2>4, <2>5, <2>6, <2>7, <2>8 DEF Proceed
  <1>5. ASSUME NEW r \in Requests, Fail(r) PROVE TypeOK'
    BY <1>5, GotoType DEF Fail, Steps
  <1>6. ASSUME NEW r \in Requests, UpdateStatus(r) PROVE TypeOK'
    <2>1. req[r].op = "status" /\ req[r].target # None /\ documents[req[r].target] # None
      BY <1>6 DEF UpdateStatus, At, Inv, StepFitsRequest, TargetFitsRequest, Exists
    <2> QED
      BY <1>6, <2>1, IdleRequestType DEF UpdateStatus, Row, Request
  <1>7. ASSUME NEW d \in Docs, NEW active \in BOOLEAN, ArchiveDocument(d, active)
        PROVE  TypeOK'
    BY <1>7 DEF ArchiveDocument, SetDocumentActive, Exists, Row
  <1>8. ASSUME NEW d \in Docs, NEW active \in BOOLEAN, ArchiveProject(d, active)
        PROVE  TypeOK'
    BY <1>8 DEF ArchiveProject, SetProjectActive, ProjectRow
  <1>9. ASSUME NEW d \in Docs, FinishProject(d) PROVE TypeOK'
    BY <1>9 DEF FinishProject, CompleteProject, ProjectRow
  <1>10. CASE NewYear
    BY <1>10 DEF NewYear, Years
  <1> QED
    BY <1>0, <1>1, <1>2, <1>3, <1>4, <1>5, <1>6, <1>7, <1>8, <1>9, <1>10 DEF Next

-----------------------------------------------------------------------------
(* Requests. *)

\* A slot as an arriving request leaves it.
ArrivedSlot(q) ==
    /\ q.new # None => q.new \in Docs /\ IsFree(q.new)
    /\ q.target # None => Exists(q.target)
    /\ \/ /\ q.op = "create" /\ q.pc = "lock" /\ q.new # None
          /\ q.type \in {"QUOTE", "INVOICE"} /\ (q.type = "QUOTE" => q.target = None)
       \/ /\ q.op = "project" /\ q.pc = "lock" /\ q.new # None
          /\ q.type = "PROJECT" /\ q.target = None
       \/ /\ q.op = "accept" /\ q.pc = "accept" /\ q.new # None
          /\ q.type = "PROJECT" /\ q.target # None
          /\ documents[q.target].type = "QUOTE"
       \/ /\ q.op = "status" /\ q.pc = "update" /\ q.new = None
          /\ q.type = "QUOTE" /\ q.target # None
          /\ documents[q.target].type # "PROJECT"
          /\ q.want \in Wanted(documents[q.target].type)

LEMMA Arrival ==
    ASSUME Inv, NEW r \in Requests, Arrive(r)
    PROVE  /\ Idle(r)
           /\ ArrivedSlot(req'[r])
           /\ \A s \in Requests \ {r} : req'[s] = req[s]
           /\ UNCHANGED <<documents, projects, numLock, rowLock, year>>
  <1> USE NoneAssumption DEF ArrivedSlot, IdleRequest, Start, Idle
  <1> req \in [Requests -> Request]
    BY DEF Inv, TypeOK
  <1>1. PICK d \in Docs :
          \/ \E type \in {"QUOTE", "INVOICE"}, parent \in Docs \cup {None} :
                StartCreate(r, d, type, parent)
          \/ StartProject(r, d)
          \/ \E q \in Docs : StartAccept(r, d, q)
          \/ \E status \in Statuses : StartStatus(r, d, status)
    BY DEF Arrive
  <1>2. ASSUME NEW type \in {"QUOTE", "INVOICE"}, NEW parent \in Docs \cup {None},
               StartCreate(r, d, type, parent)
        PROVE  Idle(r) /\ ArrivedSlot(req'[r])
    BY <1>2 DEF StartCreate
  <1>3. CASE StartProject(r, d)
    BY <1>3 DEF StartProject
  <1>4. ASSUME NEW q \in Docs, StartAccept(r, d, q) PROVE Idle(r) /\ ArrivedSlot(req'[r])
    BY <1>4 DEF StartAccept
  <1>5. ASSUME NEW status \in Statuses, StartStatus(r, d, status)
        PROVE  Idle(r) /\ ArrivedSlot(req'[r])
    <2>1. documents[d].type # "PROJECT" /\ status \in Wanted(documents[d].type)
      BY <1>5 DEF StartStatus, Settable, Wanted
    <2> QED
      BY <1>5, <2>1 DEF StartStatus
  <1>6. \E q \in Request : Start(r, q)
    BY ArrivalType DEF Inv
  <1> QED
    BY <1>1, <1>2, <1>3, <1>4, <1>5, <1>6

LEMMA StepFitsStep ==
    Inv /\ [Next]_vars => \A s \in Requests : StepFitsRequest(s)'
  <1> SUFFICES ASSUME Inv, [Next]_vars, NEW s \in Requests PROVE StepFitsRequest(s)'
    OBVIOUS
  <1> USE NoneAssumption DEF StepFitsRequest
  <1> req \in [Requests -> Request] /\ StepFitsRequest(s)
    BY DEF Inv, TypeOK
  <1>0. CASE UNCHANGED vars
    BY <1>0 DEF vars
  <1>1. ASSUME NEW r \in Requests, Arrive(r) PROVE StepFitsRequest(s)'
    BY <1>1, Arrival DEF ArrivedSlot
  <1>2. ASSUME NEW r \in Requests, FlipToAccepted(r) PROVE StepFitsRequest(s)'
    BY <1>2 DEF FlipToAccepted, At
  <1>3. ASSUME NEW r \in Requests, TakeNumberingLock(r) PROVE StepFitsRequest(s)'
    BY <1>3 DEF TakeNumberingLock, At, Goto
  <1>4. ASSUME NEW r \in Requests, Proceed(r) PROVE StepFitsRequest(s)'
    <2>1. CASE RefuseAccept(r)
      BY <2>1 DEF RefuseAccept, At, Goto
    <2>2. CASE ReadLastNumber(r)
      BY <2>2 DEF ReadLastNumber, At
    <2>3. CASE CheckProjectCompleted(r)
      BY <2>3 DEF CheckProjectCompleted, At, Goto
    <2>4. CASE CheckNotInvoiced(r)
      BY <2>4 DEF CheckNotInvoiced, At, Goto
    <2>5. CASE InsertDocument(r)
      <3>1. At(r, "insert") /\ req[r].op # "create" => req[r].type = "PROJECT"
        BY DEF Inv, At, TypeOK, Request, Ops
      <3> QED
        BY <2>5, <3>1 DEF InsertDocument, At, Goto
    <2>6. CASE InsertProject(r)
      BY <2>6 DEF InsertProject, At, Goto
    <2>7. CASE Commit(r)
      BY <2>7 DEF Commit, IdleRequest
    <2>8. CASE Rollback(r)
      BY <2>8 DEF Rollback, IdleRequest
    <2> QED
      BY <1>4, <2>1, <2>2, <2>3, <2>4, <2>5, <2>6, <2>7, <2>8 DEF Proceed
  <1>5. ASSUME NEW r \in Requests, Fail(r) PROVE StepFitsRequest(s)'
    BY <1>5 DEF Fail, TxSteps, Steps, Goto
  <1>6. ASSUME NEW r \in Requests, UpdateStatus(r) PROVE StepFitsRequest(s)'
    BY <1>6 DEF UpdateStatus, IdleRequest
  <1>7. CASE UNCHANGED req
    BY <1>7
  <1> QED
    BY <1>0, <1>1, <1>2, <1>3, <1>4, <1>5, <1>6, <1>7
       DEF Next, ArchiveDocument, ArchiveProject, FinishProject, NewYear
\* An UPDATE of a row's status or archived flag leaves a row.
LEMMA RowUpdate ==
    ASSUME NEW row \in Row, NEW status \in Statuses, NEW active \in BOOLEAN
    PROVE  /\ [row EXCEPT !.status = status] \in Row
           /\ [row EXCEPT !.active = active] \in Row
           /\ row # None
           /\ [row EXCEPT !.status = status] # None
           /\ [row EXCEPT !.active = active] # None
  <1>1. [row EXCEPT !.status = status] \in Row
    BY DEF Row
  <1>2. [row EXCEPT !.active = active] \in Row
    BY DEF Row
  <1> QED
    BY <1>1, <1>2, NoneAssumption

\* How a step may change the rows: apart from the row a transaction inserts,
\* only a status or the archived flag.
LEMMA RowsOnlyMove ==
    ASSUME Inv, [Next]_vars, NEW d \in Docs, Exists(d)
    PROVE  /\ Exists(d)'
           /\ documents'[d].type = documents[d].type
           /\ documents'[d].parent = documents[d].parent
           /\ documents'[d].year = documents[d].year
           /\ documents'[d].seq = documents[d].seq
  <1> USE NoneAssumption DEF Exists
  <1> documents \in [Docs -> Row \cup {None}]
    BY DEF Inv, TypeOK, LedgerTypeOK
  <1> documents[d] \in Row
    OBVIOUS
  <1> DEFINE Kept == /\ documents'[d] # None
                     /\ documents'[d].type = documents[d].type
                     /\ documents'[d].parent = documents[d].parent
                     /\ documents'[d].year = documents[d].year
                     /\ documents'[d].seq = documents[d].seq
  <1>1. CASE UNCHANGED documents
    BY <1>1
  <1>2. ASSUME NEW r \in Requests, Commit(r) PROVE Kept
    <2>1. d # req[r].new
      BY DEF Inv, NewIdIsFree
    <2>2. documents'[d] \in {documents[d], [documents[d] EXCEPT !.status = "ACCEPTED"]}
      BY <1>2, <2>1 DEF Commit
    <2>3. [documents[d] EXCEPT !.status = "ACCEPTED"] # None
      BY RowUpdate DEF Statuses
    <2> QED
      BY <2>2, <2>3 DEF Row
  <1>3. ASSUME NEW r \in Requests, UpdateStatus(r) PROVE Kept
    <2>1. req[r].want \in Statuses
      BY DEF Inv, TypeOK, Request
    <2>2. documents'[d] \in {documents[d], [documents[d] EXCEPT !.status = req[r].want]}
      BY <1>3 DEF UpdateStatus
    <2>3. [documents[d] EXCEPT !.status = req[r].want] # None
      BY <2>1, RowUpdate
    <2> QED
      BY <2>2, <2>3 DEF Row
  <1>4. ASSUME NEW e \in Docs, NEW active \in BOOLEAN, ArchiveDocument(e, active)
        PROVE  Kept
    BY <1>4 DEF ArchiveDocument, SetDocumentActive, Row
  <1>5. ASSUME NEW r \in Requests, Arrive(r) PROVE UNCHANGED documents
    BY <1>5, Arrival
  <1> QED
    BY <1>1, <1>2, <1>3, <1>4, <1>5
       DEF Next, vars, Proceed, FlipToAccepted, TakeNumberingLock, RefuseAccept,
           ReadLastNumber, CheckProjectCompleted, CheckNotInvoiced, InsertDocument,
           InsertProject, Rollback, Fail, ArchiveProject, FinishProject, NewYear,
           SetProjectActive, CompleteProject
\* What a step may do to a slot: a request arrives in it, ends in it, or goes
\* on as the request it is.
SameRequest(s) ==
    /\ req'[s].op = req[s].op
    /\ req'[s].type = req[s].type
    /\ req'[s].target = req[s].target
    /\ req'[s].want = req[s].want
    /\ req'[s].new = req[s].new

LEMMA SlotChange ==
    ASSUME Inv, [Next]_vars, NEW s \in Requests
    PROVE  \/ Arrive(s)
           \/ req'[s] = IdleRequest
           \/ SameRequest(s)
  <1> USE DEF SameRequest
  <1> req \in [Requests -> Request] /\ req[s] \in Request
    BY DEF Inv, TypeOK
  <1> USE DEF Request
  <1> DEFINE Change == Arrive(s) \/ req'[s] = IdleRequest \/ SameRequest(s)
  <1>1. CASE UNCHANGED vars
    BY <1>1 DEF vars
  <1>2. ASSUME NEW r \in Requests, r # s, Arrive(r) PROVE Change
    BY <1>2, Arrival
  <1>3. ASSUME NEW r \in Requests, FlipToAccepted(r) PROVE Change
    BY <1>3 DEF FlipToAccepted
  <1>4. ASSUME NEW r \in Requests, ReadLastNumber(r) PROVE Change
    BY <1>4 DEF ReadLastNumber
  <1>5. ASSUME NEW r \in Requests, Commit(r) \/ Rollback(r) \/ UpdateStatus(r)
        PROVE  Change
    BY <1>5 DEF Commit, Rollback, UpdateStatus
  <1>6. ASSUME NEW r \in Requests, NEW step \in Steps, Goto(r, step) PROVE Change
    BY <1>6 DEF Goto
  <1>7. ASSUME NEW r \in Requests,
               \/ TakeNumberingLock(r) \/ RefuseAccept(r) \/ CheckProjectCompleted(r)
               \/ CheckNotInvoiced(r) \/ InsertDocument(r) \/ InsertProject(r) \/ Fail(r)
        PROVE  \E step \in Steps : Goto(r, step)
    BY <1>7 DEF TakeNumberingLock, RefuseAccept, CheckProjectCompleted, CheckNotInvoiced,
       InsertDocument, InsertProject, Fail, Steps
  <1>8. CASE UNCHANGED req
    BY <1>8
  <1> QED
    BY <1>1, <1>2, <1>3, <1>4, <1>5, <1>6, <1>7, <1>8
       DEF Next, Proceed, ArchiveDocument, ArchiveProject, FinishProject, NewYear

LEMMA TargetFitsStep ==
    Inv /\ [Next]_vars => \A s \in Requests : TargetFitsRequest(s)'
  <1> SUFFICES ASSUME Inv, [Next]_vars, NEW s \in Requests PROVE TargetFitsRequest(s)'
    OBVIOUS
  <1> USE NoneAssumption DEF TargetFitsRequest
  <1>1. CASE Arrive(s)
    BY <1>1, Arrival DEF ArrivedSlot, Exists
  <1>2. CASE req'[s] = IdleRequest
    BY <1>2 DEF IdleRequest
  <1>3. CASE SameRequest(s)
    <2>1. TargetFitsRequest(s) /\ req[s].target \in Docs \cup {None}
      BY DEF Inv, TypeOK, Request
    <2>2. CASE req[s].target = None
      BY <1>3, <2>1, <2>2 DEF SameRequest
    <2>3. CASE req[s].target \in Docs
      <3>1. Exists(req[s].target)
        BY <2>1, <2>3
      <3>2. /\ documents'[req[s].target] # None
            /\ documents'[req[s].target].type = documents[req[s].target].type
        BY <2>3, <3>1, RowsOnlyMove DEF Exists
      <3> QED
        BY <1>3, <2>1, <3>2 DEF SameRequest, Exists
    <2> QED
      BY <2>1, <2>2, <2>3
  <1> QED
    BY <1>1, <1>2, <1>3, SlotChange

\* Only a transaction's COMMIT brings a document into being: its own.
LEMMA InsertedByCommit ==
    ASSUME Inv, [Next]_vars, NEW d \in Docs, ~Exists(d), Exists(d)'
    PROVE  \E r \in Requests : Commit(r) /\ req[r].new = d
  <1> documents \in [Docs -> Row \cup {None}]
    BY DEF Inv, TypeOK, LedgerTypeOK
  <1> USE DEF Exists
  <1>1. ASSUME NEW r \in Requests, Commit(r) PROVE req[r].new = d
    <2>1. req[r].op = "accept" => documents[req[r].target] # None
      BY DEF Inv, TargetFitsRequest
    <2> QED
      BY <1>1, <2>1 DEF Commit
  <1>2. ASSUME NEW r \in Requests, UpdateStatus(r) PROVE FALSE
    <2>1. req[r].target # None /\ documents[req[r].target] # None
      BY <1>2 DEF UpdateStatus, At, Inv, StepFitsRequest, TargetFitsRequest
    <2> QED
      BY <1>2, <2>1 DEF UpdateStatus
  <1>3. ASSUME NEW e \in Docs, NEW active \in BOOLEAN, ArchiveDocument(e, active)
        PROVE  FALSE
    BY <1>3 DEF ArchiveDocument, SetDocumentActive
  <1>4. ASSUME NEW r \in Requests, Arrive(r) PROVE UNCHANGED documents
    BY <1>4, Arrival
  <1> QED
    BY <1>1, <1>2, <1>3, <1>4
       DEF Next, vars, Proceed, FlipToAccepted, TakeNumberingLock, RefuseAccept,
           ReadLastNumber, CheckProjectCompleted, CheckNotInvoiced, InsertDocument,
           InsertProject, Rollback, Fail, ArchiveProject, FinishProject, NewYear,
           SetProjectActive, CompleteProject

LEMMA NewIdStep ==
    Inv /\ [Next]_vars => \A s \in Requests : NewIdIsFree(s)'
  <1> SUFFICES ASSUME Inv, [Next]_vars, NEW s \in Requests PROVE NewIdIsFree(s)'
    OBVIOUS
  <1> req \in [Requests -> Request]
    BY DEF Inv, TypeOK
  <1>1. \A r \in Requests : NewIdIsFree(r)
    BY DEF Inv
  <1>2. ASSUME NEW r \in Requests, Arrive(r) PROVE NewIdIsFree(s)'
    BY <1>1, <1>2, Arrival, NoneAssumption DEF NewIdIsFree, ArrivedSlot, IsFree, Exists
  <1>3. CASE \A r \in Requests : ~Arrive(r)
    <2>1. \A r \in Requests : req'[r].new \in {req[r].new, None}
      BY <1>3, SlotChange DEF SameRequest, IdleRequest
    <2>2. ASSUME req'[s].new # None, documents'[req[s].new] # None PROVE FALSE
      <3>1. req[s].new \in Docs /\ ~Exists(req[s].new) /\ req'[s].new = req[s].new
        BY <1>1, <2>1, <2>2 DEF Request, NewIdIsFree
      <3>2. PICK r \in Requests : Commit(r) /\ req[r].new = req[s].new
        BY <2>2, <3>1, InsertedByCommit DEF Exists
      <3>3. r = s
        BY <1>1, <3>1, <3>2, NoneAssumption DEF NewIdIsFree
      <3> QED
        BY <2>2, <3>2, <3>3 DEF Commit, IdleRequest
    <2> QED
      BY <1>1, <2>1, <2>2 DEF NewIdIsFree, Exists
  <1> QED
    BY <1>2, <1>3

-----------------------------------------------------------------------------
(* Locks. *)

LEMMA LocksStep == Inv /\ [Next]_vars => LocksAreHeldByTransactions'
  <1> SUFFICES ASSUME Inv, [Next]_vars PROVE LocksAreHeldByTransactions'
    OBVIOUS
  <1> USE RequestsAssumption DEF LocksAreHeldByTransactions, TxSteps, Steps
  <1> LocksAreHeldByTransactions
    BY DEF Inv
  <1> /\ req \in [Requests -> Request]
      /\ numLock \in [Prefixes -> Requests \cup {None}]
      /\ rowLock \in [Docs -> Requests \cup {None}]
    BY DEF Inv, TypeOK
  <1>0. CASE UNCHANGED <<numLock, rowLock, req>>
    BY <1>0
  <1>1. ASSUME NEW r \in Requests, Arrive(r) PROVE LocksAreHeldByTransactions'
    BY <1>1, Arrival DEF Idle
  <1>2. ASSUME NEW r \in Requests, FlipToAccepted(r) PROVE LocksAreHeldByTransactions'
    <2>1. req'[r].pc = "lock"
      BY <1>2 DEF FlipToAccepted, Request
    <2> QED
      BY <1>2, <2>1 DEF FlipToAccepted
  <1>3. ASSUME NEW r \in Requests, TakeNumberingLock(r) PROVE LocksAreHeldByTransactions'
    <2>1. req'[r].pc = "number"
      BY <1>3 DEF TakeNumberingLock, Goto, Request
    <2> QED
      BY <1>3, <2>1 DEF TakeNumberingLock, Goto
  <1>4. ASSUME NEW r \in Requests, Commit(r) \/ Rollback(r)
        PROVE  LocksAreHeldByTransactions'
    BY <1>4 DEF Commit, Rollback, ReleaseLocks
  <1>5. ASSUME NEW r \in Requests, UpdateStatus(r) PROVE LocksAreHeldByTransactions'
    BY <1>5 DEF UpdateStatus, At
  <1>6. ASSUME NEW r \in Requests, UNCHANGED <<numLock, rowLock>>, req'[r].pc \in TxSteps,
               \A s \in Requests \ {r} : req'[s] = req[s]
        PROVE  LocksAreHeldByTransactions'
    BY <1>6
  <1>7. ASSUME NEW r \in Requests,
               \/ RefuseAccept(r) \/ ReadLastNumber(r) \/ CheckProjectCompleted(r)
               \/ CheckNotInvoiced(r) \/ InsertDocument(r) \/ InsertProject(r) \/ Fail(r)
        PROVE  /\ UNCHANGED <<numLock, rowLock>>
               /\ req'[r].pc \in TxSteps
               /\ \A s \in Requests \ {r} : req'[s] = req[s]
    BY <1>7 DEF RefuseAccept, ReadLastNumber, CheckProjectCompleted, CheckNotInvoiced,
       InsertDocument, InsertProject, Fail, Goto, Request
  <1> QED
    BY <1>0, <1>1, <1>2, <1>3, <1>4, <1>5, <1>6, <1>7
       DEF Next, Proceed, vars, ArchiveDocument, ArchiveProject, FinishProject, NewYear

\* A quote whose row a transaction has flipped changes only by its COMMIT.
LEMMA LockedRowStays ==
    ASSUME Inv, [Next]_vars, NEW d \in Docs, Exists(d), IsOpen(d),
           NEW s \in Requests, rowLock[d] = s, ~Commit(s)
    PROVE  documents'[d] = documents[d]
  <1> s # None /\ documents \in [Docs -> Row \cup {None}]
    BY RequestsAssumption DEF Inv, TypeOK, LedgerTypeOK
  <1> HIDE DEF IsOpen
  <1>1. ASSUME NEW r \in Requests, Commit(r) PROVE documents'[d] = documents[d]
    <2>1. r # s
      BY <1>1
    <2>2. req[r].op = "accept" => rowLock[req[r].target] = r
      BY <1>1 DEF Commit, At, Inv, HoldsItsLocks, NumberingSteps
    <2>3. req[r].new # d
      BY NoneAssumption DEF Inv, NewIdIsFree
    <2> QED
      BY <1>1, <2>1, <2>2, <2>3 DEF Commit
  <1>2. ASSUME NEW r \in Requests, UpdateStatus(r) PROVE documents'[d] = documents[d]
    BY <1>2 DEF UpdateStatus
  <1>3. ASSUME NEW e \in Docs, NEW active \in BOOLEAN, ArchiveDocument(e, active)
        PROVE  documents'[d] = documents[d]
    BY <1>3 DEF ArchiveDocument, SetDocumentActive
  <1>4. ASSUME NEW r \in Requests, Arrive(r) PROVE UNCHANGED documents
    BY <1>4, Arrival
  <1> QED
    BY <1>1, <1>2, <1>3, <1>4
       DEF Next, vars, Proceed, FlipToAccepted, TakeNumberingLock, RefuseAccept,
           ReadLastNumber, CheckProjectCompleted, CheckNotInvoiced, InsertDocument,
           InsertProject, Rollback, Fail, ArchiveProject, FinishProject, NewYear,
           SetProjectActive, CompleteProject

\* A lock stays with its holder until the holder's transaction ends.
LEMMA LocksStayHeld ==
    ASSUME Inv, [Next]_vars, NEW s \in Requests, req'[s] # IdleRequest
    PROVE  /\ \A p \in Prefixes : numLock[p] = s => numLock'[p] = s
           /\ \A d \in Docs : rowLock[d] = s => rowLock'[d] = s
  <1> USE RequestsAssumption
  <1> /\ req \in [Requests -> Request]
      /\ numLock \in [Prefixes -> Requests \cup {None}]
      /\ rowLock \in [Docs -> Requests \cup {None}]
    BY DEF Inv, TypeOK
  <1> DEFINE Kept == /\ \A p \in Prefixes : numLock[p] = s => numLock'[p] = s
                     /\ \A d \in Docs : rowLock[d] = s => rowLock'[d] = s
  <1>1. ASSUME NEW r \in Requests, FlipToAccepted(r) PROVE Kept
    BY <1>1 DEF FlipToAccepted
  <1>2. ASSUME NEW r \in Requests, TakeNumberingLock(r) PROVE Kept
    BY <1>2 DEF TakeNumberingLock
  <1>3. ASSUME NEW r \in Requests, Commit(r) \/ Rollback(r) PROVE Kept
    BY <1>3 DEF Commit, Rollback, ReleaseLocks
  <1>4. ASSUME NEW r \in Requests, Arrive(r) PROVE Kept
    BY <1>4, Arrival
  <1>5. CASE UNCHANGED <<numLock, rowLock>>
    BY <1>5
  <1> QED
    BY <1>1, <1>2, <1>3, <1>4, <1>5
       DEF Next, vars, Proceed, RefuseAccept, ReadLastNumber, CheckProjectCompleted,
           CheckNotInvoiced, InsertDocument, InsertProject, Fail, UpdateStatus,
           ArchiveDocument, ArchiveProject, FinishProject, NewYear
\* Which step moves a slot on.
LEMMA SlotMove ==
    ASSUME Inv, [Next]_vars, NEW s \in Requests
    PROVE  \/ Arrive(s)
           \/ req'[s] \in {req[s], IdleRequest, [req[s] EXCEPT !.pc = "rollback"]}
           \/ FlipToAccepted(s) \/ TakeNumberingLock(s) \/ ReadLastNumber(s)
           \/ CheckProjectCompleted(s) \/ CheckNotInvoiced(s)
           \/ InsertDocument(s) \/ InsertProject(s)
  <1> DEFINE Mine == \/ Arrive(s)
                     \/ req'[s] \in {req[s], IdleRequest, [req[s] EXCEPT !.pc = "rollback"]}
                     \/ FlipToAccepted(s) \/ TakeNumberingLock(s) \/ ReadLastNumber(s)
                     \/ CheckProjectCompleted(s) \/ CheckNotInvoiced(s)
                     \/ InsertDocument(s) \/ InsertProject(s)
  <1> req \in [Requests -> Request]
    BY DEF Inv, TypeOK
  <1>1. ASSUME NEW r \in Requests, r # s, Arrive(r) PROVE req'[s] = req[s]
    BY <1>1, Arrival
  <1>2. ASSUME NEW r \in Requests, r # s,
               \/ FlipToAccepted(r) \/ TakeNumberingLock(r) \/ ReadLastNumber(r)
               \/ CheckProjectCompleted(r) \/ CheckNotInvoiced(r)
               \/ InsertDocument(r) \/ InsertProject(r)
        PROVE  req'[s] = req[s]
    BY <1>2 DEF FlipToAccepted, TakeNumberingLock, ReadLastNumber, CheckProjectCompleted,
       CheckNotInvoiced, InsertDocument, InsertProject, Goto
  <1>3. ASSUME NEW r \in Requests,
               Commit(r) \/ Rollback(r) \/ UpdateStatus(r) \/ Fail(r) \/ RefuseAccept(r)
        PROVE  req'[s] \in {req[s], IdleRequest, [req[s] EXCEPT !.pc = "rollback"]}
    BY <1>3 DEF Commit, Rollback, UpdateStatus, Fail, RefuseAccept, Goto
  <1>4. CASE UNCHANGED req
    BY <1>4
  <1> QED
    BY <1>1, <1>2, <1>3, <1>4
       DEF Next, vars, Proceed, ArchiveDocument, ArchiveProject, FinishProject, NewYear

LEMMA HoldsItsLocksStep ==
    Inv /\ [Next]_vars => \A s \in Requests : HoldsItsLocks(s)'
  <1> SUFFICES ASSUME Inv, [Next]_vars, NEW s \in Requests PROVE HoldsItsLocks(s)'
    OBVIOUS
  <1> /\ req \in [Requests -> Request]
      /\ numLock \in [Prefixes -> Requests \cup {None}]
      /\ rowLock \in [Docs -> Requests \cup {None}]
    BY DEF Inv, TypeOK
  <1> HoldsItsLocks(s) /\ StepFitsRequest(s) /\ TargetFitsRequest(s)
    BY DEF Inv
  <1>p. Prefix(s) \in Prefixes
    BY DEF Prefix, Prefixes, Request
  <1>q. req[s].op = "accept" => req[s].target \in Docs /\ Exists(req[s].target)
    BY DEF TargetFitsRequest, Request
  <1>0. CASE Arrive(s) \/ req'[s] = IdleRequest
    BY <1>0, Arrival DEF ArrivedSlot, HoldsItsLocks, NumberingSteps, IdleRequest
  <1>1. ASSUME ~Arrive(s), req'[s] # IdleRequest, req'[s].pc \in NumberingSteps
        PROVE  numLock'[Prefix(s)'] = s
    <2>1. CASE TakeNumberingLock(s)
      BY <1>p, <2>1 DEF TakeNumberingLock, Goto, Prefix
    <2>2. CASE ~TakeNumberingLock(s)
      <3>1. /\ req[s].pc \in NumberingSteps
            /\ req'[s].type = req[s].type
            /\ req'[s].year = req[s].year
        <4> USE DEF NumberingSteps, At, Goto, Request
        <4>1. CASE FlipToAccepted(s)
          BY <1>1, <4>1 DEF FlipToAccepted
        <4>2. CASE ReadLastNumber(s)
          BY <4>2 DEF ReadLastNumber
        <4>3. CASE CheckProjectCompleted(s) \/ CheckNotInvoiced(s)
          BY <4>3 DEF CheckProjectCompleted, CheckNotInvoiced
        <4>4. CASE InsertDocument(s) \/ InsertProject(s)
          BY <4>4 DEF InsertDocument, InsertProject
        <4>5. CASE req'[s] \in {req[s], [req[s] EXCEPT !.pc = "rollback"]}
          BY <1>1, <4>5
        <4> QED
          BY <1>1, <2>2, <4>1, <4>2, <4>3, <4>4, <4>5, SlotMove
      <3>2. numLock[Prefix(s)] = s
        BY <3>1 DEF HoldsItsLocks
      <3> QED
        BY <1>1, <1>p, <3>1, <3>2, LocksStayHeld DEF Prefix
    <2> QED
      BY <2>1, <2>2
  <1>2. ASSUME ~Arrive(s), req'[s] # IdleRequest, req'[s].op = "accept",
               req'[s].pc \in NumberingSteps \cup {"lock"}
        PROVE  /\ rowLock'[req'[s].target] = s
               /\ documents'[req'[s].target] = documents[req[s].target]
               /\ IsOpen(req[s].target)
    <2>1. SameRequest(s)
      BY <1>1, <1>2, SlotChange
    <2>2. CASE FlipToAccepted(s)
      BY <1>q, <2>1, <2>2, <1>2 DEF FlipToAccepted, SameRequest
    <2>3. CASE ~FlipToAccepted(s)
      <3>1. req[s].pc \in NumberingSteps \cup {"lock"}
        BY <1>2, <2>3, SlotMove DEF NumberingSteps, TakeNumberingLock, ReadLastNumber,
           CheckProjectCompleted, CheckNotInvoiced, InsertDocument, InsertProject,
           At, Goto, Request
      <3>2. rowLock[req[s].target] = s /\ IsOpen(req[s].target)
        BY <1>2, <2>1, <3>1 DEF HoldsItsLocks, SameRequest
      <3>3. ~Commit(s)
        BY <1>2 DEF Commit
      <3>4. documents'[req[s].target] = documents[req[s].target]
        BY <1>2, <1>q, <2>1, <3>2, <3>3, LockedRowStays DEF SameRequest
      <3> QED
        BY <1>2, <1>q, <2>1, <3>2, <3>4, LocksStayHeld DEF SameRequest
    <2> QED
      BY <2>2, <2>3
  <1> QED
    BY <1>0, <1>1, <1>2, SlotChange DEF HoldsItsLocks, IsOpen, SameRequest

-----------------------------------------------------------------------------
(* Rows. *)

LEMMA RowsFitStep == Inv /\ [Next]_vars => RowsFitTheirType'
  <1> SUFFICES ASSUME Inv, [Next]_vars, NEW d \in Docs
               PROVE  /\ (Exists(d) /\ documents[d].type = "PROJECT" <=> projects[d] # None)'
                      /\ (Exists(d) => (documents[d].type = "PROJECT"
                                          <=> documents[d].status = "NULL"))'
    BY DEF RowsFitTheirType
  <1> USE NoneAssumption DEF Exists
  <1> DEFINE Fits == /\ documents[d] # None /\ documents[d].type = "PROJECT"
                           <=> projects[d] # None
                     /\ documents[d] # None => (documents[d].type = "PROJECT"
                                                 <=> documents[d].status = "NULL")
  <1> /\ documents \in [Docs -> Row \cup {None}]
      /\ projects \in [Docs -> ProjectRow \cup {None}]
      /\ req \in [Requests -> Request]
    BY DEF Inv, TypeOK, LedgerTypeOK
  <1> Fits
    BY DEF Inv, RowsFitTheirType
  <1>0. CASE UNCHANGED <<documents, projects>>
    BY <1>0
  <1>1. ASSUME NEW r \in Requests, Commit(r) PROVE Fits'
    <2>1. /\ NewProject # None
          /\ NewRow(req[r].type, req[r].target, req[r].year, req[r].seq) # None
      <3>1. NewProject \in ProjectRow
        BY DEF NewProject, ProjectRow
      <3> QED
        BY <1>1, <3>1, NewRowType DEF Commit
    <2>2. /\ req[r].new \in Docs /\ documents[req[r].new] = None
          /\ req[r].type = "PROJECT" <=> req[r].op \in {"accept", "project"}
      BY <1>1 DEF Commit, At, Inv, StepFitsRequest, NewIdIsFree, Request, Ops
    <2>3. CASE d = req[r].new
      <3>1. documents'[d] = NewRow(req[r].type, req[r].target, req[r].year, req[r].seq)
        BY <1>1, <2>3 DEF Commit
      <3>2. projects'[d] = IF req[r].type = "PROJECT" THEN NewProject ELSE None
        BY <1>1, <2>2, <2>3 DEF Commit
      <3> QED
        BY <2>1, <3>1, <3>2 DEF NewRow, FirstStatus
    <2>4. CASE d # req[r].new /\ req[r].op = "accept" /\ d = req[r].target
      <3>1. documents[d] \in Row /\ documents[d].type = "QUOTE"
        BY <2>4 DEF Inv, TargetFitsRequest
      <3>2. documents'[d] = [documents[d] EXCEPT !.status = "ACCEPTED"]
        BY <1>1, <2>4 DEF Commit
      <3>3. documents'[d] # None
        BY <3>1, <3>2, RowUpdate DEF Statuses
      <3>5. documents'[d].type = "QUOTE" /\ documents'[d].status = "ACCEPTED"
        BY <3>1, <3>2 DEF Row
      <3>4. projects'[d] = projects[d]
        BY <1>1, <2>2, <2>4 DEF Commit
      <3> QED
        BY <3>1, <3>3, <3>4, <3>5
    <2>5. CASE d # req[r].new /\ ~(req[r].op = "accept" /\ d = req[r].target)
      BY <1>1, <2>2, <2>5 DEF Commit
    <2> QED
      BY <2>3, <2>4, <2>5
  <1>2. ASSUME NEW r \in Requests, UpdateStatus(r) PROVE Fits'
    <2>1. /\ req[r].target \in Docs /\ documents[req[r].target] \in Row
          /\ documents[req[r].target].type # "PROJECT"
          /\ req[r].want \in Statuses
      BY <1>2 DEF UpdateStatus, At, Inv, StepFitsRequest, TargetFitsRequest, Request
    <2>2. CASE d = req[r].target
      <3>1. documents'[d] \in {documents[d], [documents[d] EXCEPT !.status = req[r].want]}
        BY <1>2, <2>2 DEF UpdateStatus
      <3>2. [documents[d] EXCEPT !.status = req[r].want] # None
        BY <2>1, <2>2, RowUpdate
      <3>3. documents'[d] # None /\ documents'[d].type = documents[d].type
                                 /\ documents'[d].status # "NULL"
        BY <2>1, <2>2, <3>1, <3>2 DEF Row, Statuses
      <3> QED
        BY <1>2, <2>1, <2>2, <3>3 DEF UpdateStatus
    <2>3. CASE d # req[r].target
      BY <1>2, <2>3 DEF UpdateStatus
    <2> QED
      BY <2>2, <2>3
  <1>3. ASSUME NEW e \in Docs, NEW active \in BOOLEAN, ArchiveDocument(e, active)
        PROVE  Fits'
    <2>1. documents[e] \in Row /\ [documents[e] EXCEPT !.active = active] # None
      BY <1>3, RowUpdate DEF ArchiveDocument, SetDocumentActive, Statuses
    <2> QED
      BY <1>3, <2>1 DEF ArchiveDocument, SetDocumentActive, Row
  <1>4. ASSUME NEW e \in Docs, NEW active \in BOOLEAN,
               ArchiveProject(e, active) \/ FinishProject(e)
        PROVE  Fits'
    <2>1. projects' \in [Docs -> ProjectRow \cup {None}]
      BY TypeStep DEF TypeOK, LedgerTypeOK
    <2>2. projects[e] \in ProjectRow /\ projects'[e] \in ProjectRow
      BY <1>4 DEF ArchiveProject, SetProjectActive, FinishProject, CompleteProject, ProjectRow
    <2> QED
      BY <1>4, <2>1, <2>2 DEF ArchiveProject, SetProjectActive, FinishProject, CompleteProject
  <1>5. ASSUME NEW r \in Requests, Arrive(r) PROVE UNCHANGED <<documents, projects>>
    BY <1>5, Arrival
  <1> QED
    BY <1>0, <1>1, <1>2, <1>3, <1>4, <1>5
       DEF Next, vars, Proceed, FlipToAccepted, TakeNumberingLock, RefuseAccept,
           ReadLastNumber, CheckProjectCompleted, CheckNotInvoiced, InsertDocument,
           InsertProject, Rollback, Fail, NewYear
\* A closed document's status is never written again, and no step sends an
\* invoice back to DRAFT.
LEMMA StatusMoves ==
    ASSUME Inv, [Next]_vars, NEW d \in Docs, Exists(d)
    PROVE  /\ documents[d].status \notin {"DRAFT", "SENT"}
                 => documents'[d].status = documents[d].status
           /\ documents[d].type = "INVOICE" /\ documents[d].status = "SENT"
                 => documents'[d].status # "DRAFT"
  <1> USE NoneAssumption DEF Exists, IsOpen
  <1> DEFINE Moves == /\ documents[d].status \notin {"DRAFT", "SENT"}
                            => documents'[d].status = documents[d].status
                      /\ documents[d].type = "INVOICE" /\ documents[d].status = "SENT"
                            => documents'[d].status # "DRAFT"
  <1> documents \in [Docs -> Row \cup {None}] /\ documents[d] \in Row
    BY DEF Inv, TypeOK, LedgerTypeOK
  <1>1. CASE UNCHANGED documents
    BY <1>1
  <1>2. ASSUME NEW r \in Requests, Commit(r) PROVE Moves
    <2>1. d # req[r].new
      BY DEF Inv, NewIdIsFree
    <2>2. req[r].op = "accept" => IsOpen(req[r].target)
      BY <1>2 DEF Commit, At, Inv, HoldsItsLocks, NumberingSteps
    <2>3. CASE req[r].op = "accept" /\ d = req[r].target
      BY <1>2, <2>1, <2>2, <2>3 DEF Commit, Row
    <2>4. CASE ~(req[r].op = "accept" /\ d = req[r].target)
      BY <1>2, <2>1, <2>4 DEF Commit
    <2> QED
      BY <2>3, <2>4
  <1>3. ASSUME NEW r \in Requests, UpdateStatus(r) PROVE Moves
    <2>1. req[r].want \in Wanted(documents[req[r].target].type)
      BY <1>3 DEF UpdateStatus, At, Inv, StepFitsRequest, TargetFitsRequest
    <2>2. CASE d = req[r].target /\ IsOpen(d)
      BY <1>3, <2>1, <2>2 DEF UpdateStatus, Row, Wanted
    <2>3. CASE ~(d = req[r].target /\ IsOpen(d))
      BY <1>3, <2>3 DEF UpdateStatus
    <2> QED
      BY <2>2, <2>3
  <1>4. ASSUME NEW e \in Docs, NEW active \in BOOLEAN, ArchiveDocument(e, active)
        PROVE  Moves
    BY <1>4 DEF ArchiveDocument, SetDocumentActive, Row
  <1>5. ASSUME NEW r \in Requests, Arrive(r) PROVE UNCHANGED documents
    BY <1>5, Arrival
  <1> QED
    BY <1>1, <1>2, <1>3, <1>4, <1>5
       DEF Next, vars, Proceed, FlipToAccepted, TakeNumberingLock, RefuseAccept,
           ReadLastNumber, CheckProjectCompleted, CheckNotInvoiced, InsertDocument,
           InsertProject, Rollback, Fail, ArchiveProject, FinishProject, NewYear,
           SetProjectActive, CompleteProject

\* Nothing reopens a completed chantier.
LEMMA CompletedStays ==
    ASSUME Inv, [Next]_vars, NEW d \in Docs, IsCompletedProject(d)
    PROVE  IsCompletedProject(d)'
  <1> USE NoneAssumption DEF IsCompletedProject
  <1> /\ projects \in [Docs -> ProjectRow \cup {None}] /\ projects[d] \in ProjectRow
      /\ projects[d].status = "COMPLETED"
    BY DEF Inv, TypeOK, LedgerTypeOK
  <1>1. Exists(d)' /\ documents'[d].type = "PROJECT"
    BY RowsOnlyMove
  <1>2. projects'[d] # None
    BY <1>1, RowsFitStep DEF RowsFitTheirType
  <1>3. ASSUME NEW r \in Requests, Commit(r) PROVE projects'[d].status = "COMPLETED"
    <2>1. d # req[r].new
      BY DEF Inv, NewIdIsFree
    <2> QED
      BY <1>3, <2>1 DEF Commit
  <1>4. ASSUME NEW e \in Docs, NEW active \in BOOLEAN,
               ArchiveProject(e, active) \/ FinishProject(e)
        PROVE  projects'[d].status = "COMPLETED"
    BY <1>4 DEF ArchiveProject, SetProjectActive, FinishProject, CompleteProject, ProjectRow
  <1>5. ASSUME NEW r \in Requests, Arrive(r) PROVE UNCHANGED projects
    BY <1>5, Arrival
  <1>6. projects'[d].status = "COMPLETED"
    BY <1>3, <1>4, <1>5
       DEF Next, vars, Proceed, FlipToAccepted, TakeNumberingLock, RefuseAccept,
           ReadLastNumber, CheckProjectCompleted, CheckNotInvoiced, InsertDocument,
           InsertProject, Rollback, Fail, UpdateStatus, ArchiveDocument,
           SetDocumentActive, NewYear
  <1> QED
    BY <1>1, <1>2, <1>6

\* A COMMIT that inserts a row takes the next number of its own prefix.
LEMMA CommitNumbers ==
    ASSUME Inv, NEW r \in Requests, Commit(r)
    PROVE  /\ req[r].new \in Docs => \A p : Used(p)' =
                 IF p = Prefix(r) THEN Used(p) \cup {req[r].seq} ELSE Used(p)
           /\ req[r].new \in Docs
           /\ req[r].seq > 0 /\ Used(Prefix(r)) = 1 .. (req[r].seq - 1)
           /\ numLock[Prefix(r)] = r
  <1> USE NoneAssumption
  <1> documents \in [Docs -> Row \cup {None}] /\ req[r] \in Request
    BY DEF Inv, TypeOK, LedgerTypeOK
  <1>1. req[r].seq > 0 /\ Used(Prefix(r)) = 1 .. (req[r].seq - 1)
    BY DEF Commit, At, Inv, ReadsAreCurrent, NumberedSteps, NumberingSteps
  <1>2. numLock[Prefix(r)] = r
    BY DEF Commit, At, Inv, HoldsItsLocks, NumberingSteps
  <1>3. req[r].new \in Docs /\ documents[req[r].new] = None
    BY DEF Commit, At, Inv, StepFitsRequest, NewIdIsFree, Request, Ops, Exists
  <1>4. /\ documents'[req[r].new] # None
        /\ documents'[req[r].new].type = req[r].type
        /\ documents'[req[r].new].year = req[r].year
        /\ documents'[req[r].new].seq = req[r].seq
    <2>1. documents'[req[r].new] = NewRow(req[r].type, req[r].target, req[r].year, req[r].seq)
      BY <1>3 DEF Commit
    <2>2. documents'[req[r].new] # None
      BY <2>1, NewRowType DEF Commit
    <2> QED
      BY <2>1, <2>2 DEF NewRow, FirstStatus
  <1>5. ASSUME NEW d \in Docs, d # req[r].new
        PROVE  /\ documents'[d] # None <=> documents[d] # None
               /\ documents[d] # None => /\ documents'[d].type = documents[d].type
                                         /\ documents'[d].year = documents[d].year
                                         /\ documents'[d].seq = documents[d].seq
    <2>1. CASE documents[d] # None
      <3>1. [Next]_vars
        BY DEF Next, Proceed
      <3> QED
        BY <2>1, <3>1, RowsOnlyMove DEF Exists
    <2>2. CASE documents[d] = None
      <3>1. ~(req[r].op = "accept" /\ d = req[r].target)
        BY <2>2 DEF Inv, TargetFitsRequest, Exists
      <3> QED
        BY <1>5, <2>2, <3>1 DEF Commit
    <2> QED
      BY <2>1, <2>2
  <1>6. ASSUME NEW p
        PROVE  Used(p)' = IF p = Prefix(r) THEN Used(p) \cup {req[r].seq} ELSE Used(p)
    BY <1>3, <1>4, <1>5 DEF Used, Exists, Prefix
  <1> QED
    BY <1>1, <1>2, <1>3, <1>6

\* Any other step keeps every number.
LEMMA NumbersStay ==
    ASSUME Inv, [Next]_vars, \A r \in Requests : ~Commit(r)
    PROVE  \A p : Used(p)' = Used(p) /\ LastSequence(p)' = LastSequence(p)
  <1>1. ASSUME NEW d \in Docs
        PROVE  /\ documents'[d] # None <=> documents[d] # None
               /\ documents[d] # None => /\ documents'[d].type = documents[d].type
                                         /\ documents'[d].year = documents[d].year
                                         /\ documents'[d].seq = documents[d].seq
    BY RowsOnlyMove, InsertedByCommit DEF Exists
  <1> QED
    BY <1>1, SameNumbers
LEMMA RowsAreNumberedStep == Inv /\ [Next]_vars => RowsAreNumbered'
  <1> SUFFICES ASSUME Inv, [Next]_vars PROVE RowsAreNumbered'
    OBVIOUS
  <1> RowsAreNumbered
    BY DEF Inv
  <1>1. ASSUME NEW r \in Requests, Commit(r) PROVE RowsAreNumbered'
    <2> DEFINE new == req[r].new
    <2>1. /\ new \in Docs /\ req[r].seq > 0 /\ req[r].seq \in Nat
          /\ Used(Prefix(r)) = 1 .. (req[r].seq - 1)
          /\ \A p : Used(p)' = IF p = Prefix(r) THEN Used(p) \cup {req[r].seq} ELSE Used(p)
      BY <1>1, CommitNumbers DEF Inv, TypeOK, Request
    <2>2. ASSUME NEW p \in Prefixes
          PROVE  LastSequence(p)' \in Nat /\ Used(p)' = 1 .. LastSequence(p)'
      <3>1. CASE p = Prefix(r)
        <4>1. Used(p)' = 1 .. req[r].seq
          <5>1. (1 .. (req[r].seq - 1)) \cup {req[r].seq} = 1 .. req[r].seq
            BY <2>1
          <5>2. Used(p)' = Used(Prefix(r)) \cup {req[r].seq}
            BY <2>1, <3>1
          <5> QED
            BY <2>1, <5>1, <5>2
        <4>2. LastSequence(p)' = req[r].seq
          BY <2>1, <4>1, LastOfInterval DEF LastSequence
        <4> QED
          BY <2>1, <4>1, <4>2
      <3>2. CASE p # Prefix(r)
        <4>1. Used(p)' = Used(p)
          BY <2>1, <3>2
        <4>2. LastSequence(p)' = LastSequence(p)
          BY <4>1 DEF LastSequence
        <4> QED
          BY <4>1, <4>2 DEF RowsAreNumbered
      <3> QED
        BY <3>1, <3>2
    <2>3. documents'[new] = NewRow(req[r].type, req[r].target, req[r].year, req[r].seq)
      BY <1>1, <2>1 DEF Commit, Inv, TypeOK, LedgerTypeOK
    <2>4. /\ documents'[new].type = req[r].type
          /\ documents'[new].year = req[r].year
          /\ documents'[new].seq = req[r].seq
      BY <2>3 DEF NewRow, FirstStatus
    <2>5. ASSUME NEW d \in Docs, d # new, documents'[d] # None
          PROVE  /\ Exists(d)
                 /\ documents'[d].type = documents[d].type
                 /\ documents'[d].year = documents[d].year
                 /\ documents'[d].seq = documents[d].seq
      <3>1. Exists(d)
        <4>1. ~(req[r].op = "accept" /\ d = req[r].target) \/ Exists(d)
          BY DEF Inv, TargetFitsRequest, Exists
        <4> QED
          BY <1>1, <2>5, <4>1 DEF Commit, Exists, Inv, TypeOK, LedgerTypeOK
      <3> QED
        BY <3>1, RowsOnlyMove
    <2>6. ASSUME NEW d \in Docs, d # new, documents'[d] # None,
                 documents'[d].type = req[r].type, documents'[d].year = req[r].year
          PROVE  documents'[d].seq # req[r].seq
      <3>1. documents[d].seq \in Used(Prefix(r))
        BY <2>5, <2>6 DEF Used, Prefix
      <3> QED
        BY <2>1, <2>5, <2>6, <3>1
    <2> QED
      BY <2>2, <2>4, <2>5, <2>6 DEF RowsAreNumbered, Exists
  <1>2. CASE \A r \in Requests : ~Commit(r)
    <2>1. \A p : Used(p)' = Used(p) /\ LastSequence(p)' = LastSequence(p)
      BY <1>2, NumbersStay
    <2>2. \A d \in Docs : Exists(d)' => Exists(d)
      BY <1>2, InsertedByCommit
    <2>3. ASSUME NEW d \in Docs, Exists(d)'
          PROVE  /\ documents'[d].type = documents[d].type
                 /\ documents'[d].year = documents[d].year
                 /\ documents'[d].seq = documents[d].seq
      BY <2>2, <2>3, RowsOnlyMove
    <2> QED
      BY <2>1, <2>2, <2>3 DEF RowsAreNumbered
  <1> QED
    BY <1>1, <1>2

-----------------------------------------------------------------------------
(* What a request has read stays true while it holds its locks. *)

\* Two requests past the numbering lock of one prefix are one request.
LEMMA OneHolder ==
    ASSUME Inv, NEW r \in Requests, NEW s \in Requests, Commit(r),
           req[s].pc \in NumberingSteps, Prefix(r) = Prefix(s)
    PROVE  r = s
  BY CommitNumbers DEF Inv, HoldsItsLocks

\* While a request holds the invoices' numbering lock of the only year there
\* is, no other invoice comes to bill its chantier.
LEMMA StaysUnbilled ==
    ASSUME Inv, [Next]_vars, FirstYear = LastYear, NEW s \in Requests,
           req[s].pc \in NumberingSteps, req[s].type = "INVOICE", ~Commit(s),
           NEW t \in Docs, LiveInvoices(t) = {}
    PROVE  LiveInvoices(t)' = {}
  <1> SUFFICES ASSUME NEW d \in Docs, d \in LiveInvoices(t)' PROVE FALSE
    BY DEF LiveInvoices
  <1> USE DEF LiveInvoices
  <1>1. CASE Exists(d)
    BY <1>1, RowsOnlyMove, StatusMoves
  <1>2. CASE ~Exists(d)
    <2>1. PICK r \in Requests : Commit(r) /\ req[r].new = d
      BY <1>2, InsertedByCommit
    <2>2. documents'[d] = NewRow(req[r].type, req[r].target, req[r].year, req[r].seq)
      BY <2>1 DEF Commit, Inv, TypeOK, LedgerTypeOK
    <2>3. req[r].type = "INVOICE"
      BY <2>2 DEF NewRow, FirstStatus
    <2>4. req[r].year = req[s].year
      BY YearAssumption DEF Inv, TypeOK, Request, Years
    <2>5. r = s
      BY <2>1, <2>3, <2>4, OneHolder DEF Prefix
    <2> QED
      BY <2>1, <2>5
  <1> QED
    BY <1>1, <1>2

LEMMA ReadsAreCurrentStep ==
    Inv /\ [Next]_vars => \A s \in Requests : ReadsAreCurrent(s)'
  <1> SUFFICES ASSUME Inv, [Next]_vars, NEW s \in Requests PROVE ReadsAreCurrent(s)'
    OBVIOUS
  <1> /\ req \in [Requests -> Request] /\ req[s] \in Request
    BY DEF Inv, TypeOK
  <1> ReadsAreCurrent(s) /\ TargetFitsRequest(s) /\ StepFitsRequest(s)
    BY DEF Inv
  <1>0. CASE Arrive(s) \/ req'[s] \in {IdleRequest, [req[s] EXCEPT !.pc = "rollback"]}
                      \/ FlipToAccepted(s) \/ TakeNumberingLock(s)
    BY <1>0, Arrival DEF ArrivedSlot, ReadsAreCurrent, NumberedSteps, NumberingSteps,
       IdleRequest, FlipToAccepted, TakeNumberingLock, Goto, Request
  <1>1. CASE ReadLastNumber(s)
    <2>1. /\ req'[s].seq = LastSequence(Prefix(s)) + 1
          /\ req'[s].type = req[s].type /\ req'[s].year = req[s].year
          /\ req'[s].op = req[s].op /\ req'[s].target = req[s].target
          /\ req'[s].pc = IF req[s].op = "create" /\ req[s].target # None
                          THEN "check_project" ELSE "insert"
      BY <1>1 DEF ReadLastNumber, NextNumber, Request
    <2>2. Prefix(s) \in Prefixes
      BY DEF Prefix, Prefixes, Request
    <2>3. LastSequence(Prefix(s)) \in Nat /\ Used(Prefix(s)) = 1 .. LastSequence(Prefix(s))
      BY <2>2 DEF Inv, RowsAreNumbered
    <2>4. Used(Prefix(s))' = Used(Prefix(s))
      BY <1>1, <2>1 DEF ReadLastNumber, Used, Exists, Prefix
    <2> QED
      BY <2>1, <2>3, <2>4 DEF ReadsAreCurrent
  <1>2. CASE \/ req'[s] = req[s] \/ CheckProjectCompleted(s) \/ CheckNotInvoiced(s)
            \/ InsertDocument(s) \/ InsertProject(s)
    <2>1. /\ req'[s].seq = req[s].seq
          /\ req'[s].type = req[s].type /\ req'[s].year = req[s].year
          /\ req'[s].op = req[s].op /\ req'[s].target = req[s].target
          /\ req'[s].pc \in NumberedSteps => req[s].pc \in NumberedSteps
      BY <1>2 DEF CheckProjectCompleted, CheckNotInvoiced, InsertDocument, InsertProject,
         At, Goto, Request, NumberedSteps, NumberingSteps
    <2>2. ~Commit(s) \/ req'[s].pc = "idle"
      BY DEF Commit, IdleRequest
    <2>3. ASSUME req'[s].pc \in NumberedSteps
          PROVE  req'[s].seq > 0 /\ Used(Prefix(s))' = 1 .. (req'[s].seq - 1)
      <3>1. req[s].seq > 0 /\ Used(Prefix(s)) = 1 .. (req[s].seq - 1)
        BY <2>1, <2>3 DEF ReadsAreCurrent
      <3>2. ~Commit(s)
        BY <2>2, <2>3 DEF NumberedSteps, NumberingSteps
      <3>3. \A r \in Requests : Commit(r) => Prefix(r) # Prefix(s)
        BY <2>1, <2>3, <3>2, OneHolder DEF NumberedSteps
      <3>4. ASSUME NEW p, p = Prefix(s) PROVE Used(p)' = Used(p)
        BY <3>3, <3>4, CommitNumbers, NumbersStay
      <3>5. Prefix(s)' = Prefix(s)
        BY <2>1 DEF Prefix
      <3>6. Used(Prefix(s))' = Used(Prefix(s))
        BY <3>4, <3>5
      <3> QED
        BY <2>1, <3>1, <3>6
    <2>4. ASSUME req'[s].op = "create", req'[s].target # None
          PROVE  /\ req'[s].pc \in {"check_invoiced", "insert", "commit"}
                       => IsCompletedProject(req[s].target)'
                 /\ FirstYear = LastYear /\ req'[s].pc \in {"insert", "commit"}
                       => LiveInvoices(req[s].target)' = {}
      <3>1. req[s].type = "INVOICE" /\ req[s].target \in Docs
        BY <2>1, <2>4 DEF TargetFitsRequest, StepFitsRequest, Request, Types
      <3>2. ASSUME req'[s].pc \in {"check_invoiced", "insert", "commit"}
            PROVE  IsCompletedProject(req[s].target)'
        <4>1. IsCompletedProject(req[s].target)
          <5> USE DEF At, Goto, Request
          <5>1. CASE CheckProjectCompleted(s)
            BY <3>2, <5>1 DEF CheckProjectCompleted
          <5>2. CASE req[s].pc \in {"check_invoiced", "insert", "commit"}
            BY <2>1, <2>4, <5>2 DEF ReadsAreCurrent
          <5>3. ~InsertProject(s)
            BY <3>1 DEF InsertProject, StepFitsRequest
          <5>4. CheckNotInvoiced(s) \/ InsertDocument(s) \/ req'[s] = req[s]
                  => req[s].pc \in {"check_invoiced", "insert", "commit"}
            BY <3>2 DEF CheckNotInvoiced, InsertDocument
          <5> QED
            BY <1>2, <5>1, <5>2, <5>3, <5>4
        <4>2. ASSUME NEW t \in Docs, t = req[s].target PROVE IsCompletedProject(t)'
          BY <4>1, <4>2, CompletedStays
        <4> QED
          BY <2>1, <3>1, <4>2 DEF IsCompletedProject, Exists
      <3>3. ASSUME FirstYear = LastYear, req'[s].pc \in {"insert", "commit"}
            PROVE  LiveInvoices(req[s].target)' = {}
        <4>1. LiveInvoices(req[s].target) = {}
          <5> USE DEF At, Goto, Request
          <5>1. CASE CheckNotInvoiced(s)
            BY <3>3, <5>1 DEF CheckNotInvoiced, AlreadyInvoiced
          <5>2. CASE req[s].pc \in {"insert", "commit"}
            BY <2>1, <2>4, <3>3, <5>2 DEF ReadsAreCurrent
          <5>3. ~InsertProject(s) /\ ~CheckProjectCompleted(s)
            BY <3>1, <3>3 DEF InsertProject, CheckProjectCompleted, StepFitsRequest
          <5>4. InsertDocument(s) \/ req'[s] = req[s] => req[s].pc \in {"insert", "commit"}
            BY <3>3 DEF InsertDocument
          <5> QED
            BY <1>2, <5>1, <5>2, <5>3, <5>4
        <4>2. req[s].pc \in NumberingSteps /\ ~Commit(s)
          BY <2>1, <2>2, <3>3 DEF NumberedSteps, NumberingSteps
        <4>3. ASSUME NEW t \in Docs, t = req[s].target PROVE LiveInvoices(t)' = {}
          BY <3>1, <3>3, <4>1, <4>2, <4>3, StaysUnbilled
        <4> QED
          BY <2>1, <3>1, <4>3
      <3> QED
        BY <3>2, <3>3
    <2> QED
      BY <2>1, <2>3, <2>4 DEF ReadsAreCurrent
  <1> QED
    BY <1>0, <1>1, <1>2, SlotMove
-----------------------------------------------------------------------------
(* The inductive invariant. *)

LEMMA InvInit == Init => Inv
  <1> SUFFICES ASSUME Init PROVE Inv
    OBVIOUS
  <1> USE YearAssumption, NoneAssumption, RequestsAssumption DEF Init, LedgerInit
  <1>1. TypeOK
    BY IdleRequestType DEF TypeOK, LedgerTypeOK, Years
  <1>2. LocksAreHeldByTransactions
    BY DEF LocksAreHeldByTransactions
  <1>3. RowsAreNumbered
    <2>1. \A p : Used(p) = 1 .. 0
      BY DEF Used, Exists
    <2>2. \A p : LastSequence(p) = 0
      BY <2>1, LastOfInterval DEF LastSequence
    <2> QED
      BY <2>1, <2>2 DEF RowsAreNumbered, Exists
  <1>4. RowsFitTheirType
    BY DEF RowsFitTheirType, Exists
  <1>5. ASSUME NEW r \in Requests
        PROVE  /\ StepFitsRequest(r) /\ TargetFitsRequest(r) /\ NewIdIsFree(r)
               /\ HoldsItsLocks(r) /\ ReadsAreCurrent(r)
    BY DEF IdleRequest, StepFitsRequest, TargetFitsRequest, NewIdIsFree, HoldsItsLocks,
       ReadsAreCurrent, NumberedSteps, NumberingSteps
  <1> QED
    BY <1>1, <1>2, <1>3, <1>4, <1>5 DEF Inv

LEMMA InvStep == Inv /\ [Next]_vars => Inv'
  BY TypeStep, LocksStep, RowsAreNumberedStep, RowsFitStep, StepFitsStep,
     TargetFitsStep, NewIdStep, HoldsItsLocksStep, ReadsAreCurrentStep DEF Inv

THEOREM Invariance == Spec => []Inv
  <1>1. Init => Inv
    BY InvInit
  <1>2. Inv /\ [Next]_vars => Inv'
    BY InvStep
  <1> QED
    BY <1>1, <1>2, PTL DEF Spec

-----------------------------------------------------------------------------
(* What it gives. *)

\* Every variable keeps its type through every statement of every request.
THEOREM TypeCorrect == Spec => []TypeOK
  <1>1. Inv => TypeOK
    BY DEF Inv
  <1> QED
    BY <1>1, Invariance, PTL

\* However creations, acceptances, failures and the turn of the year
\* interleave, each prefix is numbered 1, 2, ... with no gap and no repeat.
THEOREM Numbering == Spec => []NumberedInSequence
  <1>1. Inv => NumberedInSequence
    BY DEF Inv, RowsAreNumbered, NumberedInSequence
  <1> QED
    BY <1>1, Invariance, PTL

\* The number generateDocumentNumber answers is still free at the INSERT: the
\* UNIQUE constraint never refuses a creation.
THEOREM NumbersAreFree == Spec => []NumberStillFree
  <1>1. ASSUME Inv, NEW r \in Requests, At(r, "insert")
        PROVE  req[r].seq \notin Used(Prefix(r)) /\ ~NumberPending(r)
    <2>1. req[r].seq \in Nat /\ Used(Prefix(r)) = 1 .. (req[r].seq - 1)
      BY <1>1 DEF Inv, TypeOK, Request, ReadsAreCurrent, At, NumberedSteps, NumberingSteps
    <2>2. ASSUME NEW o \in Requests, o # r, Inserted(o), Prefix(o) = Prefix(r) PROVE FALSE
      <3>1. numLock[Prefix(r)] = r
        BY <1>1 DEF Inv, HoldsItsLocks, At, NumberingSteps
      <3>2. numLock[Prefix(o)] = o
        BY <1>1, <2>2 DEF Inv, HoldsItsLocks, Inserted, NumberingSteps
      <3> QED
        BY <2>2, <3>1, <3>2
    <2> QED
      BY <2>1, <2>2 DEF NumberPending
  <1>2. Inv => NumberStillFree
    BY <1>1 DEF NumberStillFree
  <1> QED
    BY <1>2, Invariance, PTL

\* No failure, at whatever statement, leaves a lock behind.
THEOREM LocksAreReleased == Spec => []LocksAreHeldByTransactions
  <1>1. Inv => LocksAreHeldByTransactions
    BY DEF Inv
  <1> QED
    BY <1>1, Invariance, PTL

\* Closed documents stay closed and sent invoices stay sent, whatever request
\* read an older status.
THEOREM History == Spec => HistoryIsKept
  <1>1. Inv /\ [Next]_vars =>
          [\A d \in Docs : Exists(d) =>
             /\ documents'[d] # None
             /\ documents'[d].type = documents[d].type
             /\ documents'[d].parent = documents[d].parent
             /\ documents'[d].year = documents[d].year
             /\ documents'[d].seq = documents[d].seq
             /\ documents[d].status \notin {"DRAFT", "SENT"}
                   => documents'[d].status = documents[d].status
             /\ documents[d].type = "INVOICE" /\ documents[d].status = "SENT"
                   => documents'[d].status # "DRAFT"]_tables
    BY RowsOnlyMove, StatusMoves DEF Exists
  <1> QED
    BY <1>1, Invariance, PTL DEF Spec, HistoryIsKept

\* No failure leaves a PROJECT document without its projects row.
THEOREM NoOrphans == Spec => []NoOrphanChantier
  <1>1. Inv => NoOrphanChantier
    BY DEF Inv, RowsFitTheirType, NoOrphanChantier
  <1> QED
    BY <1>1, Invariance, PTL
\* The row a COMMIT inserts, where the others stay.
LEMMA CommittedRow ==
    ASSUME Inv, NEW r \in Requests, Commit(r)
    PROVE  /\ req[r].new \in Docs
           /\ documents'[req[r].new] # None
           /\ documents'[req[r].new].type = req[r].type
           /\ documents'[req[r].new].parent = req[r].target
           /\ documents'[req[r].new].status = IF req[r].type = "PROJECT" THEN "NULL" ELSE "DRAFT"
  <1>1. req[r].new \in Docs
    BY CommitNumbers
  <1>2. documents'[req[r].new] = NewRow(req[r].type, req[r].target, req[r].year, req[r].seq)
    BY <1>1 DEF Commit, Inv, TypeOK, LedgerTypeOK
  <1>3. NewRow(req[r].type, req[r].target, req[r].year, req[r].seq) # None
    BY NewRowType, NoneAssumption DEF Commit
  <1> QED
    BY <1>1, <1>2, <1>3 DEF NewRow, FirstStatus

\* A chantier is closed before it is billed, and stays so.
THEOREM BilledWhenCompleted == Spec => []BilledOnlyWhenCompleted
  <1>1. Init => BilledOnlyWhenCompleted
    BY DEF Init, LedgerInit, BilledOnlyWhenCompleted, Exists
  <1>2. Inv /\ BilledOnlyWhenCompleted /\ [Next]_vars => BilledOnlyWhenCompleted'
    <2> SUFFICES ASSUME Inv, BilledOnlyWhenCompleted, [Next]_vars, NEW d \in Docs,
                        documents'[d] # None, documents'[d].type = "INVOICE",
                        NEW p, p = documents'[d].parent, p # None
                 PROVE  IsCompletedProject(p)'
      BY DEF BilledOnlyWhenCompleted, Exists, IsCompletedProject
    <2>1. p \in Docs
      BY TypeStep DEF TypeOK, LedgerTypeOK, Row
    <2>2. IsCompletedProject(p)
      <3>1. CASE Exists(d)
        BY <3>1, RowsOnlyMove DEF BilledOnlyWhenCompleted
      <3>2. CASE ~Exists(d)
        <4>1. PICK r \in Requests : Commit(r) /\ req[r].new = d
          BY <3>2, InsertedByCommit DEF Exists
        <4>2. req[r].type = "INVOICE" /\ req[r].target = p
          BY <4>1, CommittedRow
        <4>3. req[r].op = "create" /\ req[r].pc = "commit"
          BY <4>1, <4>2 DEF Commit, At, Inv, StepFitsRequest, TypeOK, Request, Ops
        <4> QED
          BY <4>2, <4>3 DEF Inv, ReadsAreCurrent
      <3> QED
        BY <3>1, <3>2
    <2> QED
      BY <2>1, <2>2, CompletedStays
  <1> QED
    BY <1>1, <1>2, Invariance, PTL DEF Spec

\* Within one calendar year a chantier never has two live invoices.  (Across
\* New Year it can: the numbering lock is that of one year's prefix.)
THEOREM OneLiveInvoice ==
    ASSUME FirstYear = LastYear
    PROVE  Spec => []OneLiveInvoicePerProject
  <1>1. Init => OneLiveInvoicePerProject
    BY DEF Init, LedgerInit, OneLiveInvoicePerProject, LiveInvoices, Exists
  <1>2. Inv /\ OneLiveInvoicePerProject /\ [Next]_vars => OneLiveInvoicePerProject'
    <2> SUFFICES ASSUME Inv, OneLiveInvoicePerProject, [Next]_vars,
                        NEW d \in Docs, NEW e \in Docs, NEW p \in Docs,
                        d \in LiveInvoices(p)', e \in LiveInvoices(p)'
                 PROVE  d = e
      BY DEF OneLiveInvoicePerProject
    <2>1. ASSUME NEW x \in Docs, x \in LiveInvoices(p)'
          PROVE  \/ x \in LiveInvoices(p)
                 \/ \E r \in Requests : /\ Commit(r) /\ req[r].new = x
                                         /\ LiveInvoices(p) = {}
      <3>1. CASE Exists(x)
        BY <2>1, <3>1, RowsOnlyMove, StatusMoves DEF LiveInvoices
      <3>2. CASE ~Exists(x)
        <4>1. PICK r \in Requests : Commit(r) /\ req[r].new = x
          BY <2>1, <3>2, InsertedByCommit DEF LiveInvoices
        <4>2. req[r].type = "INVOICE" /\ req[r].target = p
          BY <2>1, <4>1, CommittedRow DEF LiveInvoices
        <4>3. req[r].op = "create" /\ req[r].pc = "commit"
          BY <4>1, <4>2 DEF Commit, At, Inv, StepFitsRequest, TypeOK, Request, Ops
        <4>4. LiveInvoices(p) = {}
          BY <4>2, <4>3, NoneAssumption DEF Inv, ReadsAreCurrent
        <4> QED
          BY <4>1, <4>4
      <3> QED
        BY <3>1, <3>2
    <2>2. CASE LiveInvoices(p) = {}
      <3>1. PICK r \in Requests : Commit(r) /\ req[r].new = d
        BY <2>1, <2>2
      <3>2. PICK o \in Requests : Commit(o) /\ req[o].new = e
        BY <2>1, <2>2
      <3>3. ~Exists(d) /\ ~Exists(e)
        BY <3>1, <3>2, CommitNumbers, NoneAssumption DEF Inv, NewIdIsFree
      <3>4. ASSUME d # e PROVE FALSE
        <4>1. e = req[r].new
          <5>1. req[r].op = "accept" => Exists(req[r].target)
            BY DEF Inv, TargetFitsRequest
          <5> QED
            BY <3>1, <3>3, <5>1 DEF Commit, Exists, LiveInvoices, Inv, TypeOK, LedgerTypeOK
        <4> QED
          BY <3>1, <3>4, <4>1
      <3> QED
        BY <3>4
    <2>3. CASE LiveInvoices(p) # {}
      BY <2>1, <2>3 DEF OneLiveInvoicePerProject
    <2> QED
      BY <2>2, <2>3
  <1> QED
    BY <1>1, <1>2, Invariance, PTL DEF Spec
\* A document's parent is a document.
ParentsExist ==
    \A d \in Docs : Exists(d) /\ documents[d].parent # None
                       => Exists(documents[d].parent)

LEMMA ParentsStep == Inv /\ ParentsExist /\ [Next]_vars => ParentsExist'
  <1> SUFFICES ASSUME Inv, ParentsExist, [Next]_vars, NEW d \in Docs, documents'[d] # None,
                      NEW p, p = documents'[d].parent, p # None
               PROVE  documents'[p] # None
    BY DEF ParentsExist, Exists
  <1>1. p \in Docs
    BY TypeStep DEF TypeOK, LedgerTypeOK, Row
  <1>2. Exists(p)
    <2>1. CASE Exists(d)
      BY <2>1, RowsOnlyMove DEF ParentsExist
    <2>2. CASE ~Exists(d)
      <3>1. PICK r \in Requests : Commit(r) /\ req[r].new = d
        BY <2>2, InsertedByCommit DEF Exists
      <3>2. req[r].target = p
        BY <3>1, CommittedRow
      <3> QED
        BY <3>2 DEF Inv, TargetFitsRequest
    <2> QED
      BY <2>1, <2>2
  <1> QED
    BY <1>1, <1>2, RowsOnlyMove DEF Exists

\* What becomes ACCEPTED, and how: only in the COMMIT of its own acceptance.
LEMMA AcceptedByCommit ==
    ASSUME Inv, [Next]_vars, NEW q \in Docs, Exists(q),
           documents'[q].status = "ACCEPTED", documents[q].status # "ACCEPTED"
    PROVE  \E r \in Requests : Commit(r) /\ req[r].op = "accept" /\ req[r].target = q
  <1> USE NoneAssumption DEF Exists, IsOpen
  <1> documents \in [Docs -> Row \cup {None}] /\ documents[q] \in Row
    BY DEF Inv, TypeOK, LedgerTypeOK
  <1>1. ASSUME NEW r \in Requests, Commit(r)
        PROVE  req[r].op = "accept" /\ req[r].target = q
    <2>1. q # req[r].new
      BY DEF Inv, NewIdIsFree
    <2> QED
      BY <1>1, <2>1 DEF Commit
  <1>2. ASSUME NEW r \in Requests, UpdateStatus(r) PROVE FALSE
    <2>1. req[r].want \in Wanted(documents[req[r].target].type)
      BY <1>2 DEF UpdateStatus, At, Inv, StepFitsRequest, TargetFitsRequest
    <2>2. q = req[r].target /\ IsOpen(q)
      BY <1>2 DEF UpdateStatus
    <2> QED
      BY <1>2, <2>1, <2>2 DEF UpdateStatus, Row, Wanted
  <1>3. ASSUME NEW e \in Docs, NEW active \in BOOLEAN, ArchiveDocument(e, active)
        PROVE  FALSE
    BY <1>3 DEF ArchiveDocument, SetDocumentActive, Row
  <1>4. ASSUME NEW r \in Requests, Arrive(r) PROVE UNCHANGED documents
    BY <1>4, Arrival
  <1> QED
    BY <1>1, <1>2, <1>3, <1>4
       DEF Next, vars, Proceed, FlipToAccepted, TakeNumberingLock, RefuseAccept,
           ReadLastNumber, CheckProjectCompleted, CheckNotInvoiced, InsertDocument,
           InsertProject, Rollback, Fail, ArchiveProject, FinishProject, NewYear,
           SetProjectActive, CompleteProject

\* What a new chantier comes from: the acceptance of a quote still open.
LEMMA ChantierByCommit ==
    ASSUME Inv, [Next]_vars, NEW q \in Docs, NEW d \in Docs,
           d \in Chantiers(q)', d \notin Chantiers(q)
    PROVE  /\ Exists(q) /\ documents[q].type = "QUOTE"
           /\ documents[q].status # "ACCEPTED" /\ documents'[q].status = "ACCEPTED"
           /\ \E r \in Requests : Commit(r) /\ req[r].new = d
  <1> USE DEF Chantiers
  <1>1. ~Exists(d)
    BY RowsOnlyMove
  <1>2. PICK r \in Requests : Commit(r) /\ req[r].new = d
    BY <1>1, InsertedByCommit
  <1>3. req[r].type = "PROJECT" /\ req[r].target = q
    BY <1>2, CommittedRow
  <1>4. req[r].op = "accept" /\ Exists(q) /\ documents[q].type = "QUOTE"
    BY <1>3, NoneAssumption DEF Inv, StepFitsRequest, TargetFitsRequest
  <1>5. documents[q].status # "ACCEPTED"
    BY <1>2, <1>3, <1>4 DEF Commit, At, Inv, HoldsItsLocks, NumberingSteps, IsOpen
  <1>6. documents'[q].status = "ACCEPTED"
    <2>1. documents \in [Docs -> Row \cup {None}] /\ documents[q] \in Row /\ q # d
      BY <1>1, <1>4 DEF Inv, TypeOK, LedgerTypeOK, Exists
    <2> QED
      BY <1>2, <1>3, <1>4, <2>1 DEF Commit, Row
  <1> QED
    BY <1>2, <1>4, <1>5, <1>6

\* A quote is ACCEPTED exactly when a chantier was opened from it, only once.
THEOREM OneChantier == Spec => []OneChantierPerAcceptedQuote
  <1> DEFINE I == Inv /\ ParentsExist
             J == OneChantierPerAcceptedQuote
  <1>1. Init => ParentsExist /\ J
    BY DEF Init, LedgerInit, OneChantierPerAcceptedQuote, ParentsExist, Chantiers, Exists
  <1>2. I /\ J /\ [Next]_vars => J'
    <2> SUFFICES ASSUME Inv, ParentsExist, J, [Next]_vars PROVE J'
      OBVIOUS
    <2>1. ASSUME NEW q \in Docs, Exists(q)', documents'[q].type = "QUOTE"
          PROVE  documents'[q].status = "ACCEPTED" <=> Chantiers(q)' # {}
      <3>1. CASE Exists(q)
        <4>1. documents[q].type = "QUOTE"
          BY <2>1, <3>1, RowsOnlyMove
        <4>2. Chantiers(q) # {} => Chantiers(q)' # {}
          BY RowsOnlyMove DEF Chantiers
        <4>3. documents[q].status = "ACCEPTED" <=> Chantiers(q) # {}
          BY <3>1, <4>1 DEF OneChantierPerAcceptedQuote
        <4>4. documents[q].status = "ACCEPTED" => documents'[q].status = "ACCEPTED"
          BY <3>1, StatusMoves
        <4>5. ASSUME documents'[q].status = "ACCEPTED", documents[q].status # "ACCEPTED"
              PROVE  Chantiers(q)' # {}
          <5>1. PICK r \in Requests : /\ Commit(r) /\ req[r].op = "accept"
                                     /\ req[r].target = q
            BY <3>1, <4>5, AcceptedByCommit
          <5>2. req[r].type = "PROJECT"
            BY <5>1 DEF Inv, StepFitsRequest
          <5>3. req[r].new \in Docs /\ documents'[req[r].new] # None
                /\ documents'[req[r].new].type = "PROJECT"
                /\ documents'[req[r].new].parent = q
            BY <5>1, <5>2, CommittedRow
          <5> QED
            BY <5>3 DEF Chantiers, Exists
        <4>6. ASSUME Chantiers(q)' # {}, Chantiers(q) = {}
              PROVE  documents'[q].status = "ACCEPTED"
          <5>1. PICK d \in Docs : d \in Chantiers(q)'
            BY <4>6 DEF Chantiers
          <5> QED
            BY <4>6, <5>1, ChantierByCommit
        <4> QED
          BY <4>2, <4>3, <4>4, <4>5, <4>6
      <3>2. CASE ~Exists(q)
        <4>1. documents'[q].status # "ACCEPTED"
          BY <2>1, <3>2, InsertedByCommit, CommittedRow DEF Exists
        <4>2. ASSUME NEW d \in Docs, d \in Chantiers(q)' PROVE FALSE
          <5>1. CASE d \in Chantiers(q)
            BY <3>2, <5>1, NoneAssumption DEF ParentsExist, Chantiers
          <5>2. CASE d \notin Chantiers(q)
            BY <3>2, <4>2, <5>2, ChantierByCommit
          <5> QED
            BY <5>1, <5>2
        <4> QED
          BY <4>1, <4>2 DEF Chantiers
      <3> QED
        BY <3>1, <3>2
    <2>2. ASSUME NEW d \in Docs, NEW e \in Docs, NEW q \in Docs,
                 d \in Chantiers(q)', e \in Chantiers(q)'
          PROVE  d = e
      <3>1. CASE d \in Chantiers(q) /\ e \in Chantiers(q)
        BY <3>1 DEF OneChantierPerAcceptedQuote
      <3>2. CASE d \notin Chantiers(q) \/ e \notin Chantiers(q)
        <4>1. Exists(q) /\ documents[q].type = "QUOTE" /\ documents[q].status # "ACCEPTED"
          BY <2>2, <3>2, ChantierByCommit
        <4>2. Chantiers(q) = {}
          BY <4>1 DEF OneChantierPerAcceptedQuote
        <4>3. PICK r \in Requests : Commit(r) /\ req[r].new = d
          BY <2>2, <4>2, ChantierByCommit
        <4>4. ASSUME e # d PROVE FALSE
          <5>1. ~Exists(e)
            BY <2>2, <4>2, RowsOnlyMove DEF Chantiers
          <5>2. req[r].op = "accept" => Exists(req[r].target)
            BY DEF Inv, TargetFitsRequest
          <5> QED
            BY <2>2, <4>3, <4>4, <5>1, <5>2
               DEF Commit, Exists, Chantiers, Inv, TypeOK, LedgerTypeOK
        <4> QED
          BY <4>4
      <3> QED
        BY <3>1, <3>2
    <2> QED
      BY <2>1, <2>2 DEF OneChantierPerAcceptedQuote, Exists
  <1>3. I /\ [Next]_vars => ParentsExist'
    BY ParentsStep
  <1> HIDE DEF J
  <1>4. Spec => []J
    BY <1>1, <1>2, <1>3, Invariance, PTL DEF Spec
  <1> QED
    BY <1>4 DEF J
-----------------------------------------------------------------------------
(* The endpoints are atomic: they implement SalesLedger. *)

\* The row a COMMIT publishes is numbered as if all of it happened there.
LEMMA CommitTakesNextNumber ==
    ASSUME Inv, NEW r \in Requests, Commit(r)
    PROVE  NewRow(req[r].type, req[r].target, req[r].year, req[r].seq)
             = NextRow(req[r].type, req[r].target, req[r].year)
  <1>1. req[r].seq > 0 /\ req[r].seq \in Nat /\ Used(Prefix(r)) = 1 .. (req[r].seq - 1)
    BY CommitNumbers DEF Inv, TypeOK, Request
  <1>2. LastSequence(Prefix(r)) = req[r].seq - 1
    BY <1>1, LastOfInterval DEF LastSequence
  <1>3. LastSequence(<<req[r].type, req[r].year>>) + 1 = req[r].seq
    BY <1>1, <1>2 DEF Prefix
  <1> QED
    BY <1>3 DEF NextRow

LEMMA CommitRefines ==
    ASSUME Inv, FirstYear = LastYear, NEW r \in Requests, Commit(r)
    PROVE  LedgerNext
  <1> DEFINE d == req[r].new
             t == req[r].target
             y == req[r].year
  <1>1. d \in Docs /\ ~Exists(d) /\ y \in Years /\ req[r].pc = "commit"
    BY CommitNumbers, NoneAssumption DEF Inv, NewIdIsFree, TypeOK, Request, Commit, At
  <1>2. NewRow(req[r].type, t, y, req[r].seq) = NextRow(req[r].type, t, y)
    BY CommitTakesNextNumber
  <1>3. req[r].op \in {"create", "accept", "project"}
    BY <1>1 DEF Inv, StepFitsRequest, TypeOK, Request, Ops
  <1>4. CASE req[r].op = "create"
    <2>1. req[r].type \in {"QUOTE", "INVOICE"} /\ (req[r].type = "QUOTE" => t = None)
      BY <1>4 DEF Inv, StepFitsRequest, TargetFitsRequest, TypeOK, Request, Types
    <2>2. t # None => IsCompletedProject(t) /\ LiveInvoices(t) = {}
      BY <1>1, <1>4 DEF Inv, ReadsAreCurrent
    <2>3. t \in Docs \cup {None}
      BY DEF Inv, TypeOK, Request
    <2>4. CreateDocument(d, req[r].type, t, y)
      BY <1>1, <1>2, <1>4, <2>1, <2>2 DEF CreateDocument, Commit
    <2> QED
      BY <1>1, <2>1, <2>3, <2>4 DEF LedgerNext
  <1>5. CASE req[r].op = "project"
    <2>1. req[r].type = "PROJECT" /\ t = None
      BY <1>5 DEF Inv, StepFitsRequest, TargetFitsRequest
    <2>2. AddProject(d, y)
      BY <1>1, <1>2, <1>5, <2>1 DEF AddProject, Commit
    <2> QED
      BY <1>1, <2>2 DEF LedgerNext
  <1>6. CASE req[r].op = "accept"
    <2>1. /\ req[r].type = "PROJECT" /\ t \in Docs /\ Exists(t)
          /\ documents[t].type = "QUOTE" /\ IsOpen(t)
      BY <1>1, <1>6 DEF Inv, StepFitsRequest, TargetFitsRequest, HoldsItsLocks,
         NumberingSteps, TypeOK, Request
    <2>2. AcceptQuote(t, d, y)
      BY <1>1, <1>2, <1>6, <2>1 DEF AcceptQuote, Commit
    <2> QED
      BY <1>1, <2>1, <2>2 DEF LedgerNext
  <1> QED
    BY <1>3, <1>4, <1>5, <1>6

\* A status that changes was settable from the one it replaces, whatever
\* status the request had read.
LEMMA UpdateStatusRefines ==
    ASSUME Inv, NEW r \in Requests, UpdateStatus(r)
    PROVE  LedgerNext \/ UNCHANGED tables
  <1> DEFINE d == req[r].target
  <1>1. /\ d \in Docs /\ Exists(d) /\ documents[d] \in Row /\ req[r].want \in Statuses
        /\ documents[d].type # "PROJECT" /\ req[r].want \in Wanted(documents[d].type)
    BY DEF UpdateStatus, At, Inv, StepFitsRequest, TargetFitsRequest, TypeOK,
       LedgerTypeOK, Request, Exists
  <1>2. CASE ~IsOpen(d)
    BY <1>2 DEF UpdateStatus, tables
  <1>3. CASE IsOpen(d) /\ req[r].want = documents[d].status
    <2>1. [documents EXCEPT ![d].status = req[r].want] = documents
      BY <1>1, <1>3 DEF Inv, TypeOK, LedgerTypeOK, Row
    <2> QED
      BY <1>3, <2>1 DEF UpdateStatus, tables
  <1>4. CASE IsOpen(d) /\ req[r].want # documents[d].status
    <2>1. req[r].want \in Settable(documents[d].type, documents[d].status)
      BY <1>1, <1>4 DEF Settable, Wanted, IsOpen, Row, Types
    <2>2. SetStatus(d, req[r].want)
      BY <1>1, <1>4, <2>1 DEF SetStatus, IsOpen, UpdateStatus
    <2> QED
      BY <1>1, <2>2 DEF LedgerNext
  <1> QED
    BY <1>2, <1>3, <1>4

LEMMA StepRefines ==
    ASSUME FirstYear = LastYear
    PROVE  Inv /\ [Next]_vars => [LedgerNext]_tables
  <1> SUFFICES ASSUME Inv, [Next]_vars PROVE LedgerNext \/ UNCHANGED tables
    OBVIOUS
  <1>1. ASSUME NEW r \in Requests, Commit(r) PROVE LedgerNext
    BY <1>1, CommitRefines
  <1>2. ASSUME NEW r \in Requests, UpdateStatus(r) PROVE LedgerNext \/ UNCHANGED tables
    BY <1>2, UpdateStatusRefines
  <1>3. ASSUME NEW d \in Docs, NEW active \in BOOLEAN,
               \/ ArchiveDocument(d, active) \/ ArchiveProject(d, active) \/ FinishProject(d)
        PROVE  LedgerNext
    BY <1>3 DEF ArchiveDocument, ArchiveProject, FinishProject, LedgerNext
  <1>4. ASSUME NEW r \in Requests, Arrive(r) PROVE UNCHANGED tables
    BY <1>4, Arrival DEF tables
  <1> QED
    BY <1>1, <1>2, <1>3, <1>4
       DEF Next, vars, tables, Proceed, FlipToAccepted, TakeNumberingLock, RefuseAccept,
           ReadLastNumber, CheckProjectCompleted, CheckNotInvoiced, InsertDocument,
           InsertProject, Rollback, Fail, NewYear

\* Within one calendar year every endpoint behaves as a single atomic step.
THEOREM Refinement ==
    ASSUME FirstYear = LastYear
    PROVE  Spec => LedgerSpec
  <1>1. Init => LedgerInit
    BY DEF Init
  <1>2. Inv /\ [Next]_vars => [LedgerNext]_tables
    BY StepRefines
  <1> QED
    BY <1>1, <1>2, Invariance, PTL DEF Spec, LedgerSpec
=============================================================================
