------------------------- MODULE DocumentLifecycle -------------------------
(***************************************************************************)
(* The documents and projects endpoints as the program runs them: HTTP     *)
(* requests in flight at once, taken apart into the SQL statements whose   *)
(* order matters.                                                          *)
(*                                                                         *)
(* PostgreSQL runs at READ COMMITTED.  `documents` and `projects` hold     *)
(* what is committed.  A request inside withTransaction keeps its writes   *)
(* in its own record until Commit publishes them all, or Rollback drops    *)
(* them; `numLock` are the advisory locks of the document numbering and    *)
(* `rowLock` the rows a transaction has updated.  A statement outside a    *)
(* transaction commits by itself.  An UPDATE whose WHERE does not match    *)
(* the committed row returns nothing at once; one that matches waits for   *)
(* the row's lock and is evaluated against the row it then finds.          *)
(***************************************************************************)
EXTENDS SalesLedger

CONSTANT Requests   \* how many requests may be in flight at once: their slots

ASSUME RequestsAssumption == None \notin Requests

VARIABLES
    numLock,     \* advisory lock of each numbering prefix: its holder
    rowLock,     \* documents row lock: the transaction that updated the row
    req,         \* what each request slot is doing
    year         \* the server's calendar year

vars == <<documents, projects, numLock, rowLock, req, year>>

-----------------------------------------------------------------------------
(* A request.  `target` is the parent of the document it inserts (the      *)
(* quote of an acceptance, the chantier of an invoice) or the document     *)
(* whose status it sets to `want`; `new` is the id its INSERT will get.    *)

Ops == {"none", "create", "accept", "project", "status"}
Steps == {"idle", "accept", "lock", "number", "check_project",
          "check_invoiced", "insert", "chantier", "commit", "rollback",
          "update"}

\* The steps taken inside withTransaction, between BEGIN and COMMIT ...
TxSteps == Steps \ {"idle", "update"}

\* ... and those of a transaction whose document row is in place, uncommitted.
Inserted(r) == req[r].pc \in {"chantier", "commit"}

Request == [op : Ops, pc : Steps, type : Types, target : Docs \cup {None},
            want : Statuses, year : Years, seq : Nat, new : Docs \cup {None}]

IdleRequest == [op |-> "none", pc |-> "idle", type |-> "QUOTE",
                target |-> None, want |-> "DRAFT", year |-> FirstYear,
                seq |-> 0, new |-> None]

Idle(r) == req[r].pc = "idle"
At(r, step) == req[r].pc = step
Goto(r, step) == req' = [req EXCEPT ![r].pc = step]
Prefix(r) == <<req[r].type, req[r].year>>

TypeOK ==
    /\ LedgerTypeOK
    /\ numLock \in [Prefixes -> Requests \cup {None}]
    /\ rowLock \in [Docs -> Requests \cup {None}]
    /\ req \in [Requests -> Request]
    /\ year \in Years

\* A company before its first document.
Init ==
    /\ LedgerInit
    /\ numLock = [p \in Prefixes |-> None]
    /\ rowLock = [d \in Docs |-> None]
    /\ req = [r \in Requests |-> IdleRequest]
    /\ year = FirstYear

ReleaseLocks(r) ==
    /\ numLock' = [p \in Prefixes |-> IF numLock[p] = r THEN None ELSE numLock[p]]
    /\ rowLock' = [d \in Docs |-> IF rowLock[d] = r THEN None ELSE rowLock[d]]

-----------------------------------------------------------------------------
(* A request arrives: what it reads before its first write or lock.  The   *)
(* id is set aside here, so that a request never lacks one later on.       *)

Start(r, request) ==
    /\ Idle(r)
    /\ req' = [req EXCEPT ![r] = request]
    /\ UNCHANGED <<documents, projects, numLock, rowLock, year>>

IsFree(d) == ~Exists(d) /\ \A r \in Requests : req[r].new # d

\* addDocumentServ: a quote never has a parent, an invoice may bill one.
StartCreate(r, d, type, parent) ==
    /\ IsFree(d)
    /\ type = "QUOTE" => parent = None
    /\ parent # None => Exists(parent)
    /\ Start(r, [IdleRequest EXCEPT !.op = "create", !.pc = "lock", !.type = type,
                                    !.target = parent, !.new = d, !.year = year])

\* addProjectServ: a chantier made by hand, with no quote behind it.
StartProject(r, d) ==
    /\ IsFree(d)
    /\ Start(r, [IdleRequest EXCEPT !.op = "project", !.pc = "lock",
                                    !.type = "PROJECT", !.new = d, !.year = year])

\* acceptQuoteServ, up to its first SELECT: any quote, whatever its status.
StartAccept(r, d, q) ==
    /\ IsFree(d)
    /\ Exists(q)
    /\ documents[q].type = "QUOTE"
    /\ Start(r, [IdleRequest EXCEPT !.op = "accept", !.pc = "accept",
                                    !.type = "PROJECT", !.target = q, !.new = d])

\* updateDocumentStatusServ, its SELECT and its check of SETTABLE_STATUSES.
StartStatus(r, d, status) ==
    /\ Exists(d)
    /\ documents[d].active
    /\ status \in Settable(documents[d].type, documents[d].status)
    /\ Start(r, [IdleRequest EXCEPT !.op = "status", !.pc = "update",
                                    !.target = d, !.want = status])

-----------------------------------------------------------------------------
(* Slips: the statements below as a plausible mistake would leave them.    *)
(* No specification uses them; they show what the properties rest on.      *)

\* The prefix is not looked at: one sequence for every type and year.
NextNumberUnscoped(r) ==
    LET seqs == UNION {Used(p) : p \in Prefixes} \cup {0}
    IN  1 + CHOOSE n \in seqs : \A m \in seqs : m <= n

\* An archived invoice no longer counts as billing its chantier.
AlreadyInvoicedVisibly(p) == \E d \in LiveInvoices(p) : documents[d].active

\* The acceptance reads the quote's status and goes on, with no UPDATE to wait for.
FlipWithoutLock(r) ==
    /\ At(r, "accept")
    /\ IsOpen(req[r].target)
    /\ req' = [req EXCEPT ![r].pc = "lock", ![r].year = year]
    /\ UNCHANGED <<documents, projects, numLock, rowLock, year>>

\* The numbering goes on without its lock.
NumberWithoutLock(r) ==
    /\ At(r, "lock")
    /\ Goto(r, "number")
    /\ UNCHANGED <<documents, projects, numLock, rowLock, year>>

\* The connection of a failed transaction is kept open as it is.
RollbackKeepingLocks(r) ==
    /\ At(r, "rollback")
    /\ req' = [req EXCEPT ![r] = IdleRequest]
    /\ UNCHANGED <<documents, projects, numLock, rowLock, year>>

\* The UPDATE of the status trusts what was looked at before: no WHERE on it.
UpdateStatusAnyhow(r) ==
    /\ At(r, "update")
    /\ rowLock[req[r].target] = None
    /\ documents' = [documents EXCEPT ![req[r].target].status = req[r].want]
    /\ req' = [req EXCEPT ![r] = IdleRequest]
    /\ UNCHANGED <<projects, numLock, rowLock, year>>

-----------------------------------------------------------------------------
(* The statements of a transaction. *)

\* acceptDocumentInDB: the quote is flipped first, which locks its row.
FlipToAccepted(r) ==
    /\ At(r, "accept")
    /\ IsOpen(req[r].target)
    /\ rowLock[req[r].target] = None
    /\ rowLock' = [rowLock EXCEPT ![req[r].target] = r]
    /\ req' = [req EXCEPT ![r].pc = "lock", ![r].year = year]
    /\ UNCHANGED <<documents, projects, numLock, year>>

RefuseAccept(r) ==
    /\ At(r, "accept")
    /\ ~IsOpen(req[r].target)
    /\ Goto(r, "rollback")
    /\ UNCHANGED <<documents, projects, numLock, rowLock, year>>

\* lockDocumentNumberingInDB, on the prefix made from the year read just before.
TakeNumberingLock(r) ==
    /\ At(r, "lock")
    /\ numLock[Prefix(r)] = None
    /\ numLock' = [numLock EXCEPT ![Prefix(r)] = r]
    /\ Goto(r, "number")
    /\ UNCHANGED <<documents, projects, rowLock, year>>

\* getLastDocumentNumberFromDB, plus one: only what is committed is seen.
NextNumber(r) == LastSequence(Prefix(r)) + 1

ReadLastNumber(r) ==
    /\ At(r, "number")
    /\ req' = [req EXCEPT
          ![r].seq = NextNumber(r),
          ![r].pc = IF req[r].op = "create" /\ req[r].target # None
                    THEN "check_project" ELSE "insert"]
    /\ UNCHANGED <<documents, projects, numLock, rowLock, year>>

CheckProjectCompleted(r) ==
    /\ At(r, "check_project")
    /\ Goto(r, IF IsCompletedProject(req[r].target) THEN "check_invoiced"
                                                    ELSE "rollback")
    /\ UNCHANGED <<documents, projects, numLock, rowLock, year>>

\* getInvoiceForProjectDocumentFromDB finds one.
AlreadyInvoiced(p) == LiveInvoices(p) # {}

CheckNotInvoiced(r) ==
    /\ At(r, "check_invoiced")
    /\ Goto(r, IF AlreadyInvoiced(req[r].target) THEN "rollback" ELSE "insert")
    /\ UNCHANGED <<documents, projects, numLock, rowLock, year>>

\* Some other transaction has this number in place, uncommitted.
NumberPending(r) ==
    \E o \in Requests \ {r} :
        Inserted(o) /\ Prefix(o) = Prefix(r) /\ req[o].seq = req[r].seq

\* createDocumentInDB: UNIQUE (company_id, number) waits for a pending
\* number, and fails the request on a committed one.
InsertDocument(r) ==
    /\ At(r, "insert")
    /\ ~NumberPending(r)
    /\ Goto(r, IF req[r].seq \in Used(Prefix(r)) THEN "rollback"
               ELSE IF req[r].op = "create" THEN "commit" ELSE "chantier")
    /\ UNCHANGED <<documents, projects, numLock, rowLock, year>>

\* createProjectInDB: the projects row on top of the PROJECT document.
InsertProject(r) ==
    /\ At(r, "chantier")
    /\ Goto(r, "commit")
    /\ UNCHANGED <<documents, projects, numLock, rowLock, year>>

\* COMMIT publishes the transaction's rows and lets go of its locks.
Commit(r) ==
    /\ At(r, "commit")
    /\ documents' = LET flipped == IF req[r].op = "accept"
                      THEN [documents EXCEPT ![req[r].target].status = "ACCEPTED"]
                      ELSE documents
                    IN  [flipped EXCEPT ![req[r].new] =
                           NewRow(req[r].type, req[r].target, req[r].year, req[r].seq)]
    /\ projects' = IF req[r].type = "PROJECT"
                   THEN [projects EXCEPT ![req[r].new] = NewProject]
                   ELSE projects
    /\ ReleaseLocks(r)
    /\ req' = [req EXCEPT ![r] = IdleRequest]
    /\ UNCHANGED year

\* Any statement may fail, the connection or the process with it ...
Fail(r) ==
    /\ req[r].pc \in TxSteps \ {"rollback"}
    /\ Goto(r, "rollback")
    /\ UNCHANGED <<documents, projects, numLock, rowLock, year>>

\* ... and withTransaction's catch, or PostgreSQL itself, rolls back.
Rollback(r) ==
    /\ At(r, "rollback")
    /\ ReleaseLocks(r)
    /\ req' = [req EXCEPT ![r] = IdleRequest]
    /\ UNCHANGED <<documents, projects, year>>

-----------------------------------------------------------------------------
(* Single statements, which commit by themselves. *)

\* updateDocumentStatusInDB, evaluated again on the row it finds.
UpdateStatus(r) ==
    /\ At(r, "update")
    /\ IsOpen(req[r].target) => rowLock[req[r].target] = None
    /\ documents' = IF IsOpen(req[r].target)
                    THEN [documents EXCEPT ![req[r].target].status = req[r].want]
                    ELSE documents
    /\ req' = [req EXCEPT ![r] = IdleRequest]
    /\ UNCHANGED <<projects, numLock, rowLock, year>>

\* archiveDocumentServ and unarchiveDocumentServ wait for the row's lock.
ArchiveDocument(d, active) ==
    /\ rowLock[d] = None
    /\ SetDocumentActive(d, active)
    /\ UNCHANGED <<numLock, rowLock, req, year>>

\* archiveProjectServ and unarchiveProjectServ.
ArchiveProject(d, active) ==
    /\ SetProjectActive(d, active)
    /\ UNCHANGED <<numLock, rowLock, req, year>>

\* completeProjectServ.
FinishProject(d) ==
    /\ CompleteProject(d)
    /\ UNCHANGED <<numLock, rowLock, req, year>>

NewYear ==
    /\ year < LastYear
    /\ year' = year + 1
    /\ UNCHANGED <<documents, projects, numLock, rowLock, req>>

-----------------------------------------------------------------------------

Arrive(r) ==
    \E d \in Docs :
        \/ \E type \in {"QUOTE", "INVOICE"}, parent \in Docs \cup {None} :
              StartCreate(r, d, type, parent)
        \/ StartProject(r, d)
        \/ \E q \in Docs : StartAccept(r, d, q)
        \/ \E status \in Statuses : StartStatus(r, d, status)

\* The steps no lock can hold up.
Proceed(r) ==
    \/ RefuseAccept(r)
    \/ ReadLastNumber(r)
    \/ CheckProjectCompleted(r)
    \/ CheckNotInvoiced(r)
    \/ InsertDocument(r)
    \/ InsertProject(r)
    \/ Commit(r)
    \/ Rollback(r)

Next ==
    \/ \E r \in Requests :
          \/ Arrive(r)
          \/ FlipToAccepted(r)
          \/ TakeNumberingLock(r)
          \/ Proceed(r)
          \/ Fail(r)
          \/ UpdateStatus(r)
    \/ \E d \in Docs :
          \/ \E active \in BOOLEAN : ArchiveDocument(d, active) \/ ArchiveProject(d, active)
          \/ FinishProject(d)
    \/ NewYear

\* The event loop and PostgreSQL run what can run; a lock goes to its waiters
\* in turn, so a request that could take it again and again gets it.
Fairness ==
    \A r \in Requests : /\ WF_vars(Proceed(r))
                        /\ SF_vars(\/ FlipToAccepted(r)
                                   \/ TakeNumberingLock(r)
                                   \/ UpdateStatus(r))

Spec == Init /\ [][Next]_vars

FairSpec == Spec /\ Fairness

-----------------------------------------------------------------------------
(* What the endpoints guarantee, beyond SalesLedger's invariants. *)

\* The number a request is about to insert is still free: the numbering lock
\* keeps generateDocumentNumber's answer good until it is used (its comment:
\* "two at once used to both take it").
NumberStillFree ==
    \A r \in Requests :
        At(r, "insert") => req[r].seq \notin Used(Prefix(r)) /\ ~NumberPending(r)

\* Only a running transaction holds a lock: no failure, at any statement,
\* leaves a lock behind that would stop every later creation.
LocksAreHeldByTransactions ==
    /\ \A p \in Prefixes : numLock[p] # None => req[numLock[p]].pc \in TxSteps
    /\ \A d \in Docs : rowLock[d] # None => req[rowLock[d]].pc \in TxSteps

-----------------------------------------------------------------------------
(* The inductive invariant behind those properties: what every request in  *)
(* flight may rely on, statement by statement.                             *)

\* The steps between the numbering lock and the end of the transaction ...
NumberingSteps == {"number", "check_project", "check_invoiced", "insert",
                   "chantier", "commit"}

\* ... and those that have read the last number.
NumberedSteps == NumberingSteps \ {"number"}

\* What a status request may have been sent for, by the type of its document.
Wanted(type) == IF type = "QUOTE" THEN {"SENT", "DRAFT", "REJECTED"}
                                  ELSE {"SENT", "PAID", "CANCELLED"}

\* A slot's fields fit its operation and its step.
StepFitsRequest(r) ==
    /\ req[r].pc = "idle" <=> req[r].op = "none"
    /\ req[r].pc = "update" <=> req[r].op = "status"
    /\ req[r].pc = "accept" => req[r].op = "accept"
    /\ req[r].pc = "chantier" => req[r].type = "PROJECT"
    /\ req[r].pc \in {"check_project", "check_invoiced"}
          => req[r].op = "create" /\ req[r].target # None
    /\ req[r].type = "PROJECT" <=> req[r].op \in {"accept", "project"}
    /\ req[r].new # None <=> req[r].op \in {"create", "accept", "project"}

\* The row a request was sent for is there, and is of the right type.
TargetFitsRequest(r) ==
    /\ req[r].target # None => Exists(req[r].target)
    /\ req[r].op = "project" => req[r].target = None
    /\ req[r].op = "create" /\ req[r].type = "QUOTE" => req[r].target = None
    /\ req[r].op = "accept" =>
          req[r].target # None /\ documents[req[r].target].type = "QUOTE"
    /\ req[r].op = "status" =>
          /\ req[r].target # None
          /\ documents[req[r].target].type # "PROJECT"
          /\ req[r].want \in Wanted(documents[req[r].target].type)

\* The id set aside for a request is its own.
NewIdIsFree(r) ==
    req[r].new # None => /\ ~Exists(req[r].new)
                         /\ \A o \in Requests \ {r} : req[o].new # req[r].new

\* It holds the locks its step relies on; the row it flipped stays as it was.
HoldsItsLocks(r) ==
    /\ req[r].pc \in NumberingSteps => numLock[Prefix(r)] = r
    /\ req[r].op = "accept" /\ req[r].pc \in NumberingSteps \cup {"lock"}
          => rowLock[req[r].target] = r /\ IsOpen(req[r].target)

\* What it read and checked under the numbering lock is still true.
ReadsAreCurrent(r) ==
    /\ req[r].pc \in NumberedSteps
          => req[r].seq > 0 /\ Used(Prefix(r)) = 1 .. (req[r].seq - 1)
    /\ req[r].op = "create" /\ req[r].target # None =>
          /\ req[r].pc \in {"check_invoiced", "insert", "commit"}
                => IsCompletedProject(req[r].target)
          /\ FirstYear = LastYear /\ req[r].pc \in {"insert", "commit"}
                => LiveInvoices(req[r].target) = {}

RowsAreNumbered ==
    /\ \A p \in Prefixes : /\ LastSequence(p) \in Nat
                           /\ Used(p) = 1 .. LastSequence(p)
    /\ \A d, e \in Docs :
          /\ Exists(d) /\ Exists(e)
          /\ documents[d].type = documents[e].type
          /\ documents[d].year = documents[e].year
          /\ documents[d].seq = documents[e].seq
          => d = e

\* Only a PROJECT document has no status, and only it has a projects row.
RowsFitTheirType ==
    \A d \in Docs :
        /\ (Exists(d) /\ documents[d].type = "PROJECT") <=> projects[d] # None
        /\ Exists(d) => (documents[d].type = "PROJECT" <=> documents[d].status = "NULL")

Inv ==
    /\ TypeOK
    /\ LocksAreHeldByTransactions
    /\ RowsAreNumbered
    /\ RowsFitTheirType
    /\ \A r \in Requests : /\ StepFitsRequest(r)
                           /\ TargetFitsRequest(r)
                           /\ NewIdIsFree(r)
                           /\ HoldsItsLocks(r)
                           /\ ReadsAreCurrent(r)
=============================================================================
