-------------------------- MODULE DocumentContent --------------------------
(***************************************************************************)
(* The requests that read and write one document's content as the program  *)
(* runs them: several in flight at once, each taken apart into its SQL     *)
(* statements.                                                             *)
(*                                                                         *)
(* The content save and the acceptance run inside withTransaction: their   *)
(* writes stay in their own record until Commit.  Every other request runs *)
(* statement by statement on the pool, each committed by itself.           *)
(* PostgreSQL is at READ COMMITTED: a statement sees what is committed     *)
(* when it starts, and what its own transaction has written.               *)
(***************************************************************************)
EXTENDS ContentLedger

CONSTANTS
    Requests,    \* how many requests may be in flight at once: their slots
    Workload,    \* the operations they ask for
    Nobody       \* no transaction: the documents row is not locked

Ops == {"save", "accept", "edit", "status", "add_line", "archive_line",
        "unarchive_line", "add_section", "archive_section", "unarchive_section"}

ASSUME WorkloadAssumption == Workload \subseteq Ops /\ Nobody \notin Requests

VARIABLES
    rowLock,     \* who holds the lock of the documents row
    req          \* what each request slot is doing

vars == <<content, rowLock, req>>

Steps == {"idle", "lock", "check", "archive_lines", "insert", "flip",
          "copy_sections", "copy_lines", "commit", "rollback", "update",
          "set_status", "write", "recompute", "sum", "total"}

\* `sections` and `lines` are the rows the request writes, `gone...` the ones
\* its transaction has archived, `seen...` what its last SELECTs returned.
Request == [op : Ops \cup {"none"}, pc : Steps, want : Statuses, rate : Rates,
            sections : SUBSET Sections, lines : SUBSET Lines,
            goneSections : SUBSET Sections, goneLines : SUBSET Lines,
            seenSections : SUBSET Sections, seenLines : SUBSET Lines]

IdleRequest == [op |-> "none", pc |-> "idle", want |-> "DRAFT", rate |-> FirstRate,
                sections |-> {}, lines |-> {}, goneSections |-> {}, goneLines |-> {},
                seenSections |-> {}, seenLines |-> {}]

Idle(r) == req[r].pc = "idle"
At(r, step) == req[r].pc = step
Goto(r, step) == req' = [req EXCEPT ![r].pc = step]
Answer(r) == req' = [req EXCEPT ![r] = IdleRequest]
InTransaction(r) == req[r].op \in {"save", "accept"}

TypeOK ==
    /\ ContentTypeOK
    /\ rowLock \in Requests \cup {Nobody}
    /\ req \in [Requests -> Request]

Init ==
    /\ ContentInit
    /\ rowLock = Nobody
    /\ req = [r \in Requests |-> IdleRequest]

Unlocked == rowLock = Nobody

\* An INSERT takes FOR KEY SHARE on its documents row (foreign key): it waits
\* for a SELECT ... FOR UPDATE, not for the lock of an UPDATE.
InsertAllowed == \A t \in Requests : rowLock = t => req[t].op # "save"

\* An UPDATE of a section or line waits for the transaction that archived it.
Untouched(r) ==
    \A t \in Requests : /\ req[t].goneLines \cap req[r].lines = {}
                        /\ req[t].goneSections \cap req[r].sections = {}

\* The lines r's own SELECT returns.
VisibleLines(r) ==
    IF req[r].op = "save" THEN (ActiveLines \ req[r].goneLines) \cup req[r].lines
                          ELSE ActiveLines

-----------------------------------------------------------------------------
(* A request arrives: what it reads and checks before its first write.     *)

Start(r, request) ==
    /\ request.op \in Workload
    /\ Idle(r)
    /\ req' = [req EXCEPT ![r] = request]
    /\ UNCHANGED <<content, rowLock>>

Asks(op, step) == [IdleRequest EXCEPT !.op = op, !.pc = step]

IsFreeSection(s) ==
    sections[s] = "none" /\ \A r \in Requests : s \notin req[r].sections

IsFreeLine(l) ==
    lines[l] = "none" /\ \A r \in Requests : l \notin req[r].lines

-----------------------------------------------------------------------------
(* Slips: statements of the save and of its neighbours as a plausible      *)
(* mistake would leave them.  No specification uses them; they show what   *)
(* the properties rest on.                                                 *)

\* SELECT without FOR UPDATE.
ReadDocument(r) ==
    /\ At(r, "lock")
    /\ Goto(r, "check")
    /\ UNCHANGED <<content, rowLock>>

\* The document is not asked whether it may still change.
CheckNothing(r) ==
    /\ At(r, "check")
    /\ Goto(r, "archive_lines")
    /\ UNCHANGED <<content, rowLock>>

\* The copy starts before the quote's row is locked.
AcceptWithoutLock(r) ==
    /\ At(r, "flip")
    /\ header.status \in {"DRAFT", "SENT"} /\ header.active
    /\ Goto(r, "copy_sections")
    /\ UNCHANGED <<content, rowLock>>

\* The connection goes back to the pool with its transaction still open.
RollbackKeepingLock(r) ==
    /\ At(r, "rollback")
    /\ Answer(r)
    /\ UNCHANGED <<content, rowLock>>

\* A line is written and the totals are left as they were.
WriteLineOnly(r) ==
    /\ At(r, "write")
    /\ req[r].op \in {"add_line", "archive_line", "unarchive_line"}
    /\ IF req[r].op = "add_line" THEN InsertAllowed ELSE Untouched(r)
    /\ lines' = [l \in Lines |->
                   IF l \notin req[r].lines THEN lines[l]
                   ELSE IF req[r].op = "archive_line" THEN "archived" ELSE "active"]
    /\ Answer(r)
    /\ UNCHANGED <<header, project, sections, chantier, rowLock>>

\* A closed document, or chantier, still takes a section.
StartAddSectionAnyhow(r, s) ==
    IsFreeSection(s) /\ Start(r, [Asks("add_section", "write") EXCEPT !.sections = {s}])

-----------------------------------------------------------------------------
(* The requests, as they arrive. *)

\* replaceDocumentContentServ: one section, or none at all.
StartSave(r) ==
    \/ \E s \in Sections :
          /\ IsFreeSection(s)
          /\ Start(r, [Asks("save", "lock") EXCEPT !.sections = {s}, !.lines = LinesOf(s)])
    \/ Start(r, Asks("save", "lock"))

StartAccept(r) ==
    header.type = "QUOTE" /\ Start(r, [Asks("accept", "flip") EXCEPT !.want = "ACCEPTED"])

\* updateDocumentServ, up to its UPDATE.
StartEdit(r, rate) ==
    /\ OpenForEditing(header.type, header.status)
    /\ Start(r, [Asks("edit", "update") EXCEPT !.rate = rate])

\* updateDocumentStatusServ, up to its UPDATE.
StartStatus(r, status) ==
    /\ header.active
    /\ status \in Settable(header.type, header.status)
    /\ Start(r, [Asks("status", "set_status") EXCEPT !.want = status])

\* addLineServ: its section may be an archived one.
StartAddLine(r, l) ==
    /\ Editable
    /\ sections[l[1]] # "none"
    /\ IsFreeLine(l)
    /\ Start(r, [Asks("add_line", "write") EXCEPT !.lines = {l}])

\* archiveLineServ, unarchiveLineServ.
StartSetLine(r, op, l) ==
    Editable /\ lines[l] # "none" /\ Start(r, [Asks(op, "write") EXCEPT !.lines = {l}])

StartAddSection(r, s) ==
    Editable /\ IsFreeSection(s) /\ Start(r, [Asks("add_section", "write") EXCEPT !.sections = {s}])

\* archiveSectionServ, unarchiveSectionServ.
StartSetSection(r, op, s) ==
    Editable /\ sections[s] # "none" /\ Start(r, [Asks(op, "write") EXCEPT !.sections = {s}])

Arrive(r) ==
    \/ StartSave(r)
    \/ StartAccept(r)
    \/ \E rate \in Rates : StartEdit(r, rate)
    \/ \E status \in Statuses : StartStatus(r, status)
    \/ \E l \in Lines :
          \/ StartAddLine(r, l)
          \/ \E op \in {"archive_line", "unarchive_line"} : StartSetLine(r, op, l)
    \/ \E s \in Sections :
          \/ StartAddSection(r, s)
          \/ \E op \in {"archive_section", "unarchive_section"} : StartSetSection(r, op, s)

-----------------------------------------------------------------------------
(* The content save, in its transaction. *)

\* SELECT ... FOR UPDATE: waits for its turn, then sees the latest row.
LockDocument(r) ==
    /\ At(r, "lock")
    /\ Unlocked
    /\ rowLock' = r
    /\ Goto(r, "check")
    /\ UNCHANGED content

\* assertContentEditableServ: of a PROJECT, the projects row, unlocked.
CheckEditable(r) ==
    /\ At(r, "check")
    /\ Goto(r, IF Editable THEN "archive_lines" ELSE "rollback")
    /\ UNCHANGED <<content, rowLock>>

ArchiveLines(r) ==
    /\ At(r, "archive_lines")
    /\ req' = [req EXCEPT ![r].pc = "insert", ![r].goneLines = ActiveLines]
    /\ UNCHANGED <<content, rowLock>>

\* The sections archived, then the new rows, which no one sees before Commit.
InsertContent(r) ==
    /\ At(r, "insert")
    /\ req' = [req EXCEPT ![r].pc = "recompute", ![r].goneSections = Active(sections)]
    /\ UNCHANGED <<content, rowLock>>

-----------------------------------------------------------------------------
(* recomputeDocumentTotalsServ: three statements, inside a save's          *)
(* transaction or on the pool.                                             *)

ReadRate(r) ==
    /\ At(r, "recompute")
    /\ req' = [req EXCEPT ![r].pc = "sum", ![r].rate = header.rate]
    /\ UNCHANGED <<content, rowLock>>

ReadLines(r) ==
    /\ At(r, "sum")
    /\ req' = [req EXCEPT ![r].pc = "total", ![r].seenLines = VisibleLines(r)]
    /\ UNCHANGED <<content, rowLock>>

ReadTotals(r) == [rate |-> req[r].rate, lines |-> req[r].seenLines]

\* updateDocumentTotalsInDB, whatever the document's status has become.
WriteTotals(r) ==
    /\ At(r, "total")
    /\ IF InTransaction(r)
       THEN /\ Goto(r, "commit")
            /\ UNCHANGED header
       ELSE /\ Unlocked
            /\ header' = [header EXCEPT !.totals = ReadTotals(r)]
            /\ Answer(r)
    /\ UNCHANGED <<project, sections, lines, chantier, rowLock>>

-----------------------------------------------------------------------------
(* acceptQuoteServ, for what it reads of the quote's content. *)

\* acceptDocumentInDB: the row if it is still open, and its lock with it.
FlipToAccepted(r) ==
    /\ At(r, "flip")
    /\ header.status \in {"DRAFT", "SENT"} /\ header.active
    /\ Unlocked
    /\ rowLock' = r
    /\ Goto(r, "copy_sections")
    /\ UNCHANGED content

RefuseAccept(r) ==
    /\ At(r, "flip")
    /\ ~(header.status \in {"DRAFT", "SENT"} /\ header.active)
    /\ Goto(r, "rollback")
    /\ UNCHANGED <<content, rowLock>>

CopySections(r) ==
    /\ At(r, "copy_sections")
    /\ req' = [req EXCEPT ![r].pc = "copy_lines", ![r].seenSections = Active(sections)]
    /\ UNCHANGED <<content, rowLock>>

CopyLines(r) ==
    /\ At(r, "copy_lines")
    /\ req' = [req EXCEPT ![r].pc = "commit", ![r].seenLines = ActiveLines]
    /\ UNCHANGED <<content, rowLock>>

-----------------------------------------------------------------------------
(* The end of a transaction. *)

CommitSave(r) ==
    /\ sections' = [s \in Sections |->
                      IF s \in req[r].sections THEN "active"
                      ELSE IF s \in req[r].goneSections THEN "archived" ELSE sections[s]]
    /\ lines' = [l \in Lines |->
                   IF l \in req[r].lines THEN "active"
                   ELSE IF l \in req[r].goneLines THEN "archived" ELSE lines[l]]
    /\ header' = [header EXCEPT !.totals = ReadTotals(r)]
    /\ UNCHANGED chantier

CommitAccept(r) ==
    /\ header' = [header EXCEPT !.status = "ACCEPTED"]
    /\ chantier' = CopiedLines(req[r].seenSections, req[r].seenLines)
    /\ UNCHANGED <<sections, lines>>

Commit(r) ==
    /\ At(r, "commit")
    /\ IF req[r].op = "save" THEN CommitSave(r) ELSE CommitAccept(r)
    /\ rowLock' = Nobody
    /\ Answer(r)
    /\ UNCHANGED project

Rollback(r) ==
    /\ At(r, "rollback")
    /\ rowLock' = IF rowLock = r THEN Nobody ELSE rowLock
    /\ Answer(r)
    /\ UNCHANGED content

\* A statement fails, or the connection does: the transaction rolls back, a
\* request on the pool just stops where it is.
Fail(r) ==
    /\ ~Idle(r)
    /\ ~At(r, "rollback")
    /\ IF InTransaction(r) THEN Goto(r, "rollback") ELSE Answer(r)
    /\ UNCHANGED <<content, rowLock>>

-----------------------------------------------------------------------------
(* The requests on the pool. *)

\* updateDocumentInDB: the row if it is still open for editing.
UpdateHeader(r) ==
    /\ At(r, "update")
    /\ IF OpenForEditing(header.type, header.status)
       THEN /\ Unlocked
            /\ header' = [header EXCEPT !.rate = req[r].rate]
            /\ Goto(r, "recompute")
       ELSE /\ Answer(r)
            /\ UNCHANGED header
    /\ UNCHANGED <<project, sections, lines, chantier, rowLock>>

\* updateDocumentStatusInDB: the row if it is still open, and not archived.
UpdateStatus(r) ==
    /\ At(r, "set_status")
    /\ IF header.status \in {"DRAFT", "SENT"} /\ header.active
       THEN Unlocked /\ header' = [header EXCEPT !.status = req[r].want]
       ELSE UNCHANGED header
    /\ Answer(r)
    /\ UNCHANGED <<project, sections, lines, chantier, rowLock>>

\* createLineInDB, archiveLineInDB, unarchiveLineInDB.
WriteLine(r) ==
    /\ At(r, "write")
    /\ req[r].op \in {"add_line", "archive_line", "unarchive_line"}
    /\ IF req[r].op = "add_line" THEN InsertAllowed ELSE Untouched(r)
    /\ lines' = [l \in Lines |->
                   IF l \notin req[r].lines THEN lines[l]
                   ELSE IF req[r].op = "archive_line" THEN "archived" ELSE "active"]
    /\ Goto(r, "recompute")
    /\ UNCHANGED <<header, project, sections, chantier, rowLock>>

\* createSectionInDB, archiveSectionInDB, unarchiveSectionInDB: the section's
\* lines and the totals stay as they are.
WriteSection(r) ==
    /\ At(r, "write")
    /\ req[r].op \in {"add_section", "archive_section", "unarchive_section"}
    /\ IF req[r].op = "add_section" THEN InsertAllowed ELSE Untouched(r)
    /\ sections' = [s \in Sections |->
                      IF s \notin req[r].sections THEN sections[s]
                      ELSE IF req[r].op = "archive_section" THEN "archived" ELSE "active"]
    /\ Answer(r)
    /\ UNCHANGED <<header, project, lines, chantier, rowLock>>

\* archiveDocumentServ, unarchiveDocumentServ.
ArchiveDocument ==
    /\ Unlocked
    /\ \E active \in BOOLEAN : header' = [header EXCEPT !.active = active]
    /\ UNCHANGED <<project, sections, lines, chantier, rowLock, req>>

\* archiveProjectServ, unarchiveProjectServ, completeProjectServ.
UpdateProject ==
    /\ header.type = "PROJECT"
    /\ \/ \E active \in BOOLEAN : project' = [project EXCEPT !.active = active]
       \/ project' = [project EXCEPT !.status = "COMPLETED"]
    /\ UNCHANGED <<header, sections, lines, chantier, rowLock, req>>

-----------------------------------------------------------------------------
SaveStep(r) ==
    \/ LockDocument(r) \/ CheckEditable(r) \/ ArchiveLines(r) \/ InsertContent(r)

AcceptStep(r) ==
    \/ FlipToAccepted(r) \/ RefuseAccept(r) \/ CopySections(r) \/ CopyLines(r)

RecomputeStep(r) == ReadRate(r) \/ ReadLines(r) \/ WriteTotals(r)

PoolStep(r) ==
    \/ UpdateHeader(r) \/ UpdateStatus(r) \/ WriteLine(r) \/ WriteSection(r)

Advance(r) ==
    \/ SaveStep(r) \/ AcceptStep(r) \/ RecomputeStep(r) \/ PoolStep(r)
    \/ Commit(r) \/ Rollback(r)

Next ==
    \/ \E r \in Requests : Arrive(r) \/ Advance(r) \/ Fail(r)
    \/ ArchiveDocument
    \/ UpdateProject

Spec == Init /\ [][Next]_vars

(***************************************************************************)
(* The requests the frontend makes: its form saves a document's sections   *)
(* and lines together, never one alone.                                    *)
(***************************************************************************)
FormArrive(r) ==
    \/ StartSave(r)
    \/ StartAccept(r)
    \/ \E rate \in Rates : StartEdit(r, rate)
    \/ \E status \in Statuses : StartStatus(r, status)

FormAdvance(r) ==
    \/ SaveStep(r) \/ AcceptStep(r) \/ RecomputeStep(r)
    \/ UpdateHeader(r) \/ UpdateStatus(r)
    \/ Commit(r) \/ Rollback(r)

FormNext ==
    \/ \E r \in Requests : FormArrive(r) \/ FormAdvance(r) \/ Fail(r)
    \/ ArchiveDocument
    \/ UpdateProject

FormSpec == Init /\ [][FormNext]_vars

(***************************************************************************)
(* Fairness: the server keeps running what it has started, and PostgreSQL  *)
(* serves the waiters of a row lock in turn, so a request that could get   *)
(* the lock again and again gets it.                                       *)
(***************************************************************************)
FairFormSpec == FormSpec /\ \A r \in Requests : SF_vars(FormAdvance(r))

(***************************************************************************)
(* The only user, when there is one slot: no statement fails, and a        *)
(* chantier is archived or closed between two requests.                    *)
(***************************************************************************)
SequentialNext ==
    \/ \E r \in Requests : Arrive(r) \/ Advance(r)
    \/ ArchiveDocument
    \/ (\A r \in Requests : Idle(r)) /\ UpdateProject

SequentialSpec == Init /\ [][SequentialNext]_vars

-----------------------------------------------------------------------------
(* Inv: what holds between the statements, for the requests the frontend   *)
(* makes (no single-line or single-section write).                         *)

SaveRewrites(r) == At(r, "insert") \/ At(r, "recompute") \/ At(r, "sum") \/ At(r, "total")

HoldsLock(r) ==
    \/ req[r].op = "save" /\ (SaveRewrites(r) \/ At(r, "check") \/ At(r, "archive_lines"))
    \/ At(r, "copy_sections") \/ At(r, "copy_lines") \/ At(r, "commit")

\* The documents row is locked by the one transaction that works on it, for
\* as long as it does.
LockIsHeld ==
    \A r \in Requests : /\ HoldsLock(r) => rowLock = r
                        /\ rowLock = r => HoldsLock(r) \/ At(r, "rollback")

\* What a transaction has read or archived under the lock is still what is
\* committed, whoever else is at work.
ReadsAreCurrent ==
    \A r \in Requests :
        /\ req[r].op = "save" /\ (SaveRewrites(r) \/ At(r, "commit"))
              => req[r].goneLines = ActiveLines
        /\ req[r].op = "save" /\ (At(r, "sum") \/ At(r, "total") \/ At(r, "commit"))
              => req[r].goneSections = Active(sections) /\ req[r].rate = header.rate
        /\ req[r].op = "save" /\ (At(r, "total") \/ At(r, "commit"))
              => req[r].seenLines = req[r].lines
        /\ req[r].op = "accept" /\ (At(r, "copy_lines") \/ At(r, "commit"))
              => req[r].seenSections = Active(sections)
        /\ req[r].op = "accept" /\ At(r, "commit")
              => req[r].seenLines = ActiveLines

Inv == TypeOK /\ LockIsHeld /\ ReadsAreCurrent

-----------------------------------------------------------------------------
(* What the requests guarantee together. *)

\* Once nothing is in flight, the stored amounts are those of the document's
\* lines at the document's rate (recomputeDocumentTotalsServ after every write).
TotalsAddUpAtRest == (\A r \in Requests : Idle(r)) => TotalsAddUp

\* A sent invoice is never rewritten: not its rate, its lines or its amounts
\* (isOpenForEditing: "it isn't rewritten afterwards").
SentInvoiceIsNotRewritten ==
    [][header.type = "INVOICE" /\ Closed
         => UNCHANGED <<header.rate, header.totals, sections, lines>>]_vars

\* The ledger of a completed chantier is what its invoice is built from: it no
\* longer changes (assertContentEditableServ).
CompletedLedgerIsFrozen ==
    [][header.type = "PROJECT" /\ project.status = "COMPLETED"
         => UNCHANGED <<sections, lines>>]_vars
=============================================================================
