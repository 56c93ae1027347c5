---------------------------- MODULE SalesLedger ----------------------------
(***************************************************************************)
(* What the documents and projects endpoints promise for one company: its  *)
(* quotes, chantiers (job sites) and invoices as the committed rows of the *)
(* tables `documents` and `projects`, with every endpoint one atomic step. *)
(*                                                                         *)
(* This is the abstract specification.  DocumentLifecycle takes the        *)
(* endpoints apart into their statements, locks and commits, and           *)
(* implements LedgerSpec.  Clients, addresses and the wording of a         *)
(* document are left out: they only decide whether a request is refused    *)
(* before it touches this state.                                           *)
(***************************************************************************)
EXTENDS Integers, FiniteSets, DocumentRules

CONSTANTS
    Docs,        \* the document ids that may be handed out
    FirstYear,   \* the years documents may be numbered in
    LastYear,
    None         \* no row, no parent

ASSUME YearAssumption ==
    FirstYear \in Nat /\ LastYear \in Nat /\ FirstYear <= LastYear

VARIABLES
    documents,   \* rows of the table documents, by id
    projects     \* rows of the table projects, by document_id

tables == <<documents, projects>>

-----------------------------------------------------------------------------
(* The rows. *)

Years == FirstYear .. LastYear

Row == [type : Types, status : Statuses \cup {"NULL"}, active : BOOLEAN,
        parent : Docs \cup {None}, year : Years, seq : Nat \ {0}]

ProjectRow == [status : {"IN_PROGRESS", "COMPLETED"}, active : BOOLEAN]

\* None is nobody's id, and no row.
ASSUME NoneAssumption == None \notin Docs /\ None \notin Row /\ None \notin ProjectRow

LedgerTypeOK ==
    /\ documents \in [Docs -> Row \cup {None}]
    /\ projects \in [Docs -> ProjectRow \cup {None}]

Exists(d) == documents[d] # None

\* "OFF-2026-", "FAC-2026-", "CH-2026-": one sequence per type and year.
Prefixes == Types \X Years

Used(p) == {documents[d].seq : d \in {x \in Docs :
                /\ Exists(x)
                /\ <<documents[x].type, documents[x].year>> = p}}

\* The highest sequence number taken under prefix p, 0 when none is.
LastSequence(p) == CHOOSE n \in Used(p) \cup {0} : \A m \in Used(p) : m <= n

LiveInvoices(p) == {d \in Docs : /\ Exists(d)
                                 /\ documents[d].type = "INVOICE"
                                 /\ documents[d].parent = p
                                 /\ documents[d].status # "CANCELLED"}

Chantiers(q) == {d \in Docs : /\ Exists(d)
                              /\ documents[d].type = "PROJECT"
                              /\ documents[d].parent = q}

IsCompletedProject(d) ==
    /\ Exists(d)
    /\ documents[d].type = "PROJECT"
    /\ projects[d] # None
    /\ projects[d].status = "COMPLETED"

\* The WHERE of acceptDocumentInDB and of updateDocumentStatusInDB.
IsOpen(d) == documents[d].status \in {"DRAFT", "SENT"} /\ documents[d].active

-----------------------------------------------------------------------------
(* The endpoints, each as the one step it promises to be. *)

NewRow(type, parent, y, n) ==
    [type |-> type, status |-> FirstStatus(type),
     active |-> TRUE, parent |-> parent, year |-> y, seq |-> n]

NextRow(type, parent, y) == NewRow(type, parent, y, LastSequence(<<type, y>>) + 1)

NewProject == [status |-> "IN_PROGRESS", active |-> TRUE]

\* POST /document: a quote, or an invoice that may bill a closed chantier.
CreateDocument(d, type, parent, y) ==
    /\ ~Exists(d)
    /\ type = "QUOTE" => parent = None
    /\ parent # None => IsCompletedProject(parent) /\ LiveInvoices(parent) = {}
    /\ documents' = [documents EXCEPT ![d] = NextRow(type, parent, y)]
    /\ UNCHANGED projects

\* POST /project: a chantier made by hand, with its own PROJECT document.
AddProject(d, y) ==
    /\ ~Exists(d)
    /\ documents' = [documents EXCEPT ![d] = NextRow("PROJECT", None, y)]
    /\ projects' = [projects EXCEPT ![d] = NewProject]

\* Accepting a quote closes it and opens its chantier.
AcceptQuote(q, d, y) ==
    /\ ~Exists(d)
    /\ Exists(q)
    /\ documents[q].type = "QUOTE"
    /\ IsOpen(q)
    /\ documents' = [documents EXCEPT ![q].status = "ACCEPTED",
                                      ![d] = NextRow("PROJECT", q, y)]
    /\ projects' = [projects EXCEPT ![d] = NewProject]

SetStatus(d, status) ==
    /\ Exists(d)
    /\ documents[d].active
    /\ status \in Settable(documents[d].type, documents[d].status)
    /\ documents' = [documents EXCEPT ![d].status = status]
    /\ UNCHANGED projects

\* Archiving a document, or taking it out of the archive.
SetDocumentActive(d, active) ==
    /\ Exists(d)
    /\ documents' = [documents EXCEPT ![d].active = active]
    /\ UNCHANGED projects

SetProjectActive(d, active) ==
    /\ projects[d] # None
    /\ projects' = [projects EXCEPT ![d].active = active]
    /\ UNCHANGED documents

\* One-way: nothing reopens a completed chantier.
CompleteProject(d) ==
    /\ projects[d] # None
    /\ projects' = [projects EXCEPT ![d].status = "COMPLETED"]
    /\ UNCHANGED documents

LedgerInit ==
    /\ documents = [d \in Docs |-> None]
    /\ projects = [d \in Docs |-> None]

LedgerNext ==
    \E d \in Docs :
        \/ \E type \in {"QUOTE", "INVOICE"}, parent \in Docs \cup {None}, y \in Years :
              CreateDocument(d, type, parent, y)
        \/ \E y \in Years : AddProject(d, y)
        \/ \E q \in Docs, y \in Years : AcceptQuote(q, d, y)
        \/ \E status \in Statuses : SetStatus(d, status)
        \/ \E active \in BOOLEAN :
              SetDocumentActive(d, active) \/ SetProjectActive(d, active)
        \/ CompleteProject(d)

LedgerSpec == LedgerInit /\ [][LedgerNext]_tables

-----------------------------------------------------------------------------
(* What the ledger guarantees. *)

\* Under each prefix the numbers are 1, 2, ... with no gap, and no two
\* documents share one: UNIQUE (company_id, number) is never what refuses a
\* creation, however creations, failures and archivings interleave.
NumberedInSequence ==
    \A p \in Prefixes :
        LET docs == {d \in Docs : Exists(d) /\ <<documents[d].type, documents[d].year>> = p}
        IN  /\ Used(p) = 1 .. LastSequence(p)
            /\ \A d, e \in docs : documents[d].seq = documents[e].seq => d = e

\* A chantier is billed by at most one invoice that is not cancelled
\* (addDocumentServ: "One chantier, one invoice").
OneLiveInvoicePerProject ==
    \A d, e, p \in Docs : d \in LiveInvoices(p) /\ e \in LiveInvoices(p) => d = e

\* An invoice made from a chantier bills one that is closed, and stays closed.
BilledOnlyWhenCompleted ==
    \A d \in Docs :
        Exists(d) /\ documents[d].type = "INVOICE" /\ documents[d].parent # None
            => IsCompletedProject(documents[d].parent)

\* A quote is ACCEPTED exactly when a chantier was opened from it, and then
\* from one acceptance only (acceptQuoteServ: "a double click can't create
\* two chantiers", "a failure halfway leaves nothing behind").
OneChantierPerAcceptedQuote ==
    /\ \A q \in Docs : Exists(q) /\ documents[q].type = "QUOTE"
          => (documents[q].status = "ACCEPTED" <=> Chantiers(q) # {})
    /\ \A d, e, q \in Docs : d \in Chantiers(q) /\ e \in Chantiers(q) => d = e

\* A PROJECT document and its projects row come and stay together
\* (addProjectServ: never "an orphan PROJECT document").
NoOrphanChantier ==
    \A d \in Docs : (Exists(d) /\ documents[d].type = "PROJECT") <=> projects[d] # None

\* An answered document stays answered: ACCEPTED, REJECTED, PAID and CANCELLED
\* are never left, a SENT invoice never goes back to DRAFT, and no document
\* disappears, is renumbered or changes parent.
HistoryIsKept ==
    [][\A d \in Docs : Exists(d) =>
         /\ documents'[d] # None
         /\ documents'[d].type = documents[d].type
         /\ documents'[d].parent = documents[d].parent
         /\ documents'[d].year = documents[d].year
         /\ documents'[d].seq = documents[d].seq
         /\ documents[d].status \notin {"DRAFT", "SENT"}
               => documents'[d].status = documents[d].status
         /\ documents[d].type = "INVOICE" /\ documents[d].status = "SENT"
               => documents'[d].status # "DRAFT"]_tables
=============================================================================
