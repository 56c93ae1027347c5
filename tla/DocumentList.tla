---------------------------- MODULE DocumentList ----------------------------
(***************************************************************************)
(* The list of quotes, or of invoices: the status cell.  The select writes *)
(* into the row object; the status before the change is kept in one        *)
(* variable for all the rows.  Accepting a quote is asked about first.     *)
(*                                                                         *)
(* The cell that was edited is found again by its index among the rows     *)
(* shown, in the list of all the rows loaded: with a search on, that may   *)
(* be another row.                                                         *)
(***************************************************************************)
EXTENDS Naturals, Sequences, SequencesExt, FiniteSets

CONSTANTS
    Documents,    \* a sequence: the documents as the server orders them
    TypeOf(_),    \* each a QUOTE or an INVOICE
    None,
    MaxEdits      \* bound: how many cells are opened

VARIABLES
    server,      \* the statuses as saved
    list,        \* which type is listed, its loads on their way, the search
    shown,       \* the statuses in the row objects
    cell,        \* the cell in edit mode: an index among the rows shown
    statusBeforeEdit,
    pendingAccept,   \* the quote the confirm dialog is about
    requests,    \* the changes of status on their way
    edits,       \* cells opened so far
    muddled      \* for the properties: one thing was not at a time

vars == <<server, list, shown, cell, statusBeforeEdit, pendingAccept, requests,
          edits, muddled>>

Docs == Range(Documents)
Types == {"QUOTE", "INVOICE"}
Statuses == {"DRAFT", "SENT", "ACCEPTED", "REJECTED", "PAID", "CANCELLED"}
Open == {"DRAFT", "SENT"}

\* statusOptionsFor: a sent invoice does not go back to draft.
Options(d, status) ==
    IF TypeOf(d) = "QUOTE" THEN Open \cup {"ACCEPTED", "REJECTED"}
    ELSE (IF status = "SENT" THEN {"SENT"} ELSE Open) \cup {"PAID", "CANCELLED"}

Request == [doc : Docs, to : Statuses, attached : BOOLEAN]

TypeOK ==
    /\ server \in [Docs -> Statuses] /\ shown \in [Docs -> Statuses \cup {None}]
    /\ list.type \in Types /\ list.loads \subseteq Types /\ list.search \in BOOLEAN
    /\ cell \in 0..Len(Documents)
    /\ statusBeforeEdit \in Statuses \cup {None}
    /\ pendingAccept = None \/ pendingAccept \in Request
    /\ requests \subseteq Request /\ edits \in 0..MaxEdits /\ muddled \in BOOLEAN

\* documents() and filteredDocuments(): a search leaves the last row only.
Loaded == SelectSeq(Documents, LAMBDA d : shown[d] # None)
Filtered == IF list.search /\ Loaded # <<>> THEN <<Last(Loaded)>> ELSE Loaded
At(seq, i) == IF i \in 1..Len(seq) THEN seq[i] ELSE None

Answer(type) == [d \in Docs |-> IF TypeOf(d) = type THEN server[d] ELSE None]

Init ==
    /\ \E status \in Open : server = [d \in Docs |-> status]
    /\ list \in [type : Types, loads : {{}}, search : {FALSE}, overtaken : {FALSE}]
    /\ shown = Answer(list.type)
    /\ cell = 0 /\ statusBeforeEdit = None /\ pendingAccept = None
    /\ requests = {} /\ edits = 0 /\ muddled = FALSE

Idle == cell = 0 /\ pendingAccept = None /\ requests = {} /\ list.loads = {}

-----------------------------------------------------------------------------
(* The list: its type is in the address, its search in the toolbar. *)

Load(type) == [list EXCEPT !.type = type, !.loads = @ \cup {type},
                           !.overtaken = list.loads # {}]

ChangeType(type) ==
    /\ type # list.type /\ cell = 0
    /\ list' = Load(type)
    /\ muddled' = (muddled \/ ~Idle)
    /\ UNCHANGED <<server, shown, cell, statusBeforeEdit, pendingAccept, requests, edits>>

Search ==
    /\ cell = 0
    /\ list' = [list EXCEPT !.search = ~@]
    /\ UNCHANGED <<server, shown, cell, statusBeforeEdit, pendingAccept, requests, edits, muddled>>

\* New row objects; what is under way keeps the old ones.
Detached(r) == [r EXCEPT !.attached = FALSE]

LoadAnswers(type) ==
    /\ type \in list.loads
    /\ list' = [list EXCEPT !.loads = @ \ {type}]
    /\ shown' = Answer(type) /\ cell' = 0
    /\ requests' = {Detached(r) : r \in requests}
    /\ pendingAccept' = IF pendingAccept = None THEN None ELSE Detached(pendingAccept)
    /\ muddled' = (muddled \/ cell # 0 \/ requests # {} \/ pendingAccept # None)
    /\ UNCHANGED <<server, statusBeforeEdit, edits>>

LoadFails(type) ==
    /\ type \in list.loads
    /\ list' = [list EXCEPT !.loads = @ \ {type}, !.overtaken = TRUE]
    /\ UNCHANGED <<server, shown, cell, statusBeforeEdit, pendingAccept, requests, edits, muddled>>

-----------------------------------------------------------------------------
(* The status cell. *)

\* onStatusEditInit: the status before is read off the list loaded.
EditInit(i) ==
    /\ cell = 0 /\ pendingAccept = None /\ edits < MaxEdits
    /\ At(Filtered, i) # None /\ shown[At(Filtered, i)] \in Open
    /\ cell' = i /\ edits' = edits + 1
    /\ statusBeforeEdit' = shown[At(Loaded, i)]
    /\ muddled' = (muddled \/ At(Filtered, i) # At(Loaded, i)
                           \/ requests # {} \/ list.loads # {})
    /\ UNCHANGED <<server, list, shown, pendingAccept, requests>>

Pick(status) ==
    LET d == At(Filtered, cell)
    IN /\ cell # 0 /\ d # None /\ status \in Options(d, shown[d])
       /\ shown' = [shown EXCEPT ![d] = status]
       /\ UNCHANGED <<server, list, cell, statusBeforeEdit, pendingAccept, requests, edits, muddled>>

\* saveStatus
Asks(d) == shown[d] = "ACCEPTED" /\ statusBeforeEdit # "ACCEPTED"
Change(d) == [doc |-> d, to |-> shown[d], attached |-> TRUE]

EditComplete ==
    LET d == At(Loaded, cell)
    IN /\ cell # 0 /\ cell' = 0
       /\ IF d = None \/ shown[d] = statusBeforeEdit THEN UNCHANGED <<pendingAccept, requests>>
          ELSE IF Asks(d) THEN pendingAccept' = Change(d) /\ UNCHANGED requests
          ELSE requests' = requests \cup {Change(d)} /\ UNCHANGED pendingAccept
       /\ UNCHANGED <<server, list, shown, statusBeforeEdit, edits, muddled>>

-----------------------------------------------------------------------------
(* Accepting a quote. *)

\* The row as it was before the select wrote into it.
PutBack(r) == IF r.attached THEN [shown EXCEPT ![r.doc] = statusBeforeEdit] ELSE shown

AcceptCancelled ==
    /\ pendingAccept # None
    /\ shown' = PutBack(pendingAccept)
    /\ pendingAccept' = None
    /\ UNCHANGED <<server, list, cell, statusBeforeEdit, requests, edits, muddled>>

AcceptConfirmed ==
    /\ pendingAccept # None
    /\ requests' = requests \cup {pendingAccept}
    /\ pendingAccept' = None
    /\ UNCHANGED <<server, list, shown, cell, statusBeforeEdit, edits, muddled>>

-----------------------------------------------------------------------------
(* The answers. *)

Allowed(r) == server[r.doc] \in Open /\ server[r.doc] # r.to /\ r.to \in Options(r.doc, server[r.doc])

\* An acceptance reloads the list, another change updates its row.
Succeeds(r) ==
    /\ r \in requests /\ Allowed(r)
    /\ server' = [server EXCEPT ![r.doc] = r.to]
    /\ requests' = requests \ {r}
    /\ IF r.to = "ACCEPTED" THEN list' = Load(list.type) /\ UNCHANGED shown
       ELSE UNCHANGED list /\ shown' = IF r.attached THEN [shown EXCEPT ![r.doc] = r.to] ELSE shown
    /\ UNCHANGED <<cell, statusBeforeEdit, pendingAccept, edits, muddled>>

\* Refused, or lost on its way there or back.
Fails(r) ==
    /\ r \in requests
    /\ requests' = requests \ {r}
    /\ IF r.to = "ACCEPTED" THEN shown' = PutBack(r) /\ UNCHANGED list
       ELSE list' = Load(list.type) /\ UNCHANGED shown
    /\ \/ UNCHANGED <<server, muddled>>
       \/ Allowed(r) /\ server' = [server EXCEPT ![r.doc] = r.to]
                     /\ muddled' = (muddled \/ r.to = "ACCEPTED")
    /\ UNCHANGED <<cell, statusBeforeEdit, pendingAccept, edits>>

-----------------------------------------------------------------------------
Editing == (\E i \in 1..Len(Documents) : EditInit(i)) \/ (\E s \in Statuses : Pick(s)) \/ EditComplete
Accepting == AcceptCancelled \/ AcceptConfirmed
Answering == \E d \in Docs, s \in Statuses, a \in BOOLEAN :
    LET r == [doc |-> d, to |-> s, attached |-> a] IN Succeeds(r) \/ Fails(r)
Listing == \E t \in Types : ChangeType(t) \/ LoadAnswers(t) \/ LoadFails(t)

Next == Editing \/ Accepting \/ Answering \/ Listing \/ Search

Spec == Init /\ [][Next]_vars
-----------------------------------------------------------------------------
(* What the list guarantees. *)

\* With nothing under way the rows show the statuses saved, whatever was picked,
\* refused or cancelled, while one thing is done at a time: a cell found under its
\* own index is edited, and its change answered, with no load of the list on its way
\* and none asked for, and no acceptance was carried out with its answer lost.
ShowsSavedStatuses ==
    Idle /\ ~list.overtaken /\ ~muddled => shown = Answer(list.type)
=============================================================================
