---------------------------- MODULE EditableList ----------------------------
(***************************************************************************)
(* A list whose rows are edited in place: clients, resources, chantiers.   *)
(* The user types into the row object itself; a clone taken as the edit    *)
(* starts is what a cancelled or a failed edit is restored from.  A save   *)
(* of a chantier whose date was moved is three requests: its sections are  *)
(* read, the first one updated, then the row itself.                       *)
(*                                                                         *)
(* Reloading the list replaces the row objects: a save under way goes on   *)
(* with the object it started from, which is not the one shown any more.   *)
(***************************************************************************)
EXTENDS Naturals, FiniteSets

CONSTANTS
    Rows,
    Blank,      \* a name left empty
    Names,      \* the others
    Dated,      \* whether rows have a date of their own: the chantiers
    None,
    MaxEdits,   \* bound: how many edits are started
    MaxLoads    \* bound: how many loads of the list are on their way at once, alike ones apart

VARIABLES
    server,   \* the rows as saved
    shown,    \* the row objects in the list
    clones,   \* clonedClients, clonedResources, clonedProjects
    editing,  \* the rows in edit mode
    saves,    \* the saves under way: their next request, the object they save
    view,     \* whether archived rows are asked for, the loads on their way
    sets,     \* rows being archived or put back
    asked,    \* the row a confirm dialog is about
    edits,    \* edits started so far
    strayed   \* for the properties: rows saved in part, edited in two goes, read
              \* before they were written, or archived without an answer

vars == <<server, shown, clones, editing, saves, view, sets, asked, edits, strayed>>

Row == [name : Names \cup {Blank}, date : {0, 1}, active : BOOLEAN]
Steps == {"readSections", "writeSection", "writeRow"}

TypeOK ==
    /\ server \in [Rows -> Row]
    /\ shown \in [Rows -> Row \cup {None}]
    /\ clones \in [Rows -> Row \cup {None}]
    /\ editing \subseteq Rows
    /\ \A r \in Rows : saves[r] = None \/ saves[r].step \in Steps
    /\ view.archived \in BOOLEAN /\ view.overtaken \in BOOLEAN
    /\ \A load \in view.loads : load.archived \in BOOLEAN
    /\ sets \subseteq Rows \X BOOLEAN /\ asked \in Rows \cup {None}
    /\ edits \in 0..MaxEdits /\ strayed \subseteq Rows

Listed(archived) ==
    [r \in Rows |-> IF server[r].active \/ archived THEN server[r] ELSE None]

Init ==
    /\ server \in [Rows -> {x \in Row : x.name # Blank /\ x.date = 0}]
    /\ shown = Listed(FALSE)
    /\ clones = [r \in Rows |-> None]
    /\ editing = {} /\ saves = [r \in Rows |-> None]
    /\ view = [archived |-> FALSE, loads |-> {}, overtaken |-> FALSE]
    /\ sets = {} /\ asked = None /\ edits = 0 /\ strayed = {}

-----------------------------------------------------------------------------
(* Loading the list. *)

\* A load asked for while another is on its way may come before it; two that ask
\* for the same and are not served yet count as one.
Load(archived) ==
    /\ view' = [archived |-> archived, overtaken |-> view.loads # {},
                loads |-> view.loads \cup {[archived |-> archived, found |-> None]}]
    /\ Cardinality(view'.loads) <= MaxLoads

ShowArchived ==
    /\ Load(~view.archived)
    /\ UNCHANGED <<server, shown, clones, editing, saves, sets, asked, edits, strayed>>

\* A save under way keeps the object it has.
Kept(s, r) == IF s # None /\ s.object = None THEN [s EXCEPT !.object = shown[r]] ELSE s

\* The SELECT: the answer holds the rows as they are now.
LoadFinds(load) ==
    /\ load.found = None
    /\ view' = [view EXCEPT !.loads = (@ \ {load})
                   \cup {[load EXCEPT !.found = Listed(load.archived)]}]
    /\ UNCHANGED <<server, shown, clones, editing, saves, sets, asked, edits, strayed>>

\* The rows written since the list was read.
WrittenSince(load) == {r \in Rows : load.found[r] # Listed(load.archived)[r]}

LoadAnswers(load) ==
    /\ load.found # None
    /\ view' = [view EXCEPT !.loads = @ \ {load}]
    /\ shown' = load.found
    /\ saves' = [r \in Rows |-> Kept(saves[r], r)]
    /\ strayed' = editing \cup WrittenSince(load)
                     \cup {r \in Rows : saves[r] # None \/ clones[r] # None}
    /\ UNCHANGED <<server, clones, editing, sets, asked, edits>>

LoadFails(load) ==
    /\ view' = [view EXCEPT !.loads = @ \ {load}, !.overtaken = TRUE]
    /\ UNCHANGED <<server, shown, clones, editing, saves, sets, asked, edits, strayed>>

-----------------------------------------------------------------------------
(* Editing a row. *)

\* onRowEditInit
EditInit(r) ==
    /\ shown[r] # None /\ r \notin editing /\ edits < MaxEdits
    /\ clones' = [clones EXCEPT ![r] = shown[r]]
    /\ editing' = editing \cup {r} /\ edits' = edits + 1
    /\ strayed' = IF saves[r] # None THEN strayed \cup {r} ELSE strayed
    /\ UNCHANGED <<server, shown, saves, view, sets, asked>>

Type(r, name, date) ==
    /\ r \in editing /\ shown[r] # None
    /\ Dated \/ date = shown[r].date
    /\ shown' = [shown EXCEPT ![r].name = name, ![r].date = date]
    /\ UNCHANGED <<server, clones, editing, saves, view, sets, asked, edits, strayed>>

\* What onRowEditCancel makes of the row shown.
Restored(r) ==
    IF clones[r] = None \/ shown[r] = None THEN shown ELSE [shown EXCEPT ![r] = clones[r]]

\* A slip: the row keeps what was typed.
CancelKeepsTyping(r) ==
    /\ shown' = shown
    /\ clones' = [clones EXCEPT ![r] = None]

\* onRowEditCancel
Undo(r) ==
    /\ shown' = Restored(r)
    /\ clones' = [clones EXCEPT ![r] = None]

Cancel(r) ==
    /\ r \in editing
    /\ Undo(r)
    /\ editing' = editing \ {r}
    /\ UNCHANGED <<server, saves, view, sets, asked, edits, strayed>>

\* The required fields, as in the form that creates a row.
Complete(x) == x # None /\ x.name # Blank

Moved(r) == clones[r] # None /\ clones[r].date # shown[r].date

\* onRowEditSave.  A date that was not moved is not written.
Save(r) ==
    /\ r \in editing /\ saves[r] = None
    /\ Complete(shown[r])
    /\ editing' = editing \ {r}
    /\ saves' = [saves EXCEPT ![r] =
          [object |-> None, date |-> shown[r].date, dated |-> FALSE,
           moved |-> Moved(r), step |-> IF Moved(r) THEN "readSections" ELSE "writeRow"]]
    /\ UNCHANGED <<server, shown, clones, view, sets, asked, edits, strayed>>

SaveRefused(r) ==
    /\ r \in editing /\ ~Complete(shown[r])
    /\ Undo(r)
    /\ editing' = editing \ {r}
    /\ UNCHANGED <<server, saves, view, sets, asked, edits, strayed>>

SavedObject(r) == IF saves[r].object = None THEN shown[r] ELSE saves[r].object

\* A chantier without a section has nothing to carry the date.
ReadSections(r) ==
    /\ saves[r] # None /\ saves[r].step = "readSections"
    /\ \E next \in {"writeSection", "writeRow"} :
          saves' = [saves EXCEPT ![r].step = next]
    /\ UNCHANGED <<server, shown, clones, editing, view, sets, asked, edits, strayed>>

WriteSection(r) ==
    /\ saves[r] # None /\ saves[r].step = "writeSection"
    /\ server' = [server EXCEPT ![r].date = saves[r].date]
    /\ saves' = [saves EXCEPT ![r].step = "writeRow", ![r].dated = TRUE]
    /\ UNCHANGED <<shown, clones, editing, view, sets, asked, edits, strayed>>

\* The name is read off the object now, and the object takes the row the answer
\* holds, which has no date; a list that may have to be sorted anew is reloaded.
WriteRow(r) ==
    /\ saves[r] # None /\ saves[r].step = "writeRow"
    /\ server' = [server EXCEPT ![r].name = SavedObject(r).name]
    /\ saves' = [saves EXCEPT ![r] = None]
    /\ clones' = [clones EXCEPT ![r] = None]
    /\ shown' = IF saves[r].object = None
                THEN [shown EXCEPT ![r] = [server'[r] EXCEPT !.date = shown[r].date]]
                ELSE shown
    /\ IF saves[r].moved THEN Load(view.archived) ELSE UNCHANGED view
    /\ UNCHANGED <<editing, sets, asked, edits, strayed>>

\* A request of the save is refused or lost, carried out or not: the edit is undone,
\* on the object it was made in.
SaveFails(r) ==
    /\ saves[r] # None
    /\ \/ /\ UNCHANGED server
          /\ strayed' = IF saves[r].dated THEN strayed \cup {r} ELSE strayed
       \/ /\ saves[r].step # "readSections" /\ strayed' = strayed \cup {r}
          /\ server' = IF saves[r].step = "writeSection"
                       THEN [server EXCEPT ![r].date = saves[r].date]
                       ELSE [server EXCEPT ![r].name = SavedObject(r).name]
    /\ saves' = [saves EXCEPT ![r] = None]
    /\ IF saves[r].object = None THEN Undo(r)
       ELSE UNCHANGED shown /\ clones' = [clones EXCEPT ![r] = None]
    /\ UNCHANGED <<editing, view, sets, asked, edits>>

-----------------------------------------------------------------------------
(* Archiving a row, after a question; putting it back, without one. *)

AskArchive(r) ==
    /\ asked = None /\ shown[r] # None /\ shown[r].active
    /\ asked' = r
    /\ UNCHANGED <<server, shown, clones, editing, saves, view, sets, edits, strayed>>

Dismiss ==
    /\ asked # None /\ asked' = None
    /\ UNCHANGED <<server, shown, clones, editing, saves, view, sets, edits, strayed>>

ArchiveConfirmed(r) ==
    /\ asked = r /\ asked' = None
    /\ sets' = sets \cup {<<r, FALSE>>}
    /\ UNCHANGED <<server, shown, clones, editing, saves, view, edits, strayed>>

Unarchive(r) ==
    /\ shown[r] # None /\ ~shown[r].active
    /\ sets' = sets \cup {<<r, TRUE>>}
    /\ UNCHANGED <<server, shown, clones, editing, saves, view, asked, edits, strayed>>

\* The list is reloaded.
Sets(r, active) ==
    /\ <<r, active>> \in sets /\ sets' = sets \ {<<r, active>>}
    /\ server' = [server EXCEPT ![r].active = active]
    /\ Load(view.archived)
    /\ UNCHANGED <<shown, clones, editing, saves, asked, edits, strayed>>

\* Refused, or carried out with its answer lost: the list stays as it is.
SetsFails(r, active) ==
    /\ <<r, active>> \in sets /\ sets' = sets \ {<<r, active>>}
    /\ \/ UNCHANGED <<server, strayed>>
       \/ /\ server' = [server EXCEPT ![r].active = active]
          /\ strayed' = strayed \cup {r}
    /\ UNCHANGED <<shown, clones, editing, saves, view, asked, edits>>

-----------------------------------------------------------------------------
Editing(r) ==
    \/ EditInit(r) \/ Cancel(r) \/ Save(r) \/ SaveRefused(r)
    \/ \E name \in Names \cup {Blank}, date \in {0, 1} : Type(r, name, date)
Saving(r) == ReadSections(r) \/ WriteSection(r) \/ WriteRow(r) \/ SaveFails(r)
Setting(r) ==
    \/ AskArchive(r) \/ ArchiveConfirmed(r) \/ Unarchive(r)
    \/ \E active \in BOOLEAN : Sets(r, active) \/ SetsFails(r, active)
Loading ==
    \E load \in view.loads : LoadFinds(load) \/ LoadAnswers(load) \/ LoadFails(load)

Next ==
    \/ \E r \in Rows : Editing(r) \/ Saving(r) \/ Setting(r)
    \/ ShowArchived \/ Loading \/ Dismiss

Spec == Init /\ [][Next]_vars
-----------------------------------------------------------------------------
(* What the list guarantees. *)

AtRest(r) ==
    /\ r \notin editing /\ saves[r] = None /\ {<<r, TRUE>>, <<r, FALSE>>} \cap sets = {}
    /\ view.loads = {} /\ ~view.overtaken

\* A row at rest shows what is saved, after an edit that was saved, cancelled,
\* refused or failed and after it was archived or put back.  Not so, until the
\* list is loaded again: a row whose save got half-way or was met by a reload or
\* by another edit, a row written between the list's SELECT and its answer, a
\* row archived or put back by a request whose answer was lost, and a list one
\* load of which overtook another or failed.
ShowsWhatIsSaved ==
    \A r \in Rows : AtRest(r) /\ r \notin strayed => shown[r] = Listed(view.archived)[r]

\* No row loses its name, unless it was edited again while it was being saved.
NamesStay ==
    [][\A r \in Rows : server'[r].name = Blank => server[r].name = Blank \/ r \in strayed]_vars
=============================================================================
