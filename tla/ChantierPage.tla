---------------------------- MODULE ChantierPage ----------------------------
(***************************************************************************)
(* A chantier's page: the ledger of what was used on site, read in two     *)
(* requests, edited as a draft and saved whole.  The calendar writes a     *)
(* section's note and a colleague may save the same ledger meanwhile; a    *)
(* save replaces the sections by new ones, so lines read after one do not  *)
(* belong to sections read before it.                                      *)
(***************************************************************************)
EXTENDS Naturals

CONSTANTS
    Sections,
    Resources,
    None,
    MaxMoves   \* bound: edits, and writes of the others

VARIABLES
    stored,    \* the ledger
    draft,     \* sections()
    page,      \* what the page does, and what a load has brought so far
    sent,      \* what the save under way carries
    fresh,     \* for the properties: draft was read from what is stored
    touched,   \* for the properties: sections edited since
    moves

vars == <<stored, draft, page, sent, fresh, touched, moves>>

\* A line: its quantity, left empty, or its label or its price left empty.
Lines == {"zero", "one", "blank", "incomplete"}
Section == [note : 0..1, lines : [Resources -> Lines \cup {None}]]
Ledger == [Sections -> Section \cup {None}]
Doing == {"loading", "reading", "editing", "saving"}

NoLines == [r \in Resources |-> None]
Uses(s, r) == s # None /\ s.lines[r] # None

TypeOK ==
    /\ stored \in Ledger /\ draft \in Ledger /\ sent \in Ledger \cup {None}
    /\ page.doing \in Doing /\ page.sections \in Ledger \cup {None}
    /\ page.lines \in Ledger \cup {None} /\ page.replaced \in BOOLEAN
    /\ fresh \in BOOLEAN /\ touched \subseteq Sections /\ moves \in 0..MaxMoves

OnceEach(ledger) ==
    \A r \in Resources, s, t \in Sections : Uses(ledger[s], r) /\ Uses(ledger[t], r) => s = t
Saveable == {x \in Ledger : /\ OnceEach(x)
                            /\ \A s \in Sections, r \in Resources :
                                 Uses(x[s], r) => x[s].lines[r] \in {"zero", "one"}}

Loading == [doing |-> "loading", sections |-> None, lines |-> None, replaced |-> FALSE]
Now(doing) == [Loading EXCEPT !.doing = doing]
Empty == [s \in Sections |-> None]

Init ==
    /\ stored \in Saveable /\ draft = Empty
    /\ page = Loading /\ sent = None
    /\ fresh = FALSE /\ touched = {} /\ moves = 0

Move == moves < MaxMoves /\ moves' = moves + 1

-----------------------------------------------------------------------------
(* The page loads: the sections and the lines, in either order. *)

SectionsArrive ==
    /\ page.doing = "loading" /\ page.sections = None
    /\ page' = [page EXCEPT !.sections = stored]
    /\ UNCHANGED <<stored, draft, sent, fresh, touched, moves>>

LinesArrive ==
    /\ page.doing = "loading" /\ page.lines = None
    /\ page' = [page EXCEPT !.lines = stored]
    /\ UNCHANGED <<stored, draft, sent, fresh, touched, moves>>

\* Lines go to the section whose id they carry.
Joined ==
    [s \in Sections |->
        IF page.sections[s] = None THEN None
        ELSE [note  |-> page.sections[s].note,
              lines |-> IF page.replaced THEN NoLines ELSE page.lines[s].lines]]

Loaded ==
    /\ page.doing = "loading" /\ page.sections # None /\ page.lines # None
    /\ page' = Now("reading") /\ draft' = Joined
    /\ fresh' = (~page.replaced /\ page.sections = stored) /\ touched' = {}
    /\ UNCHANGED <<stored, sent, moves>>

\* What was shown before stays.
LoadFails ==
    /\ page.doing = "loading" /\ page' = Now("reading")
    /\ fresh' = FALSE /\ touched' = {}
    /\ UNCHANGED <<stored, draft, sent, moves>>

-----------------------------------------------------------------------------
(* The user edits; the fields stay open while a save is under way. *)

StartEditing ==
    /\ page.doing = "reading" /\ page' = Now("editing")
    /\ UNCHANGED <<stored, draft, sent, fresh, touched, moves>>

CancelEditing ==
    /\ page.doing = "editing" /\ page' = Loading /\ touched' = {}
    /\ UNCHANGED <<stored, draft, sent, fresh, moves>>

Edit(s, section) ==
    /\ page.doing \in {"editing", "saving"} /\ Move
    /\ draft' = [draft EXCEPT ![s] = section] /\ touched' = touched \cup {s}
    /\ UNCHANGED <<stored, page, sent, fresh>>

AddSection(s) == draft[s] = None /\ Edit(s, [note |-> 0, lines |-> NoLines])
RemoveSection(s) == draft[s] # None /\ Edit(s, None)

SetLine(s, r, line) == Edit(s, [draft[s] EXCEPT !.lines[r] = line])

\* availableResourceOptions
Offered(s, r) == \A t \in Sections : ~Uses(draft[t], r)

AddResourceLine(s, r) == draft[s] # None /\ Offered(s, r) /\ SetLine(s, r, "zero")
UpdateLine(s, r, line) == Uses(draft[s], r) /\ line # draft[s].lines[r] /\ SetLine(s, r, line)
RemoveLine(s, r) == Uses(draft[s], r) /\ SetLine(s, r, None)

-----------------------------------------------------------------------------
(* Saving: one request, all or nothing. *)

Complete == \A s \in Sections : draft[s] # None =>
                \A r \in Resources : draft[s].lines[r] # "incomplete"

Amount(line) == IF line = "blank" THEN "zero" ELSE line
\* A slip: the note is left out, the form has no field for it.
SendsNoNote(section) ==
    [note |-> 0, lines |-> [r \in Resources |-> Amount(section.lines[r])]]

Payload(section) ==
    [section EXCEPT !.lines = [r \in Resources |-> Amount(section.lines[r])]]

Save ==
    /\ page.doing = "editing" /\ Complete
    /\ page' = Now("saving")
    /\ sent' = [s \in Sections |-> IF draft[s] = None THEN None ELSE Payload(draft[s])]
    /\ UNCHANGED <<stored, draft, fresh, touched, moves>>

SaveSucceeds ==
    /\ page.doing = "saving" /\ stored' = sent /\ sent' = None
    /\ page' = Loading
    /\ UNCHANGED <<draft, fresh, touched, moves>>

\* Refused, or done and the answer lost.
SaveFails ==
    /\ page.doing = "saving" /\ page' = Now("editing") /\ sent' = None
    /\ \/ UNCHANGED <<stored, fresh>>
       \/ stored' = sent /\ fresh' = FALSE
    /\ UNCHANGED <<draft, touched, moves>>

-----------------------------------------------------------------------------
(* The others. *)

Writes(ledger, replaces) ==
    /\ Move /\ stored' = ledger /\ stored' # stored /\ fresh' = FALSE
    /\ page' = [page EXCEPT !.replaced =
                   @ \/ (replaces /\ (page.sections # None \/ page.lines # None))]
    /\ UNCHANGED <<draft, sent, touched>>

CalendarNotes(s) ==
    stored[s] # None /\ Writes([stored EXCEPT ![s].note = 1 - @], FALSE)
ColleagueSaves(s) == Writes([stored EXCEPT ![s] = None], TRUE)

-----------------------------------------------------------------------------
Line(s, r) ==
    \/ AddResourceLine(s, r) \/ RemoveLine(s, r)
    \/ \E line \in Lines : UpdateLine(s, r, line)

Next ==
    \/ SectionsArrive \/ LinesArrive \/ Loaded \/ LoadFails
    \/ StartEditing \/ CancelEditing
    \/ \E s \in Sections : AddSection(s) \/ RemoveSection(s)
    \/ \E s \in Sections, r \in Resources : Line(s, r)
    \/ Save \/ SaveSucceeds \/ SaveFails
    \/ \E s \in Sections : CalendarNotes(s) \/ ColleagueSaves(s)

Spec == Init /\ [][Next]_vars
-----------------------------------------------------------------------------
(* What the page guarantees. *)

\* Looked at, the ledger is what is stored: after a save, after an edit that was
\* cancelled, unless another wrote since it was read or the last load failed.
ShowsTheLedger == page.doing = "reading" /\ fresh => draft = stored

\* A resource has one line in the whole ledger, however the draft was edited.
ResourceOnce == OnceEach(draft)

\* A save leaves the sections nobody edited as they were, their notes and lines
\* with them, unless the ledger was written since it was read: the last save wins.
UntouchedSectionsStay ==
    [][SaveSucceeds /\ fresh =>
         \A s \in Sections \ touched : stored'[s] = stored[s]]_vars
=============================================================================
