------------------------------ MODULE Calendar ------------------------------
(***************************************************************************)
(* The calendar page: sections of the chantiers, scheduled by dropping     *)
(* them from the sidebar, and free-standing notes.  An event is moved on   *)
(* the page before the server is asked; details are shown and saved from   *)
(* the page's own copies, sectionsById and notesById.                      *)
(***************************************************************************)
EXTENDS Integers, FiniteSets

CONSTANTS
    Sections,
    Notes,
    Slots,       \* times, as numbers
    Texts,       \* a note's title, a section's note
    None,
    MaxMoves     \* bound: what the user does on the page

VARIABLES
    server,      \* what is saved
    known,       \* sectionsById, notesById
    shown,       \* the events on the calendar
    sidebar,     \* unscheduledSections
    loading,     \* the three loads of the page, until they are answered
    found,       \* what their SELECTs found, None before they ran
    dialog,      \* the item in the dialog and its draft
    requests,    \* the writes on their way
    moves,       \* what the user has done so far
    tangled      \* for the properties: items two of these met on

vars == <<server, known, shown, sidebar, loading, found, dialog, requests, moves, tangled>>

Items == Sections \cup Notes
Place == [from : Slots, to : Slots]
\* An event on the calendar ends after it begins; a note's draft need not.
Span == {p \in Place : p.from <= p.to}
Item == [text : Texts, at : Place \cup {None}]
Loads == {"sidebar", "sections", "notes"}
Kinds == {"schedule", "move", "save", "delete", "note"}
Timetable == [Items -> Item \cup {None}]
Request == [kind : Kinds, item : Items, to : Item, was : Place \cup {None}]

TypeOK ==
    /\ server \in Timetable /\ known \in Timetable
    /\ shown \in [Items -> Place \cup {None}]
    /\ sidebar \subseteq Sections /\ loading \subseteq Loads
    /\ found \in [Loads -> Timetable \cup {None}]
    /\ dialog = None \/ (dialog.item \in Items /\ dialog.draft \in Item)
    /\ requests \subseteq Request /\ moves \in 0..MaxMoves /\ tangled \subseteq Items

FirstText == CHOOSE t \in Texts : TRUE
At(p) == [text |-> FirstText, at |-> p]

\* Sections are there, scheduled or not; a note has a time.
Init ==
    /\ server \in [Items -> {At(p) : p \in Span \cup {None}} \cup {None}]
    /\ \A s \in Sections : server[s] # None
    /\ \A n \in Notes : server[n] # At(None)
    /\ known = [i \in Items |-> None] /\ shown = [i \in Items |-> None]
    /\ sidebar = {} /\ loading = Loads /\ found = [what \in Loads |-> None]
    /\ dialog = None /\ requests = {} /\ moves = 0 /\ tangled = {}

Busy(i) == \E q \in requests : q.item = i

-----------------------------------------------------------------------------
(* The page loads: the server reads its rows, which come to the page later. *)

Scheduled == {s \in Sections : server[s].at # None}
Existing == {n \in Notes : server[n] # None}
Asked(what) ==
    CASE what = "sections" -> Scheduled
      [] what = "notes"    -> Existing
      [] what = "sidebar"  -> Sections \ Scheduled

LoadFinds(what) ==
    /\ what \in loading /\ found[what] = None
    /\ found' = [found EXCEPT ![what] =
          [i \in Items |-> IF i \in Asked(what) THEN server[i] ELSE None]]
    /\ UNCHANGED <<server, known, shown, sidebar, loading, dialog, requests, moves, tangled>>

\* addEvent: one more event where there is one already, and one for a note that was
\* deleted since it was read.
Adds(rows) ==
    LET items == {i \in Items : rows[i] # None}
    IN /\ known' = [i \in Items |-> IF i \in items THEN rows[i] ELSE known[i]]
       /\ shown' = [i \in Items |-> IF i \in items THEN rows[i].at ELSE shown[i]]
       /\ tangled' = tangled \cup {i \in items : shown[i] # None \/ Busy(i) \/ rows[i] # server[i]}

\* A load that fails is as one that is never answered.
LoadAnswers(what) ==
    /\ what \in loading /\ loading' = loading \ {what}
    /\ found[what] # None /\ found' = [found EXCEPT ![what] = None]
    /\ IF what = "sidebar"
       THEN /\ sidebar' = {s \in Sections : found[what][s] # None}
            /\ UNCHANGED <<known, shown, tangled>>
       ELSE Adds(found[what]) /\ UNCHANGED sidebar
    /\ UNCHANGED <<server, dialog, requests, moves>>

-----------------------------------------------------------------------------
(* The user. *)

Move == moves < MaxMoves /\ moves' = moves + 1

Sends(kind, i, to, was) ==
    /\ requests' = requests \cup {[kind |-> kind, item |-> i, to |-> to, was |-> was]}
    /\ tangled' = IF Busy(i) THEN tangled \cup {i} ELSE tangled

\* onEventReceive: the event is shown once the write has succeeded.
Drop(s, p) ==
    /\ Move /\ dialog = None /\ s \in sidebar
    /\ Sends("schedule", s, [server[s] EXCEPT !.at = p], None)
    /\ UNCHANGED <<server, known, shown, sidebar, loading, found, dialog>>

\* onEventDropOrResize: of a note, the title known goes along.
Drag(i, p) ==
    /\ Move /\ dialog = None /\ shown[i] # None /\ known[i] # None /\ p # shown[i]
    /\ shown' = [shown EXCEPT ![i] = p]
    /\ Sends("move", i, [known[i] EXCEPT !.at = p], shown[i])
    /\ UNCHANGED <<server, known, sidebar, loading, found, dialog>>

\* onEventClick, and a new note from a day or from the button.
Opens(i, draft) ==
    /\ dialog = None /\ dialog' = [item |-> i, draft |-> draft, copy |-> known[i]]
    /\ tangled' = IF Busy(i) THEN tangled \cup {i} ELSE tangled
    /\ UNCHANGED <<server, known, shown, sidebar, loading, found, requests>>

Open(i) == Move /\ shown[i] # None /\ known[i] # None /\ Opens(i, known[i])
NewNote(n, p) ==
    /\ Move /\ n \in Notes /\ server[n] = None
    /\ Opens(n, At(p))

Drafts(draft) ==
    /\ dialog # None /\ dialog' = [dialog EXCEPT !.draft = draft]
    /\ UNCHANGED <<server, known, shown, sidebar, loading, found, requests, moves, tangled>>

SetText(t) == dialog # None /\ Drafts([dialog.draft EXCEPT !.text = t])

\* moveStartKeepingDuration, as far as the slots go.
Length(p) == IF p.to > p.from THEN p.to - p.from ELSE 0
SetStart(t) ==
    /\ dialog # None /\ dialog.item \in Notes
    /\ t + Length(dialog.draft.at) \in Slots
    /\ Drafts([dialog.draft EXCEPT !.at = [from |-> t, to |-> t + Length(dialog.draft.at)]])
SetEnd(t) ==
    /\ dialog # None /\ dialog.item \in Notes
    /\ Drafts([dialog.draft EXCEPT !.at.to = t])

Close ==
    /\ dialog # None /\ dialog' = None
    /\ UNCHANGED <<server, known, shown, sidebar, loading, found, requests, moves, tangled>>

\* saveNoteDialog, deleteNoteDialog, and a section's saveNote.  The dialog of a
\* note closes with the answer: until then it is as good as closed here.
SaveDialog(kind) ==
    /\ dialog # None /\ dialog' = None
    /\ IF dialog.item \in Sections THEN kind = "note" ELSE kind \in {"save", "delete"}
    /\ kind = "delete" => dialog.copy # None
    /\ Sends(kind, dialog.item,
             IF kind = "note" THEN [dialog.copy EXCEPT !.text = dialog.draft.text] ELSE dialog.draft, None)
    /\ UNCHANGED <<server, known, shown, sidebar, loading, found, moves>>

-----------------------------------------------------------------------------
(* The answers. *)

\* A section's dates and its note are written apart; a note is written whole.
Written(q) ==
    LET i == q.item
    IN CASE q.kind = "delete" -> None
         [] q.kind = "note"   -> [server[i] EXCEPT !.text = q.to.text]
         [] q.kind \in {"move", "schedule"} /\ i \in Sections -> [server[i] EXCEPT !.at = q.to.at]
         [] OTHER             -> q.to

Carried(q) == q.item \in Sections \/ server[q.item] # None \/ (q.kind = "save" /\ known[q.item] = None)

\* What the page remembers: of a section's note, the copy the dialog was opened
\* on; of a section that was moved, its copy with the new dates.
Learns(q) ==
    LET i == q.item
    IN known' = [known EXCEPT ![i] =
          CASE q.kind = "delete" -> None
            [] q.kind = "move" /\ i \in Sections -> [@ EXCEPT !.at = q.to.at]
            [] q.kind = "move" /\ i \in Notes -> Written(q)
            [] OTHER -> q.to]

\* A section's event stays where it is; a note's is taken off and put in anew.
Shows(q) ==
    CASE q.kind \in {"move", "note"}     -> UNCHANGED <<shown, sidebar>>
      [] q.kind = "schedule" -> /\ shown' = [shown EXCEPT ![q.item] = q.to.at]
                                /\ sidebar' = sidebar \ {q.item}
      [] q.kind = "save"     -> shown' = [shown EXCEPT ![q.item] = q.to.at] /\ UNCHANGED sidebar
      [] q.kind = "delete"   -> shown' = [shown EXCEPT ![q.item] = None] /\ UNCHANGED sidebar

Succeeds(i, kind) == \E q \in requests :
    /\ q.item = i /\ q.kind = kind /\ Carried(q)
    /\ requests' = requests \ {q}
    /\ server' = [server EXCEPT ![q.item] = Written(q)]
    /\ Learns(q) /\ Shows(q)
    /\ UNCHANGED <<loading, found, dialog, moves, tangled>>

\* A slip: an event that could not be moved stays where it was dropped.
StaysMoved(q) == shown
\* info.revert()
Reverted(q) == IF q.kind = "move" THEN [shown EXCEPT ![q.item] = q.was] ELSE shown

Fails(i, kind) == \E q \in requests :
    /\ q.item = i /\ q.kind = kind /\ requests' = requests \ {q}
    /\ shown' = Reverted(q)
    /\ \/ UNCHANGED <<server, tangled>>
       \/ /\ Carried(q) /\ server' = [server EXCEPT ![q.item] = Written(q)]
          /\ tangled' = tangled \cup {q.item}
    /\ UNCHANGED <<known, sidebar, loading, found, dialog, moves>>

-----------------------------------------------------------------------------
Dialog ==
    \/ \E t \in Texts : SetText(t)
    \/ \E t \in Slots : SetStart(t) \/ SetEnd(t)
    \/ \E kind \in Kinds : SaveDialog(kind)
    \/ Close
Event(i) ==
    \/ \E p \in Span : Drag(i, p) \/ Drop(i, p) \/ NewNote(i, p)
    \/ Open(i)
Writing == \E i \in Items, kind \in Kinds : Succeeds(i, kind) \/ Fails(i, kind)

Next ==
    \/ \E what \in Loads : LoadFinds(what) \/ LoadAnswers(what)
    \/ \E i \in Items : Event(i)
    \/ Dialog \/ Writing

Spec == Init /\ [][Next]_vars
-----------------------------------------------------------------------------
(* What the calendar guarantees. *)

AtRest(i) == loading = {} /\ ~Busy(i) /\ i \notin tangled

\* What is saved is what is shown: an event stands where it is scheduled, the page
\* knows its details, after a move that went through or not.  Not of an item that two
\* of these met on: two writes of it on their way at once, or a write while its dialog
\* was opened; a load that brought it while a write of it was on its way, while it
\* was shown already, or as it was before it was written or deleted; a write whose
\* answer was lost.
ShowsTheSchedule ==
    \A i \in Items : AtRest(i) =>
        /\ shown[i] = (IF server[i] = None THEN None ELSE server[i].at)
        /\ shown[i] # None => known[i] = server[i]

\* A section waits in the sidebar or stands on the calendar, one of the two.
SomewhereOnThePage ==
    \A s \in Sections : AtRest(s) => (s \in sidebar <=> shown[s] = None)
=============================================================================
