--------------------------- MODULE ContentLedger ---------------------------
(***************************************************************************)
(* What saving promises for one document: its header, its sections and     *)
(* lines and its stored totals as they are committed, with every request   *)
(* one atomic step.                                                        *)
(*                                                                         *)
(* A section is a line group with an id; a line is <<section, slot>>.  The *)
(* amounts are abstracted to what they were computed from: a rate (the     *)
(* header's discount and VAT rate) and a set of lines.  Nothing is ever    *)
(* deleted: replaced sections and lines are archived.                      *)
(*                                                                         *)
(* DocumentContent takes the requests apart into their statements; its     *)
(* transactional ones implement this specification.                        *)
(***************************************************************************)
EXTENDS FiniteSets, Naturals, DocumentRules

CONSTANTS
    DocTypes,     \* the types the document may be of
    Sections,     \* the section ids that may be handed out
    Slots,        \* the lines a section may have
    SavedSlots,   \* those it has from the content save that writes it
    CatalogSlots, \* those that point at a catalog resource; others are typed in
    Rates,        \* discount and VAT rate of a header
    FirstRate,    \* the ones the document was created with
    NoSection     \* a save with no section: the document is emptied

ASSUME ContentAssumption ==
    /\ DocTypes \subseteq Types
    /\ SavedSlots \subseteq Slots
    /\ CatalogSlots \subseteq Slots
    /\ FirstRate \in Rates
    /\ NoSection \notin Sections

VARIABLES
    header,      \* the documents row: type, status, active, rate, totals
    project,     \* the projects row of a PROJECT document: status, active
    sections,    \* rows of document_sections: "none", "active" or "archived"
    lines,       \* rows of document_lines, the same
    chantier     \* what accepting the quote copied into its chantier's ledger

content == <<header, project, sections, lines, chantier>>

Lines == Sections \X Slots
RowState == {"none", "active", "archived"}
Totals == [rate : Rates, lines : SUBSET Lines]
Header == [type : Types, status : Statuses \cup {"NULL"}, active : BOOLEAN,
           rate : Rates, totals : Totals]

ContentTypeOK ==
    /\ header \in Header
    /\ project \in [status : {"IN_PROGRESS", "COMPLETED"}, active : BOOLEAN]
    /\ sections \in [Sections -> RowState]
    /\ lines \in [Lines -> RowState]
    /\ chantier \in SUBSET Lines

Active(rows) == {x \in DOMAIN rows : rows[x] = "active"}

\* getLinesByDocumentIdFromDB: the lines, whatever became of their section.
ActiveLines == Active(lines)

\* The lines a save writes in section s; none when there is no section.
LinesOf(s) == {l \in Lines : l[1] = s /\ l[2] \in SavedSlots}

\* assertContentEditableServ.
Editable ==
    IF header.type = "PROJECT"
    THEN project.active /\ project.status # "COMPLETED"
    ELSE OpenForEditing(header.type, header.status)

\* What acceptQuoteServ copies: the catalog lines of the sections still there.
CopiedLines(ss, ls) == {l \in ls : l[1] \in ss /\ l[2] \in CatalogSlots}

-----------------------------------------------------------------------------
(* A document just created: no content yet. *)

ContentInit ==
    /\ \E type \in DocTypes :
          header = [type |-> type, status |-> FirstStatus(type), active |-> TRUE,
                    rate |-> FirstRate, totals |-> [rate |-> FirstRate, lines |-> {}]]
    /\ project = [status |-> "IN_PROGRESS", active |-> TRUE]
    /\ sections = [s \in Sections |-> "none"]
    /\ lines = [l \in Lines |-> "none"]
    /\ chantier = {}

\* All sections and lines archived but for those of s, which are new.
Rewritten(s) ==
    /\ sections' = [x \in Sections |-> IF x = s THEN "active"
                                       ELSE IF sections[x] = "active" THEN "archived"
                                       ELSE sections[x]]
    /\ lines' = [l \in Lines |-> IF l \in LinesOf(s) THEN "active"
                                 ELSE IF lines[l] = "active" THEN "archived"
                                 ELSE lines[l]]

\* PUT /document/:id/content: the whole content replaced, the totals with it.
SaveContent(s) ==
    /\ Editable
    /\ s # NoSection => sections[s] = "none"
    /\ Rewritten(s)
    /\ header' = [header EXCEPT !.totals = [rate |-> header.rate, lines |-> LinesOf(s)]]
    /\ UNCHANGED <<project, chantier>>

\* The quote's answer, the copy of its lines with it.
AcceptContent ==
    /\ header.type = "QUOTE"
    /\ header.status \in {"DRAFT", "SENT"}
    /\ header.active
    /\ header' = [header EXCEPT !.status = "ACCEPTED"]
    /\ chantier' = CopiedLines(Active(sections), ActiveLines)
    /\ UNCHANGED <<project, sections, lines>>

SetContentStatus(status) ==
    /\ status \in Settable(header.type, header.status)
    /\ header.active
    /\ header' = [header EXCEPT !.status = status]
    /\ UNCHANGED <<project, sections, lines, chantier>>

SetActive(active) ==
    /\ header' = [header EXCEPT !.active = active]
    /\ UNCHANGED <<project, sections, lines, chantier>>

SetProject(status, active) ==
    /\ header.type = "PROJECT"
    /\ project.status = "COMPLETED" => status = "COMPLETED"
    /\ project' = [status |-> status, active |-> active]
    /\ UNCHANGED <<header, sections, lines, chantier>>

ContentNext ==
    \/ \E s \in Sections \cup {NoSection} : SaveContent(s)
    \/ AcceptContent
    \/ \E status \in Statuses : SetContentStatus(status)
    \/ \E active \in BOOLEAN : SetActive(active)
    \/ \E status \in {"IN_PROGRESS", "COMPLETED"}, active \in BOOLEAN :
          SetProject(status, active)

ContentSpec == ContentInit /\ [][ContentNext]_content

-----------------------------------------------------------------------------
(* What it guarantees. *)

\* The document shows what one save wrote, whole: its sections and lines are
\* never those of two saves, nor half of one (replaceDocumentContentServ:
\* "Either all of it lands or none of it").
OneSavesContent ==
    \E s \in Sections \cup {NoSection} :
        /\ Active(sections) = {s} \cap Sections
        /\ ActiveLines = LinesOf(s)

\* The stored amounts are those of the lines there are, at the rate there is
\* (recomputeDocumentTotalsServ).
TotalsAddUp == header.totals = [rate |-> header.rate, lines |-> ActiveLines]

\* An accepted quote still says what its chantier was given to do.
ChantierMatchesQuote ==
    header.status = "ACCEPTED" => chantier = CopiedLines(Active(sections), ActiveLines)

Closed == header.type # "PROJECT" /\ ~OpenForEditing(header.type, header.status)

\* Once answered, or sent for an invoice, a document's rate, sections and
\* lines never change again (isOpenForEditing).
ClosedContentIsFrozen ==
    [][Closed => UNCHANGED <<header.rate, sections, lines>>]_content
=============================================================================
