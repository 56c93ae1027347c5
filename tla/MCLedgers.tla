----------------------------- MODULE MCLedgers ------------------------------
(***************************************************************************)
(* The endpoints as they run, against the same endpoints as atomic steps:  *)
(* the life of quotes, chantiers and invoices, and the content of one      *)
(* document.  `part` is the one explored; they share no state, and the     *)
(* other waits at an initial state.                                        *)
(***************************************************************************)
EXTENDS MCDocumentLifecycle

CONSTANTS
    Groups,   \* the ids of the sections
    NoGroup,
    Savers    \* the request slots of the content

VARIABLES part, bodyHeader, bodySections, bodyLines, bodyChantier, bodyProject,
    bodyRowLock, bodyReq

Body == INSTANCE DocumentContent WITH
    DocTypes <- {"QUOTE", "INVOICE"}, Sections <- Groups, Slots <- {1, 2},
    SavedSlots <- {1, 2}, CatalogSlots <- {1}, Rates <- {0}, FirstRate <- 0,
    NoSection <- NoGroup, Requests <- Savers, Nobody <- None,
    Workload <- {"save", "status", "accept"},
    header <- bodyHeader, sections <- bodySections, lines <- bodyLines,
    chantier <- bodyChantier, project <- bodyProject, rowLock <- bodyRowLock,
    req <- bodyReq

bodyVars == <<bodyHeader, bodySections, bodyLines, bodyChantier, bodyProject,
    bodyRowLock, bodyReq>>
ledgersVars == <<part, vars, bodyVars>>

\* The slots of the content's requests are interchangeable too.
LedgersSymmetry == Symmetry \cup Permutations(Savers)

MCInit ==
    /\ part \in {"lifecycle", "content"}
    /\ Init
    /\ Body!Init /\ (part = "content" \/ bodyHeader.type = "QUOTE")

OnLifecycle == part = "lifecycle" /\ UNCHANGED <<part, bodyVars>>
OnContent == part = "content" /\ UNCHANGED <<part, vars>>

LifecycleStep == OnLifecycle /\ Next
ContentStep == OnContent /\ Body!FormNext

MCSpec == MCInit /\ [][LifecycleStep \/ ContentStep]_ledgersVars
-----------------------------------------------------------------------------
\* Saves, acceptances and status changes of one document, taken apart into their
\* statements and in flight at once, add up to the same requests one after the
\* other.
ContentSpec == Body!ContentSpec
=============================================================================
