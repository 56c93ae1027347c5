---------------------------- MODULE MCContention ----------------------------
(***************************************************************************)
(* Requests that wait for one another: those on the content of one         *)
(* document, with their failures, and those that create, accept and reject *)
(* across New Year.  `part` is the one explored; they share no state, and  *)
(* the other waits at an initial state.  Liveness is checked here, which   *)
(* rules symmetry out.                                                     *)
(***************************************************************************)
EXTENDS MCDocumentContent

CONSTANTS
    Docs,                 \* the ids that may be handed out
    FirstYear, LastYear   \* the years explored

VARIABLES part, saleDocuments, saleProjects, saleNumLock, saleRowLock, saleReq, saleYear

Numbering == INSTANCE MCDocumentLifecycle WITH
    None <- Nobody, documents <- saleDocuments, projects <- saleProjects,
    numLock <- saleNumLock, rowLock <- saleRowLock, req <- saleReq, year <- saleYear

saleVars ==
    <<saleDocuments, saleProjects, saleNumLock, saleRowLock, saleReq, saleYear>>
contentionVars == <<part, vars, saleVars>>

MCInit ==
    /\ part \in {"content", "numbering"}
    /\ Init /\ (part = "content" \/ header.type = "QUOTE")
    /\ Numbering!ContentionInit

OnContent == part = "content" /\ UNCHANGED <<part, saleVars>>
OnNumbering == part = "numbering" /\ UNCHANGED <<part, vars>>

ContentArrives(r) == OnContent /\ FormArrive(r)
ContentAdvances(r) == OnContent /\ FormAdvance(r)
ContentFails(r) == OnContent /\ Fail(r)
ContentArchives == OnContent /\ ArchiveDocument
ContentProject == OnContent /\ UpdateProject

SaleArrives(r) == OnNumbering /\ Numbering!Contend(r)
SaleFlips(r) == OnNumbering /\ Numbering!FlipToAccepted(r)
SaleLocks(r) == OnNumbering /\ Numbering!TakeNumberingLock(r)
SaleProceeds(r) == OnNumbering /\ Numbering!Proceed(r)
SaleFails(r) == OnNumbering /\ Numbering!Fail(r)
SaleUpdates(r) == OnNumbering /\ Numbering!UpdateStatus(r)
SaleNewYear == OnNumbering /\ Numbering!NewYear

\* The company stops once every document is there.
SaleEnds ==
    /\ part = "numbering" /\ (\A r \in Requests : Numbering!Idle(r))
    /\ UNCHANGED contentionVars

MCNext ==
    \/ \E r \in Requests :
          \/ ContentArrives(r) \/ ContentAdvances(r) \/ ContentFails(r)
          \/ SaleArrives(r) \/ SaleFlips(r) \/ SaleLocks(r) \/ SaleProceeds(r)
          \/ SaleFails(r) \/ SaleUpdates(r)
    \/ ContentArchives \/ ContentProject
    \/ SaleNewYear \/ SaleEnds

\* The fairness of FairFormSpec and of DocumentLifecycle, each in its part.
MCSpec ==
    /\ MCInit /\ [][MCNext]_contentionVars
    /\ \A r \in Requests :
          /\ SF_contentionVars(\/ ContentAdvances(r)
                               \/ SaleFlips(r) \/ SaleLocks(r) \/ SaleUpdates(r))
          /\ WF_contentionVars(SaleProceeds(r))
-----------------------------------------------------------------------------
\* Under every prefix the numbers are 1, 2, ... with no gap, whoever contends
\* for them and whatever fails, across New Year.
NumberedInSequence == part = "numbering" => Numbering!NumberedInSequence

\* Every request is answered in the end, saves, acceptances and edits of one
\* document that take turns at its row, creations and acceptances that wait for
\* the numbering: waiting for a row and for the numbering never turns into waiting
\* for each other, and no failure leaves others waiting for good.
EveryRequestAnswered ==
    \A r \in Requests :
        ~Idle(r) \/ ~Numbering!Idle(r) ~> Idle(r) /\ Numbering!Idle(r)
=============================================================================
