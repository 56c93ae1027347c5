------------------------ MODULE MCDocumentLifecycle ------------------------
(* DocumentLifecycle on small sets of documents and requests. *)
EXTENDS DocumentLifecycle, TLC

\* Ids and request slots are interchangeable.
Symmetry == Permutations(Docs) \cup Permutations(Requests)

(***************************************************************************)
(* For liveness, which rules symmetry out: requests that contend for the   *)
(* row of one draft quote and for the numbering, across New Year.  They    *)
(* create, accept and reject; nothing is archived and no chantier is       *)
(* closed, statements which hold no lock.                                  *)
(***************************************************************************)
FirstQuote == CHOOSE d \in Docs : TRUE

ContentionInit ==
    /\ documents = [d \in Docs |-> IF d = FirstQuote
                                   THEN NewRow("QUOTE", None, FirstYear, 1) ELSE None]
    /\ projects = [d \in Docs |-> None]
    /\ numLock = [p \in Prefixes |-> None]
    /\ rowLock = [d \in Docs |-> None]
    /\ req = [r \in Requests |-> IdleRequest]
    /\ year = FirstYear

Contend(r) ==
    \E d \in Docs :
        \/ \E type \in {"QUOTE", "INVOICE"} : StartCreate(r, d, type, None)
        \/ StartProject(r, d)
        \/ \E q \in Docs : StartAccept(r, d, q)
        \/ StartStatus(r, d, "REJECTED")
=============================================================================
