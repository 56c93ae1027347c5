------------------------- MODULE MCDocumentContent -------------------------
(* DocumentContent on small sets of requests, sections and lines. *)
EXTENDS DocumentContent, TLC

\* Section ids and request slots are interchangeable.
Symmetry == Permutations(Sections) \cup Permutations(Requests)

(***************************************************************************)
(* The calm company: no statement fails.                                   *)
(***************************************************************************)
CalmNext ==
    \/ \E r \in Requests : Arrive(r) \/ Advance(r)
    \/ ArchiveDocument
    \/ UpdateProject

CalmSpec == Init /\ [][CalmNext]_vars
=============================================================================
