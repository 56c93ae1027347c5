--------------------------- MODULE DocumentRules ---------------------------
(* What a document's type and status allow, as the endpoints agree on it. *)

Types == {"QUOTE", "INVOICE", "PROJECT"}
Statuses == {"DRAFT", "SENT", "ACCEPTED", "REJECTED", "PAID", "CANCELLED"}

\* A PROJECT document's own status is NULL: its lifecycle is projects.status.
FirstStatus(type) == IF type = "PROJECT" THEN "NULL" ELSE "DRAFT"

\* What a status may be set to straight from the list (SETTABLE_STATUSES).
Settable(type, status) ==
    CASE type = "QUOTE"   /\ status = "DRAFT" -> {"SENT", "REJECTED"}
      [] type = "QUOTE"   /\ status = "SENT"  -> {"DRAFT", "REJECTED"}
      [] type = "INVOICE" /\ status = "DRAFT" -> {"SENT", "PAID", "CANCELLED"}
      [] type = "INVOICE" /\ status = "SENT"  -> {"PAID", "CANCELLED"}
      [] OTHER -> {}

\* Whether a header, its sections and lines may still change: a quote until
\* it is answered, an invoice while it is a draft.
OpenForEditing(type, status) ==
    status = "DRAFT" \/ (type = "QUOTE" /\ status = "SENT")
=============================================================================
