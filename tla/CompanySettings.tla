--------------------------- MODULE CompanySettings ---------------------------
(***************************************************************************)
(* A company's profile and the texts its documents start from.  Two pages  *)
(* and the text block of a document write them: the profile page its whole *)
(* row, the payment terms it does not show included; the page of templates *)
(* one request per row; a text block one field of a row.  A page loads     *)
(* once and saves what it holds.                                           *)
(***************************************************************************)
EXTENDS Naturals, FiniteSets

CONSTANTS
    Text,        \* some text
    Blank,       \* '', which NULL is shown as
    Default,     \* what is shown where no row has been saved
    None,
    MaxMoves     \* bound: edits, submits and drafts

VARIABLES
    saved,       \* the fields of companies and document_templates
    page,        \* what each of the two pages holds
    draft,       \* the draft of a document's introduction, being saved
    requests,    \* the writes on their way; bound: of one page at a time
    moves,       \* what the users have done so far
    applied,     \* for the properties: writes of a page's submit that took place
    rowless      \* ... a text block saved the introduction where there was no row

vars == <<saved, page, draft, requests, moves, applied, rowless>>

Texts == {Text, Blank, Default}
Company == {"name", "discount", "days", "terms"}
Fields == Company \cup {"introduction", "conclusion", "reminder"}
ValuesOf(f) == IF f \in {"discount", "days"} THEN 0..1 ELSE Texts   \* 0 days are NULL
Values == [Fields -> Texts \cup 0..1 \cup {None}]

Pages == {"profile", "templates"}
Kinds == {"profile", "terms", "quote", "reminder", "block"}
Sends(s) == IF s = "profile" THEN {"profile"} ELSE {"terms", "quote", "reminder"}
Carries(kind) ==
    CASE kind = "profile"  -> Company
      [] kind = "terms"    -> {"terms"}
      [] kind = "quote"    -> {"introduction", "conclusion"}
      [] kind = "reminder" -> {"reminder"}
      [] kind = "block"    -> {"introduction", "conclusion"}
Holds(s) == UNION {Carries(kind) : kind \in Sends(s)}

TypeOK ==
    /\ saved \in Values
    /\ page \in [Pages -> [form : Values, base : Values, touched : SUBSET Fields,
                             loading : SUBSET {"company", "templates"}, pending : SUBSET Kinds,
                             result : {"none", "success", "error"}]]
    /\ draft \in Texts \cup {None}
    /\ \A kind \in Kinds : requests[kind] # None => requests[kind].touched \subseteq Carries(kind)
    /\ moves \in 0..MaxMoves /\ applied \subseteq Kinds /\ rowless \in BOOLEAN

Start == [f \in Fields |-> CASE f \in {"discount", "days"} -> 0
                             [] f \in {"name", "terms"}     -> Text
                             [] OTHER                       -> None]
\* What a form holds before, or without, an answer.
Empty == [f \in Fields |-> IF f \in {"discount", "days"} THEN 0 ELSE Blank]

Opened(s) ==
    [form |-> Empty, base |-> [f \in Fields |-> None], touched |-> {},
     loading |-> IF s = "profile" THEN {"company"} ELSE {"company", "templates"},
     pending |-> {}, result |-> "none"]

Init ==
    /\ saved = Start
    /\ page = [s \in Pages |-> Opened(s)] /\ draft = None
    /\ requests = [kind \in Kinds |-> None]
    /\ moves = 0 /\ applied = {} /\ rowless = FALSE

\* getTemplateServ: a default where there is no row, or no text for a reminder.
Read(values) ==
    [f \in Fields |->
       CASE f = "reminder" /\ values[f] \in {None, Blank}   -> Default
         [] f \in {"introduction", "conclusion"} /\ values.introduction = None -> Default
         [] OTHER -> values[f]]

Move == moves < MaxMoves /\ moves' = moves + 1
Job(kind, values, base, touched) ==
    [values |-> [f \in Carries(kind) |-> values[f]], base |-> [f \in Carries(kind) |-> base[f]],
     touched |-> touched \cap Carries(kind)]
-----------------------------------------------------------------------------
(* The pages. *)

\* The page is left, and opened anew.
Open(s) ==
    /\ page' = [page EXCEPT ![s] = Opened(s)]
    /\ UNCHANGED <<saved, draft, requests, moves, applied, rowless>>

Part(s, part) == Holds(s) \cap (IF part = "company" THEN Company ELSE Fields \ Company)

Filled(s, part, old) == [f \in Fields |-> IF f \in Part(s, part) THEN Read(saved)[f] ELSE old[f]]

\* patchValue, over what has been typed since.
Load(s, part) ==
    /\ part \in page[s].loading
    /\ page' = [page EXCEPT ![s] =
         [form |-> Filled(s, part, @.form), base |-> Filled(s, part, @.base),
          touched |-> @.touched \ Part(s, part), loading |-> @.loading \ {part},
          pending |-> @.pending, result |-> @.result]]
    /\ UNCHANGED <<saved, draft, requests, moves, applied, rowless>>

LoadFails(s, part) ==
    /\ part \in page[s].loading
    /\ page' = [page EXCEPT ![s].loading = @ \ {part}]
    /\ UNCHANGED <<saved, draft, requests, moves, applied, rowless>>

\* The form is hidden while the page loads: the page of templates does not wait
\* for the payment terms.
Shown(s) == (IF s = "profile" THEN "company" ELSE "templates") \notin page[s].loading

Type(s, f, v) ==
    /\ Shown(s) /\ Move /\ v \in ValuesOf(f) \ {page[s].form[f], Default}
    /\ f \in Holds(s) /\ <<s, f>> # <<"profile", "terms">>
    /\ LET p == page[s]
       IN page' = [page EXCEPT ![s] =
            [p EXCEPT !.form = [p.form EXCEPT ![f] = v], !.touched = p.touched \cup {f}]]
    /\ UNCHANGED <<saved, draft, requests, applied, rowless>>

\* earlyPaymentDaysRequired, and a name.
Valid(s) ==
    s = "profile" => page[s].form.name # Blank /\ (page[s].form.discount > 0 => page[s].form.days > 0)

\* A slip: the row goes without the field that is not on the form.
FormOnly(s) == IF s = "profile" THEN [page[s].form EXCEPT !.terms = Blank] ELSE page[s].form
Whole(s) == page[s].form

Submit(s) ==
    /\ Shown(s) /\ Valid(s) /\ Move /\ \A kind \in Kinds \ {"block"} : requests[kind] = None
    /\ requests' = [kind \in Kinds |->
         IF kind \in Sends(s) THEN Job(kind, Whole(s), page[s].base, page[s].touched) ELSE requests[kind]]
    /\ page' = [page EXCEPT ![s].pending = Sends(s), ![s].result = "none"]
    /\ applied' = applied \ Sends(s)
    /\ UNCHANGED <<saved, draft, rowless>>

-----------------------------------------------------------------------------
(* A document's text block makes its text the default. *)

SaveDraft(v) ==
    /\ draft = None /\ requests["block"] = None /\ Move
    /\ draft' = v
    /\ UNCHANGED <<saved, page, requests, applied, rowless>>

\* What is left out keeps the value it has been read to have; without a row, none.
Keeps(v) == [saved EXCEPT !.introduction = v, !.conclusion = IF saved.introduction = None THEN Blank ELSE @]

\* upsertTemplateServ: the row is read, then written whole.
ReadRow ==
    /\ draft # None /\ requests["block"] = None
    /\ requests' = [requests EXCEPT !["block"] =
         Job("block", Keeps(draft), Read(saved), {"introduction"})]
    /\ rowless' = (rowless \/ saved.introduction = None)
    /\ UNCHANGED <<saved, page, draft, moves, applied>>

-----------------------------------------------------------------------------
(* The server writes; a page waits for all it sent, or the first failure. *)

\* normalizeCompanyData
Normalized(values) ==
    IF "discount" \in DOMAIN values /\ values.discount = 0 THEN [values EXCEPT !.days = 0] ELSE values

Answered(kind, well) ==
    [s \in Pages |->
       IF kind \notin page[s].pending THEN page[s]
       ELSE IF ~well THEN [page[s] EXCEPT !.pending = {}, !.result = "error"]
       ELSE [page[s] EXCEPT !.pending = @ \ {kind}, !.result = IF page[s].pending = {kind} THEN "success" ELSE @]]

Write(kind) ==
    /\ requests[kind] # None
    /\ saved' = [f \in Fields |-> IF f \in Carries(kind) THEN Normalized(requests[kind].values)[f] ELSE saved[f]]
    /\ requests' = [requests EXCEPT ![kind] = None]
    /\ page' = Answered(kind, TRUE)
    /\ draft' = IF kind = "block" THEN None ELSE draft
    /\ applied' = applied \cup {kind}
    /\ UNCHANGED <<moves, rowless>>

\* A slip: a part that fails is passed over.
PassesOver(kind) == Answered(kind, TRUE)
Failed(kind) == Answered(kind, FALSE)

Fails(kind) ==
    /\ requests[kind] # None
    /\ requests' = [requests EXCEPT ![kind] = None]
    /\ page' = Failed(kind)
    /\ draft' = IF kind = "block" THEN None ELSE draft
    /\ UNCHANGED <<saved, moves, applied, rowless>>

-----------------------------------------------------------------------------
Screen(s) ==
    \/ Open(s) \/ Submit(s)
    \/ \E part \in {"company", "templates"} : Load(s, part) \/ LoadFails(s, part)
    \/ \E f \in Fields, v \in Texts \cup 0..1 : Type(s, f, v)

Next ==
    \/ \E s \in Pages : Screen(s)
    \/ (\E v \in Texts : SaveDraft(v)) \/ ReadRow
    \/ \E kind \in Kinds : Write(kind) \/ Fails(kind)

Spec == Init /\ [][Next]_vars
-----------------------------------------------------------------------------
(* What the settings guarantee. *)

\* A write changes a field nobody touched only if the page did not know its value:
\* another write had changed it since the page loaded it, or it was not loaded; or
\* if a text block made the first row of a type.
UntouchedFieldsStay ==
    [][\A kind \in Kinds, f \in Fields :
         requests[kind] # None /\ f \notin requests[kind].touched /\ Read(saved')[f] # Read(saved)[f]
           /\ requests'[kind] = None /\ f \in Carries(kind)
             => \/ Read(saved)[f] # requests[kind].base[f]
                \/ rowless
                \/ f = "days" /\ "discount" \in requests[kind].touched]_vars

\* A discount has a number of days to pay within, and no discount has none.
DiscountHasDays == saved.discount > 0 <=> saved.days > 0

\* A page that says it has saved has saved every part.
SuccessMeansSaved ==
    \A s \in Pages : page[s].result = "success" => Sends(s) \subseteq applied
=============================================================================
