---------------------------- MODULE DocumentForm ----------------------------
(***************************************************************************)
(* The document form (documents/new, documents/:id): a draft the page      *)
(* fills from several requests whose answers come in any order, and a save *)
(* of two requests, the header and then the content.                       *)
(*                                                                         *)
(* One chantier can be invoiced.  A draft has sections of its `own`, typed *)
(* or taken over from another document, and the ones imported from the     *)
(* chantier, if it holds them, `works`.  An answer may be lost   *)
(* on its way back after the server has done the work.                     *)
(***************************************************************************)
EXTENDS Naturals, FiniteSets

CONSTANTS
    Docs,          \* document ids, in the order they are given out
    Source,        \* the document that may exist from the start
    Clients,       \* the company's clients
    Placeholder,   \* the "Non défini" client among them
    None,
    MaxMoves       \* bound: what users do during the visit

VARIABLES
    docs,    \* the server's quotes and invoices
    page,    \* the route, and whether the user has left it
    form,    \* the draft
    asked,   \* the reads on their way
    past,    \* what users have done; for the properties: what was created, ...
    disturbed \* ... and whether an answer came too late, or for another draft

vars == <<docs, page, form, asked, past, disturbed>>

Types == {"QUOTE", "INVOICE"}
ChantierClient == CHOOSE c \in Clients : c # Placeholder

Doc == [type : Types, billed : BOOLEAN, client : Clients,
        own : BOOLEAN, works : BOOLEAN, status : {"open", "closed", "cancelled"}]
\* The status that ends a quote, an invoice; a paid invoice counts as a sent one.
Closed == [QUOTE |-> "closed", INVOICE |-> "cancelled"]
Other(type) == IF type = "QUOTE" THEN "INVOICE" ELSE "QUOTE"
IsOpen(d) == docs[d] # None /\ docs[d].status = "open"
Content(x) == [own |-> x.own, works |-> x.works]
NoContent == [own |-> FALSE, works |-> FALSE]

\* documents/new?type=..., &duplicateFrom=..., &fromProject=..., documents/:id
New(type, from) == [doc |-> None, type |-> type, from |-> from, project |-> FALSE]
FromProject == [New("INVOICE", None) EXCEPT !.project = TRUE]
Edit(d) == [New("QUOTE", None) EXCEPT !.doc = d]
Routes == {FromProject} \cup {Edit(d) : d \in Docs}
            \cup {New(t, f) : t \in Types, f \in Docs \cup {None}}
Exists(route) ==
    /\ route.doc # None => docs[route.doc] # None
    /\ route.from # None => docs[route.from] # None /\ docs[route.from].type = route.type

Blank == [type |-> "QUOTE", editing |-> None, client |-> None, offered |-> None,
          linked |-> FALSE, own |-> FALSE, works |-> FALSE,
          terms |-> None, locked |-> FALSE, step |-> "edit", sent |-> NoContent,
          header |-> None, target |-> None, saved |-> FALSE]
Fresh == [moves |-> 0, created |-> {}, lost |-> FALSE, touched |-> FALSE]

Steps == {"edit", "header", "content", "create", "newContent"}

Ask(what, arg) == [what |-> what, arg |-> arg]
Reads == {Ask("chantier", None), Ask("work", None)}
    \cup {Ask(w, d) : w \in {"edit", "copy"}, d \in Docs}
    \cup {Ask("client", c) : c \in Clients} \cup {Ask("template", t) : t \in Types}

TypeOK ==
    /\ docs \in [Docs -> Doc \cup {None}]
    /\ form.editing \in Docs \cup {None} /\ form.step \in Steps
    /\ form.client \in Clients \cup {None} /\ form.offered \in Clients \cup {None}
    /\ page.load \in {"loading", "ready", "failed"}
    /\ asked \subseteq Reads /\ past.moves <= MaxMoves

At(step) == form.step = step
OnPage == ~page.left
Editable == OnPage /\ ~form.locked

\* One visit of the page; what earlier ones have left on the server is where
\* it starts from: nothing, a quote, or an invoice of the chantier.
FirstDocs == {None} \cup
    {x \in Doc : x.own /\ ~x.works /\ x.client = ChantierClient
                  /\ (x.type = "INVOICE") = x.billed /\ x.status # Closed[Other(x.type)]}

Init ==
    /\ docs \in {[d \in Docs |-> IF d = Source THEN x ELSE None] : x \in FirstDocs}
    /\ page \in [route : Routes, load : {"loading"}, left : {FALSE}]
    /\ Exists(page.route)
    /\ form = Blank
    /\ asked = {}
    /\ past = Fresh
    /\ disturbed = FALSE

-----------------------------------------------------------------------------
(* What the page asks the server. *)

Asking(requests) == asked' = asked \cup requests

\* A user's move.
Moving(touched) ==
    /\ past.moves < MaxMoves
    /\ past' = [past EXCEPT !.moves = @ + 1, !.touched = touched]

\* onProjectChange: what was imported goes with the link.
Linked(f, yes) == [f EXCEPT !.linked = yes, !.works = FALSE]

\* A slip: the link goes and what was imported stays.
WithClientForgetting(f, c, keepProject) ==
    [f EXCEPT !.client = c, !.linked = @ /\ keepProject,
              !.offered = IF c = None THEN None ELSE @]

\* onClientChange
WithClient(f, c, keepProject) ==
    LET g == IF keepProject THEN f ELSE Linked(f, FALSE)
    IN [g EXCEPT !.client = c, !.offered = IF c = None THEN None ELSE @]

ClientAsks(c) == IF c = None THEN {} ELSE {Ask("client", c)}

-----------------------------------------------------------------------------
(* Opening the page: ngOnInit, then the branch on the route. *)

\* The company, the clients, the projects: the route is looked at last.
LoadFails ==
    /\ OnPage /\ page.load = "loading"
    /\ page' = [page EXCEPT !.load = "failed"]
    /\ UNCHANGED <<docs, form, asked, past, disturbed>>

RouteAsks(route) ==
    CASE route.doc # None        -> {Ask("edit", route.doc)}
      [] route.from # None       -> {Ask("copy", route.from)}
      [] route.project           -> {Ask("template", route.type), Ask("chantier", None)}
      [] OTHER                   -> {Ask("template", route.type)}

Branch ==
    /\ OnPage /\ page.load = "loading"
    /\ page' = [page EXCEPT !.load = "ready"]
    /\ form' = IF page.route.doc # None THEN [form EXCEPT !.editing = page.route.doc]
               ELSE [form EXCEPT !.type = page.route.type]
    /\ Asking(RouteAsks(page.route))
    /\ UNCHANGED <<docs, past, disturbed>>

\* documents/new again with other parameters: the same page, the same draft.
ChangeParams(route) ==
    /\ OnPage /\ page.load = "ready" /\ page.route.doc = None
    /\ route.doc = None /\ route # page.route /\ Exists(route)
    /\ page' = [page EXCEPT !.route = route]
    /\ form' = [form EXCEPT !.type = route.type]
    /\ Asking(RouteAsks(route))
    /\ Moving(TRUE)
    /\ disturbed' = (disturbed \/ form.editing # None)
    /\ UNCHANGED docs

\* The page goes with its draft and its reads, but for the save under way.
Gone == asked' = {} /\ form' = Blank
Leave ==
    /\ OnPage
    /\ page' = [page EXCEPT !.left = TRUE]
    /\ IF At("edit") THEN Gone ELSE UNCHANGED <<form, asked>>
    /\ UNCHANGED <<docs, past, disturbed>>

-----------------------------------------------------------------------------
(* The answers. *)

SavedOnce == ~At("edit") \/ form.editing # None

\* An answer about something the draft has moved on from since it was asked.
Overtaken(q) ==
    CASE q.what = "client"   -> q.arg # form.client
      [] q.what = "template" -> q.arg # form.type
      [] q.what = "edit"     -> FALSE
      [] q.what = "copy"     -> q.arg # page.route.from
      [] q.what = "chantier" -> ~page.route.project \/ SavedOnce
      [] q.what = "work"     -> ~form.linked \/ form.works \/ SavedOnce

\* buildDraftSections: these sections are the draft's own now, as is the text.
Taken(f, x) == [f EXCEPT !.own = x.own \/ x.works, !.terms = x.type]

Filled(f, x) ==
    Taken(Linked(WithClient(f, x.client, FALSE), x.billed /\ f.type = "INVOICE"), x)

Loaded(f, x) ==
    [Filled([f EXCEPT !.type = x.type], x) EXCEPT !.locked = x.status # "open"]

Answered(q) ==
    CASE q.what = "client"   -> [form EXCEPT !.offered = q.arg]
      [] q.what = "template" -> [form EXCEPT !.terms = q.arg]
      [] q.what = "edit"     -> Loaded(form, docs[q.arg])
      [] q.what = "copy"     -> Filled(form, docs[q.arg])
      [] q.what = "chantier" -> Linked(WithClient(form, ChantierClient, FALSE), TRUE)
      [] q.what = "work"     -> [form EXCEPT !.works = TRUE]

\* applyFromProject goes on to loadProjectResources, each client to its addresses.
FollowUps(q) ==
    CASE q.what \in {"edit", "copy"} -> ClientAsks(docs[q.arg].client)
      [] q.what = "chantier" -> ClientAsks(ChantierClient) \cup {Ask("work", None)}
      [] OTHER               -> {}

Arrives(q) == q \in asked

Receive(q) ==
    /\ Arrives(q)
    /\ form' = Answered(q)
    /\ asked' = (asked \ {q}) \cup FollowUps(q)
    /\ past' = [past EXCEPT !.touched = TRUE]
    /\ disturbed' = (disturbed \/ Overtaken(q))
    /\ UNCHANGED <<docs, page>>

\* A client's addresses that cannot be read empty; another read that fails is as
\* one that never arrives.
ReadFails(q) ==
    /\ Arrives(q) /\ q.what = "client"
    /\ form' = [form EXCEPT !.offered = None]
    /\ asked' = asked \ {q}
    /\ UNCHANGED <<docs, page, past, disturbed>>

-----------------------------------------------------------------------------
(* The user. *)

EditDraft(f, requests) ==
    /\ Editable
    /\ form' = f
    /\ Asking(requests)
    /\ Moving(TRUE)
    /\ UNCHANGED <<docs, page, disturbed>>

\* Picked, just added in the dialog, or recognised in a scanned document.
PickClient(c) == EditDraft(WithClient(form, c, FALSE), ClientAsks(c))

\* "Saisie manuelle", on and off: the chantier stays linked.
SwitchRecipient ==
    LET c == IF form.client = Placeholder THEN None ELSE Placeholder
    IN EditDraft(WithClient(form, c, TRUE), ClientAsks(c))

EditSections == EditDraft([form EXCEPT !.own = ~@], {})
RemoveImported == form.works /\ EditDraft([form EXCEPT !.works = FALSE], {})

-----------------------------------------------------------------------------
(* submit() *)

Submit ==
    /\ Editable /\ At("edit") /\ form.client # None
    /\ form' = [form EXCEPT !.saved = FALSE,
          !.target = form.editing, !.step = IF form.editing # None THEN "header" ELSE "create",
          !.header = [type |-> form.type, client |-> form.client,
                      billed |-> form.type = "INVOICE" /\ form.linked]]
    /\ Moving(FALSE)
    /\ UNCHANGED <<docs, page, asked, disturbed>>

StopSaving(f) == [f EXCEPT !.step = "edit", !.target = None, !.header = None, !.sent = NoContent]

\* The content is read off the draft when the header's answer is there.
SendContent(f, step) == [f EXCEPT !.step = step, !.sent = Content(f)]

WithHeader == [docs EXCEPT ![form.target].client = form.header.client]

SaveHeader ==
    /\ At("header") /\ IsOpen(form.target)
    /\ docs' = WithHeader
    /\ form' = SendContent(form, "content")
    /\ UNCHANGED <<page, asked, past, disturbed>>

ChantierBilled ==
    \E d \in Docs : docs[d] # None /\ docs[d].billed /\ docs[d].status # "cancelled"
NewDoc == [type |-> form.header.type, billed |-> form.header.billed, status |-> "open",
           client |-> form.header.client, own |-> FALSE, works |-> FALSE]

NextId == CHOOSE d \in Docs \cup {None} :
    IF \A x \in Docs : docs[x] # None THEN d = None
    ELSE d \in Docs /\ docs[d] = None /\ \A x \in Docs : docs[x] = None => d <= x

Insert(d) ==
    /\ At("create") /\ d = NextId
    /\ form.header.billed => ~ChantierBilled
    /\ docs' = [docs EXCEPT ![d] = NewDoc]

\* A slip: a save that failed after the creation starts over.
CreateForgetting(d) ==
    /\ Insert(d)
    /\ form' = SendContent([form EXCEPT !.target = d], "content")
    /\ past' = [past EXCEPT !.created = @ \cup {d}]
    /\ UNCHANGED <<page, asked, disturbed>>

\* The document exists from here on: a retry updates it.
Create(d) ==
    /\ Insert(d)
    /\ form' = SendContent([form EXCEPT !.editing = d, !.target = d], "newContent")
    /\ past' = [past EXCEPT !.created = @ \cup {d}]
    /\ UNCHANGED <<page, asked, disturbed>>

WithContent ==
    [docs EXCEPT ![form.target] =
        [@ EXCEPT !.own = form.sent.own, !.works = form.sent.works]]

\* A slip: "saved" as soon as the header is.
SaveHeaderOnly ==
    /\ At("content") /\ IsOpen(form.target)
    /\ form' = StopSaving([form EXCEPT !.saved = TRUE])
    /\ UNCHANGED <<docs, page, asked, past, disturbed>>

SaveContent ==
    /\ At("content") /\ IsOpen(form.target)
    /\ docs' = WithContent
    /\ form' = StopSaving([form EXCEPT !.saved = TRUE])
    /\ UNCHANGED <<page, asked, past, disturbed>>

\* The page that created the document gives way to documents/:id, even where
\* the user has gone elsewhere meanwhile.
SaveNewContent ==
    /\ At("newContent") /\ IsOpen(form.target)
    /\ docs' = WithContent
    /\ page' = [page EXCEPT !.route = Edit(form.target), !.left = TRUE]
    /\ form' = StopSaving(form)
    /\ UNCHANGED <<asked, past, disturbed>>

\* A request fails, is refused, or its answer is lost after it was carried out.
SaveFails ==
    /\ ~At("edit")
    /\ form' = StopSaving(form)
    /\ \/ UNCHANGED <<docs, past>>
       \/ /\ At("header") /\ IsOpen(form.target)
          /\ docs' = WithHeader /\ UNCHANGED past
       \/ /\ form.step \in {"content", "newContent"} /\ IsOpen(form.target)
          /\ docs' = WithContent /\ UNCHANGED past
       \/ \E d \in Docs :
             /\ Insert(d)
             /\ past' = [past EXCEPT !.created = @ \cup {d}, !.lost = TRUE]
    /\ UNCHANGED <<page, asked, disturbed>>

-----------------------------------------------------------------------------
Saving ==
    SaveHeader \/ (\E d \in Docs : Create(d)) \/ SaveContent \/ SaveNewContent \/ SaveFails

Next ==
    \/ \E route \in Routes : ChangeParams(route)
    \/ LoadFails \/ Leave \/ Branch
    \/ \E q \in Reads : Receive(q) \/ ReadFails(q)
    \/ \E c \in Clients : PickClient(c)
    \/ SwitchRecipient \/ EditSections \/ RemoveImported
    \/ Submit \/ Saving

\* A request that was sent is answered, or fails.
Spec == Init /\ [][Next]_vars /\ WF_vars(Saving)
-----------------------------------------------------------------------------
(* What the form guarantees. *)

\* One draft makes one document: a save that failed half-way is taken up again
\* as an update, unless the answer to the creation itself was lost.
OneDocumentPerDraft == Cardinality(past.created) <= 1 \/ past.lost

\* The two requests of a save leave on the server what the page shows, header and
\* content, when nothing was edited or received in between.
Shows(x, f) ==
    x.client = f.client /\ Content(x) = Content(f)
SavesWhatItShows ==
    [][~At("edit") /\ form'.step = "edit" /\ (form'.saved \/ page'.route # page.route) /\ ~past.touched
          => Shows(docs'[form.target], form)]_vars

\* With every answer in: the addresses offered are the client's, the terms the
\* type's, and what was imported is there once, from a chantier still linked.  Unless
\* an answer came that the draft had moved on from, to another client, type, chantier
\* or document, or that was saved already: nothing keeps those out.
DraftIsItsOwn ==
    asked = {} /\ ~disturbed =>
        /\ form.offered \in {None, form.client}
        /\ form.terms \in {None, form.type}
        /\ form.works => form.linked

\* A chantier's imported work is only ever found in an invoice that bills the
\* chantier: the one that keeps it from being invoiced twice.  With the same
\* exception.
ImportedWorkIsBilled ==
    \A d \in Docs : docs[d] # None /\ docs[d].type = "INVOICE" /\ docs[d].works
                        => docs[d].billed \/ disturbed

\* "A project picked for a previous client no longer makes sense - and neither does
\* whatever it had imported (onProjectChange(null) already clears both)": the work in
\* the draft is that of the chantier linked to it, whenever it came.
ImportGoesWithItsChantier == form.works => form.linked

\* A save comes to its end.
EverySaveEnds == ~At("edit") ~> At("edit")
=============================================================================
