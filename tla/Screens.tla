------------------------------ MODULE Screens -------------------------------
(***************************************************************************)
(* The pages of the frontend.  They share no state but the server's, of    *)
(* which each module has what its page shows: `part` is the page that is   *)
(* open, and the others stay at one of their initial states.               *)
(***************************************************************************)
EXTENDS Naturals, Sequences

CONSTANTS
    None,
    Docs, Source, Clients, Placeholder, FormMoves,
    Sections, Notes, Slots, AgendaTexts, AgendaMoves,
    Text, NoText, Default, SettingsMoves,
    Users, Admins, PlatformAdmins, Typed, MaxStored, RouteMoves,
    Rows, ListKinds, Filters, Changes, ListMoves

VARIABLES
    part,
    formDocs, formPage, formForm, formAsked, formPast, formDisturbed,
    agendaServer, agendaKnown, agendaShown, agendaSidebar, agendaLoading, agendaFound,
    agendaDialog, agendaRequests, agendaMoves, agendaTangled,
    setSaved, setPage, setDraft, setRequests, setMoves, setApplied, setRowless,
    navWho, navPage, navPending, navTrail, navSwapped, navMoves,
    listDrops, listServer, listFilter, listShown, listReads, listAsked, listAnswered,
    listChanges, listFailed, listMoves

RoleOf(u) ==
    IF u \in PlatformAdmins THEN "PLATFORM_ADMIN" ELSE IF u \in Admins THEN "ADMIN" ELSE "USER"

Form == INSTANCE DocumentForm WITH
    MaxMoves <- FormMoves, docs <- formDocs, page <- formPage,
    form <- formForm, asked <- formAsked, past <- formPast, disturbed <- formDisturbed

Agenda == INSTANCE Calendar WITH
    Texts <- AgendaTexts, MaxMoves <- AgendaMoves, server <- agendaServer, known <- agendaKnown,
    shown <- agendaShown, sidebar <- agendaSidebar, loading <- agendaLoading,
    found <- agendaFound, dialog <- agendaDialog, requests <- agendaRequests, moves <- agendaMoves,
    tangled <- agendaTangled

Settings == INSTANCE CompanySettings WITH
    Blank <- NoText, MaxMoves <- SettingsMoves, saved <- setSaved, page <- setPage, draft <- setDraft,
    requests <- setRequests, moves <- setMoves, applied <- setApplied,
    rowless <- setRowless

Routes == INSTANCE Navigation WITH
    MaxMoves <- RouteMoves, who <- navWho, page <- navPage, pending <- navPending,
    trail <- navTrail, swapped <- navSwapped, moves <- navMoves

List == INSTANCE ReloadedList WITH
    Kinds <- ListKinds, MaxMoves <- ListMoves, drops <- listDrops, server <- listServer,
    filter <- listFilter, shown <- listShown, reads <- listReads, asked <- listAsked,
    answered <- listAnswered, changes <- listChanges, failed <- listFailed,
    moves <- listMoves

ASSUME FormAssumption ==
    /\ Docs \subseteq Nat /\ Source \in Docs /\ None \notin Docs \cup Clients \cup Form!Doc
    /\ None \notin [type : Form!Types, client : Clients, billed : BOOLEAN]
    /\ Placeholder \in Clients /\ Clients # {Placeholder}
    /\ FormMoves \in Nat

ASSUME AgendaAssumption ==
    /\ Sections \cap Notes = {} /\ AgendaTexts # {}
    /\ None \notin Agenda!Items \cup Agenda!Item \cup Agenda!Place \cup Agenda!Timetable
    /\ None \notin [item : Agenda!Items, draft : Agenda!Item, copy : Agenda!Item \cup {None}]
    /\ AgendaMoves \in Nat

ASSUME SettingsAssumption ==
    /\ None \notin {Text, NoText, Default} \cup 0..1 /\ Default # NoText
    /\ SettingsMoves \in Nat

ASSUME RoutesAssumption ==
    /\ Typed \subseteq Routes!Routes
    /\ None \notin Users \cup Routes!Pages /\ None \notin [to : Routes!Routes, replaces : BOOLEAN]
    /\ MaxStored \in Nat \ {0} /\ RouteMoves \in Nat

ASSUME ListAssumption ==
    /\ Changes \subseteq ListKinds \cup {None}
    /\ None \notin [Rows -> ListKinds \cup {None}]
    /\ ListMoves \in Nat

formVars == <<formDocs, formPage, formForm, formAsked, formPast, formDisturbed>>
agendaVars == <<agendaServer, agendaKnown, agendaShown, agendaSidebar, agendaLoading,
    agendaFound, agendaDialog, agendaRequests, agendaMoves, agendaTangled>>
settingsVars == <<setSaved, setPage, setDraft, setRequests, setMoves, setApplied,
    setRowless>>
routesVars == <<navWho, navPage, navPending, navTrail, navSwapped, navMoves>>
listVars == <<listDrops, listServer, listFilter, listShown, listReads, listAsked,
    listAnswered, listChanges, listFailed, listMoves>>
screensVars == <<part, formVars, agendaVars, settingsVars, routesVars, listVars>>

Parts == {"form", "agenda", "settings", "routes", "list"}

ScreensInit ==
    /\ part \in Parts
    /\ Form!Init
    /\ Agenda!Init
    /\ Settings!Init
    /\ Routes!Init
    /\ List!Init

\* A step of one component leaves the others as they are.
Rest ==
    /\ UNCHANGED part
    /\ IF part = "form" THEN TRUE ELSE UNCHANGED formVars
    /\ IF part = "agenda" THEN TRUE ELSE UNCHANGED agendaVars
    /\ IF part = "settings" THEN TRUE ELSE UNCHANGED settingsVars
    /\ IF part = "routes" THEN TRUE ELSE UNCHANGED routesVars
    /\ IF part = "list" THEN TRUE ELSE UNCHANGED listVars

FormChangeParams(route) == part = "form" /\ Form!ChangeParams(route) /\ Rest
FormLoadFails == part = "form" /\ Form!LoadFails /\ Rest
FormLeave == part = "form" /\ Form!Leave /\ Rest
FormBranch == part = "form" /\ Form!Branch /\ Rest
FormReceive(q) == part = "form" /\ Form!Receive(q) /\ Rest
FormReadFails(q) == part = "form" /\ Form!ReadFails(q) /\ Rest
FormPickClient(c) == part = "form" /\ Form!PickClient(c) /\ Rest
FormSwitchRecipient == part = "form" /\ Form!SwitchRecipient /\ Rest
FormEditSections == part = "form" /\ Form!EditSections /\ Rest
FormRemoveImported == part = "form" /\ Form!RemoveImported /\ Rest
FormSubmit == part = "form" /\ Form!Submit /\ Rest
FormSaving == part = "form" /\ Form!Saving /\ Rest

AgendaLoadFinds(what) == part = "agenda" /\ Agenda!LoadFinds(what) /\ Rest
AgendaLoadAnswers(what) == part = "agenda" /\ Agenda!LoadAnswers(what) /\ Rest
AgendaEvent(i) == part = "agenda" /\ Agenda!Event(i) /\ Rest
AgendaDialog == part = "agenda" /\ Agenda!Dialog /\ Rest
AgendaWriting == part = "agenda" /\ Agenda!Writing /\ Rest

SettingsScreen(p) == part = "settings" /\ Settings!Screen(p) /\ Rest
SettingsWrite(kind) == part = "settings" /\ Settings!Write(kind) /\ Rest
SettingsFails(kind) == part = "settings" /\ Settings!Fails(kind) /\ Rest

SettingsSaveDraft(v) == part = "settings" /\ Settings!SaveDraft(v) /\ Rest
SettingsReadRow == part = "settings" /\ Settings!ReadRow /\ Rest

RoutesFollow == part = "routes" /\ Routes!Follow /\ Rest
RoutesClick(p) == part = "routes" /\ Routes!Click(p) /\ Rest
RoutesClickSignedOut(p) == part = "routes" /\ Routes!ClickSignedOut(p) /\ Rest
RoutesFollowLink(p) == part = "routes" /\ Routes!FollowLink(p) /\ Rest
RoutesType(p, u) == part = "routes" /\ Routes!Type(p, u) /\ Rest
RoutesLogIn(u) == part = "routes" /\ Routes!LogIn(u) /\ Rest
RoutesRegister == part = "routes" /\ Routes!Register /\ Rest
RoutesDocumentCreated == part = "routes" /\ Routes!DocumentCreated /\ Rest
RoutesSessionEnds == part = "routes" /\ Routes!SessionEnds /\ Rest
RoutesImpersonateCompany == part = "routes" /\ Routes!ImpersonateCompany /\ Rest
RoutesReturnToPlatformView == part = "routes" /\ Routes!ReturnToPlatformView /\ Rest

ListChoose(f) == part = "list" /\ List!Choose(f) /\ Rest
ListFinds(k) == part = "list" /\ List!Finds(k) /\ Rest
ListAnswers(k) == part = "list" /\ List!Answers(k) /\ Rest
ListReadFails(k) == part = "list" /\ List!ReadFails(k) /\ Rest
ListChange(x, y) == part = "list" /\ List!Change(x, y) /\ Rest
ListChanged(x, y) == part = "list" /\ List!Changed(x, y) /\ Rest
ListChangeFails(x, y) == part = "list" /\ List!ChangeFails(x, y) /\ Rest

ScreensNext ==
    \/ \E route \in Form!Routes : FormChangeParams(route)
    \/ FormLoadFails \/ FormLeave \/ FormBranch \/ FormSwitchRecipient
       \/ FormEditSections \/ FormRemoveImported \/ FormSubmit \/ FormSaving
    \/ \E q \in Form!Reads : FormReceive(q) \/ FormReadFails(q)
    \/ \E c \in Clients : FormPickClient(c)
    \/ \E what \in Agenda!Loads : AgendaLoadFinds(what) \/ AgendaLoadAnswers(what)
    \/ \E i \in Agenda!Items : AgendaEvent(i)
    \/ AgendaDialog \/ AgendaWriting
    \/ \E p \in Settings!Pages : SettingsScreen(p)
    \/ \E v \in Settings!Texts : SettingsSaveDraft(v)
    \/ SettingsReadRow
    \/ \E kind \in Settings!Kinds : SettingsWrite(kind) \/ SettingsFails(kind)
    \/ RoutesFollow \/ RoutesRegister \/ RoutesDocumentCreated \/ RoutesSessionEnds
       \/ RoutesImpersonateCompany \/ RoutesReturnToPlatformView
    \/ \E p \in Routes!Routes :
          RoutesClick(p) \/ RoutesClickSignedOut(p) \/ RoutesFollowLink(p)
    \/ \E p \in Typed, u \in Users \cup {None} : RoutesType(p, u)
    \/ \E u \in Users : RoutesLogIn(u)
    \/ \E f \in Filters : ListChoose(f)
    \/ \E k \in List!Numbers : ListFinds(k) \/ ListAnswers(k) \/ ListReadFails(k)
    \/ \E x \in Rows, y \in Changes :
          ListChange(x, y) \/ ListChanged(x, y) \/ ListChangeFails(x, y)

ScreensFairness == WF_formVars(FormSaving) /\ WF_routesVars(RoutesFollow)

ScreensSpec == ScreensInit /\ [][ScreensNext]_screensVars /\ ScreensFairness
-----------------------------------------------------------------------------
(* What the components guarantee.  Each part is explained where it is defined. *)

\* However often its save is retried, after a refusal of either of its requests,
\* one draft makes one document.
OneDocumentPerDraft == part = "form" => Form!OneDocumentPerDraft

\* With every answer in, a draft has the addresses of its client, the terms of its
\* type and the imported work of its chantier, and an invoice with the work of a
\* chantier bills it: as long as no answer came after the draft had moved on to
\* another client, type, chantier or document, or was saved.
DraftsHoldTogether ==
    part = "form" => Form!TypeOK /\ Form!DraftIsItsOwn /\ Form!ImportedWorkIsBilled

\* A save of the form leaves on the server what the page shows, header and
\* content.
SavesAreWhole == Form!SavesWhatItShows

\* Whatever was dropped, dragged, edited or refused, an event stands where it is
\* saved, and a section waits in the sidebar or stands on the calendar, one of
\* the two: when no write of it and no load of the page is on its way, and none met
\* another one on it.
CalendarIsTrue ==
    part = "agenda" =>
        Agenda!TypeOK /\ Agenda!ShowsTheSchedule /\ Agenda!SomewhereOnThePage

\* A page of the settings that says so has saved each of its parts, and a
\* discount for early payment has a number of days.
SettingsAreSaved ==
    part = "settings" =>
        Settings!TypeOK /\ Settings!SuccessMeansSaved /\ Settings!DiscountHasDays

\* Saving a page of the settings, or a text block from a document, changes no
\* field nobody touched whose value the page knew; but for the first text block
\* ever saved of a type, which clears the other text shown until then.
UntouchedFieldsStay == Settings!UntouchedFieldsStay

\* However the user came to it, a page is shown to whom it is for; what a menu
\* offers is not refused, and the link home, which a USER is refused, brings him to
\* a page that is not; the trail ends with the page shown and is its user's own.
NavigationIsGuarded ==
    part = "routes" => /\ Routes!TypeOK
                       /\ Routes!AdmittedHere /\ Routes!MenuLeadsThere
                       /\ Routes!TrailLeadsHere /\ Routes!TrailIsOwn

\* A save of the form comes to an end, and the redirects and the guards, each of
\* which may send on to another page, send nobody round in circles.
SavesAndNavigationEnd ==
    /\ Form!EverySaveEnds
    /\ part = "routes" => Routes!NavigationEnds

\* A list shows what its filter asks for: the one that drops the read a new filter
\* overtakes, and those whose rows are changed while they are read.
ShowsWhatIsAsked == part = "list" => List!TypeOK /\ List!ShowsWhatIsAsked
=============================================================================
