---------------------------- MODULE MCDocuments -----------------------------
(***************************************************************************)
(* A document's content, one request at a time, and the parts that stand   *)
(* beside it: the list of documents, the lists that are edited in place,   *)
(* the page of a chantier, the printed letter, the files, the catalog and  *)
(* the clients.  `part` is the one explored, each on a small instance;     *)
(* they share no state, and the others wait at one of their initial        *)
(* states.  Four of the modules are there twice, for two of their tables.  *)
(***************************************************************************)
EXTENDS MCDocumentContent

VARIABLES
    part,
    listServer, listList, listShown, listCell, listStatusBeforeEdit, listPendingAccept,
    listRequests, listEdits, listMuddled,
    rowServer, rowShown, rowClones, rowEditing, rowSaves, rowView, rowSets, rowAsked,
    rowEdits, rowStrayed,
    datedServer, datedShown, datedClones, datedEditing, datedSaves, datedView, datedSets,
    datedAsked, datedEdits, datedStrayed,
    siteStored, siteDraft, sitePage, siteSent, siteFresh, siteTouched, siteMoves,
    fileRows, fileArchived, fileLogo, fileObjects, fileStage, fileReset, fileBeside,
    fileOrphaned,
    logoRows, logoArchived, logoLogo, logoObjects, logoStage, logoReset, logoBeside,
    logoOrphaned,
    codeResources, codeUnits, codeTypes, codeTypeOf, codeJobs, codeOutcome, codeCrossed,
    unitResources, unitUnits, unitTypes, unitTypeOf, unitJobs, unitOutcome, unitCrossed,
    addrClients, addrAddresses, addrUsed, addrJobs, addrOutcome, addrCrossed, addrBare,
    mailClients, mailAddresses, mailUsed, mailJobs, mailOutcome, mailCrossed, mailBare,
    pdfKind, pdfHeader, pdfAt, pdfCursor, pdfMark, pdfOnSlip, pdfFresh, pdfSplit

TypeOfDocument(d) == IF d = 3 THEN "INVOICE" ELSE "QUOTE"
SizeOfFile(f) == 2
LowerCase(label) == IF label = "H" THEN "h" ELSE label

List == INSTANCE DocumentList WITH
    Documents <- <<1, 2, 3>>, TypeOf <- TypeOfDocument, MaxEdits <- 2, None <- Nobody,
    server <- listServer, list <- listList, shown <- listShown, cell <- listCell,
    statusBeforeEdit <- listStatusBeforeEdit, pendingAccept <- listPendingAccept,
    requests <- listRequests, edits <- listEdits, muddled <- listMuddled

Table == INSTANCE EditableList WITH
    Rows <- {1}, Blank <- "", Names <- {"name"}, Dated <- FALSE, MaxEdits <- 2,
    MaxLoads <- 2, None <- Nobody, server <- rowServer, shown <- rowShown,
    clones <- rowClones, editing <- rowEditing, saves <- rowSaves, view <- rowView,
    sets <- rowSets, asked <- rowAsked, edits <- rowEdits, strayed <- rowStrayed

Sites == INSTANCE EditableList WITH
    Rows <- {1}, Blank <- "", Names <- {"name"}, Dated <- TRUE, MaxEdits <- 1,
    MaxLoads <- 2, None <- Nobody, server <- datedServer, shown <- datedShown,
    clones <- datedClones, editing <- datedEditing, saves <- datedSaves,
    view <- datedView, sets <- datedSets, asked <- datedAsked, edits <- datedEdits,
    strayed <- datedStrayed

Chantier == INSTANCE ChantierPage WITH
    Sections <- 1..2, Resources <- {1}, MaxMoves <- 2, None <- Nobody,
    stored <- siteStored, draft <- siteDraft, page <- sitePage, sent <- siteSent,
    fresh <- siteFresh, touched <- siteTouched, moves <- siteMoves

Storage == INSTANCE FileStorage WITH
    Files <- 1..2, SizeOf <- SizeOfFile, Quota <- 3, Extensions <- {}, None <- 0,
    rows <- fileRows, archived <- fileArchived, logo <- fileLogo,
    objects <- fileObjects, stage <- fileStage, reset <- fileReset,
    beside <- fileBeside, orphaned <- fileOrphaned

Logos == INSTANCE FileStorage WITH
    Files <- {}, SizeOf <- SizeOfFile, Quota <- 3, Extensions <- 1..2, None <- 0,
    rows <- logoRows, archived <- logoArchived, logo <- logoLogo,
    objects <- logoObjects, stage <- logoStage, reset <- logoReset,
    beside <- logoBeside, orphaned <- logoOrphaned

CodeTable == INSTANCE Catalog WITH
    Requests <- 1..2, Resources <- 1..2, Codes <- {"c", "d"}, Labels <- {}, Types <- {},
    Projects <- {}, Lower <- LowerCase, None <- Nobody, resources <- codeResources,
    units <- codeUnits, types <- codeTypes, typeOf <- codeTypeOf, jobs <- codeJobs,
    outcome <- codeOutcome, crossed <- codeCrossed

UnitTable == INSTANCE Catalog WITH
    Requests <- 1..2, Resources <- {}, Codes <- {"c", "d"}, Labels <- {"h", "H"},
    Types <- {1}, Projects <- {1}, Lower <- LowerCase, None <- Nobody,
    resources <- unitResources, units <- unitUnits, types <- unitTypes,
    typeOf <- unitTypeOf, jobs <- unitJobs, outcome <- unitOutcome,
    crossed <- unitCrossed

AddressBook == INSTANCE ClientDirectory WITH
    Requests <- 1..2, Clients <- 0..1, Placeholder <- 0, Emails <- {},
    Addresses <- 1..2, None <- Nobody, clients <- addrClients,
    addresses <- addrAddresses, used <- addrUsed, jobs <- addrJobs,
    outcome <- addrOutcome, crossed <- addrCrossed, bare <- addrBare

EmailBook == INSTANCE ClientDirectory WITH
    Requests <- 1..2, Clients <- 0..2, Placeholder <- 0, Emails <- {"e", "f"},
    Addresses <- {}, None <- Nobody, clients <- mailClients, addresses <- mailAddresses,
    used <- mailUsed, jobs <- mailJobs, outcome <- mailOutcome, crossed <- mailCrossed,
    bare <- mailBare

Letter == INSTANCE PdfLetter WITH
    Kinds <- {"quote", "invoice", "reminder"}, MaxAddress <- 5, MaxConditions <- 3,
    kind <- pdfKind, header <- pdfHeader, at <- pdfAt, cursor <- pdfCursor,
    mark <- pdfMark, onSlip <- pdfOnSlip, fresh <- pdfFresh, split <- pdfSplit

listVars == <<listServer, listList, listShown, listCell, listStatusBeforeEdit,
    listPendingAccept, listRequests, listEdits, listMuddled>>
tableVars == <<rowServer, rowShown, rowClones, rowEditing, rowSaves, rowView, rowSets,
    rowAsked, rowEdits, rowStrayed>>
datedVars == <<datedServer, datedShown, datedClones, datedEditing, datedSaves, datedView,
    datedSets, datedAsked, datedEdits, datedStrayed>>
chantierVars == <<siteStored, siteDraft, sitePage, siteSent, siteFresh, siteTouched,
    siteMoves>>
filesVars == <<fileRows, fileArchived, fileLogo, fileObjects, fileStage, fileReset,
    fileBeside, fileOrphaned>>
logosVars == <<logoRows, logoArchived, logoLogo, logoObjects, logoStage, logoReset,
    logoBeside, logoOrphaned>>
codesVars == <<codeResources, codeUnits, codeTypes, codeTypeOf, codeJobs, codeOutcome,
    codeCrossed>>
unitsVars == <<unitResources, unitUnits, unitTypes, unitTypeOf, unitJobs, unitOutcome,
    unitCrossed>>
sitesVars == <<addrClients, addrAddresses, addrUsed, addrJobs, addrOutcome, addrCrossed,
    addrBare>>
emailsVars == <<mailClients, mailAddresses, mailUsed, mailJobs, mailOutcome,
    mailCrossed, mailBare>>
letterVars == <<pdfKind, pdfHeader, pdfAt, pdfCursor, pdfMark, pdfOnSlip, pdfFresh,
    pdfSplit>>
documentsVars == <<part, vars, listVars, tableVars, datedVars, chantierVars, filesVars,
    logosVars, codesVars, unitsVars, sitesVars, emailsVars, letterVars>>

Parts == {"content", "list", "table", "dated", "chantier", "files", "logos", "codes", "units",
    "sites", "emails", "letter"}

DocumentsInit ==
    /\ part \in Parts
    /\ Init /\ (part = "content" \/ header.type = "QUOTE")
    /\ List!Init
    /\ part = "list" \/ (listServer[1] = "DRAFT" /\ listList.type = "QUOTE")
    /\ Table!Init
    /\ part = "table" \/ rowServer[1].active
    /\ Sites!Init
    /\ part = "dated" \/ datedServer[1].active
    /\ Chantier!Init
    /\ part = "chantier" \/ (siteStored = Chantier!Empty)
    /\ Storage!Init
    /\ Logos!Init
    /\ CodeTable!Init
    /\ UnitTable!Init
    /\ AddressBook!Init
    /\ EmailBook!Init
    /\ Letter!Init
    /\ part = "letter" \/ (pdfKind = "quote" /\ ~pdfHeader)

\* A step of one component leaves the others as they are.
Rest ==
    /\ UNCHANGED part
    /\ IF part = "content" THEN TRUE ELSE UNCHANGED vars
    /\ IF part = "list" THEN TRUE ELSE UNCHANGED listVars
    /\ IF part = "table" THEN TRUE ELSE UNCHANGED tableVars
    /\ IF part = "dated" THEN TRUE ELSE UNCHANGED datedVars
    /\ IF part = "chantier" THEN TRUE ELSE UNCHANGED chantierVars
    /\ IF part = "files" THEN TRUE ELSE UNCHANGED filesVars
    /\ IF part = "logos" THEN TRUE ELSE UNCHANGED logosVars
    /\ IF part = "codes" THEN TRUE ELSE UNCHANGED codesVars
    /\ IF part = "units" THEN TRUE ELSE UNCHANGED unitsVars
    /\ IF part = "sites" THEN TRUE ELSE UNCHANGED sitesVars
    /\ IF part = "emails" THEN TRUE ELSE UNCHANGED emailsVars
    /\ IF part = "letter" THEN TRUE ELSE UNCHANGED letterVars

ContentStep == part = "content" /\ SequentialNext /\ Rest
Stops == part # "content" /\ UNCHANGED documentsVars
ListEditing == part = "list" /\ List!Editing /\ Rest
ListAccepting == part = "list" /\ List!Accepting /\ Rest
ListAnswering == part = "list" /\ List!Answering /\ Rest
ListListing == part = "list" /\ List!Listing /\ Rest
ListSearch == part = "list" /\ List!Search /\ Rest

TableEditing(r) == part = "table" /\ Table!Editing(r) /\ Rest
TableSaving(r) == part = "table" /\ Table!Saving(r) /\ Rest
TableSetting(r) == part = "table" /\ Table!Setting(r) /\ Rest
TableShowArchived == part = "table" /\ Table!ShowArchived /\ Rest
TableLoading == part = "table" /\ Table!Loading /\ Rest
TableDismiss == part = "table" /\ Table!Dismiss /\ Rest

SitesEditing(r) == part = "dated" /\ Sites!Editing(r) /\ Rest
SitesSaving(r) == part = "dated" /\ Sites!Saving(r) /\ Rest
SitesSetting(r) == part = "dated" /\ Sites!Setting(r) /\ Rest
SitesShowArchived == part = "dated" /\ Sites!ShowArchived /\ Rest
SitesLoading == part = "dated" /\ Sites!Loading /\ Rest
SitesDismiss == part = "dated" /\ Sites!Dismiss /\ Rest

ChantierSectionsArrive == part = "chantier" /\ Chantier!SectionsArrive /\ Rest
ChantierLinesArrive == part = "chantier" /\ Chantier!LinesArrive /\ Rest
ChantierLoaded == part = "chantier" /\ Chantier!Loaded /\ Rest
ChantierLoadFails == part = "chantier" /\ Chantier!LoadFails /\ Rest
ChantierStartEditing == part = "chantier" /\ Chantier!StartEditing /\ Rest
ChantierCancelEditing == part = "chantier" /\ Chantier!CancelEditing /\ Rest
ChantierAddSection(x) == part = "chantier" /\ Chantier!AddSection(x) /\ Rest
ChantierRemoveSection(x) == part = "chantier" /\ Chantier!RemoveSection(x) /\ Rest
ChantierLine(x, y) == part = "chantier" /\ Chantier!Line(x, y) /\ Rest
ChantierSave == part = "chantier" /\ Chantier!Save /\ Rest
ChantierSaveSucceeds == part = "chantier" /\ Chantier!SaveSucceeds /\ Rest
ChantierSaveFails == part = "chantier" /\ Chantier!SaveFails /\ Rest
ChantierCalendarNotes(x) == part = "chantier" /\ Chantier!CalendarNotes(x) /\ Rest
ChantierColleagueSaves(x) == part = "chantier" /\ Chantier!ColleagueSaves(x) /\ Rest

StorageAttachment(f) == part = "files" /\ Storage!Attachment(f) /\ Rest
StorageBreaks(f) == part = "files" /\ Storage!Breaks(f) /\ Rest
StorageReset == part = "files" /\ Storage!Reset /\ Rest

LogosLogo(e) == part = "logos" /\ Logos!Logo(e) /\ Rest
LogosBreaks(e) == part = "logos" /\ Logos!Breaks(e) /\ Rest
LogosReset == part = "logos" /\ Logos!Reset /\ Rest

CodeTableOnResource(q) == part = "codes" /\ CodeTable!OnResource(q) /\ Rest
CodeTableBreaks(q) == part = "codes" /\ CodeTable!Breaks(q) /\ Rest

UnitTableOnUnit(q) == part = "units" /\ UnitTable!OnUnit(q) /\ Rest
UnitTableOnType(q) == part = "units" /\ UnitTable!OnType(q) /\ Rest
UnitTableBreaks(q) == part = "units" /\ UnitTable!Breaks(q) /\ Rest
UnitTableArchiveUnit(l) == part = "units" /\ UnitTable!ArchiveUnit(l) /\ Rest
UnitTableGiveType(p, t) == part = "units" /\ UnitTable!GiveType(p, t) /\ Rest

AddressBookOnClient(q) == part = "sites" /\ AddressBook!OnClient(q) /\ Rest
AddressBookOnAddress(q) == part = "sites" /\ AddressBook!OnAddress(q) /\ Rest
AddressBookBreaks(q) == part = "sites" /\ AddressBook!Breaks(q) /\ Rest
AddressBookSetActive(c, active) == part = "sites" /\ AddressBook!SetActive(c, active) /\ Rest
AddressBookSendTo(x) == part = "sites" /\ AddressBook!SendTo(x) /\ Rest

EmailBookOnClient(q) == part = "emails" /\ EmailBook!OnClient(q) /\ Rest
EmailBookBreaks(q) == part = "emails" /\ EmailBook!Breaks(q) /\ Rest
EmailBookSetActive(c, active) == part = "emails" /\ EmailBook!SetActive(c, active) /\ Rest

LetterCompanyName == part = "letter" /\ Letter!CompanyName /\ Rest
LetterLogo == part = "letter" /\ Letter!Logo /\ Rest
LetterAddressBlock == part = "letter" /\ Letter!AddressBlock /\ Rest
LetterIntroduction == part = "letter" /\ Letter!Introduction /\ Rest
LetterNoIntroduction == part = "letter" /\ Letter!NoIntroduction /\ Rest
LetterTitle == part = "letter" /\ Letter!Title /\ Rest
LetterReference == part = "letter" /\ Letter!Reference /\ Rest
LetterPosition == part = "letter" /\ Letter!Position /\ Rest
LetterSum == part = "letter" /\ Letter!Sum /\ Rest
LetterTotalRule == part = "letter" /\ Letter!TotalRule /\ Rest
LetterTotal == part = "letter" /\ Letter!Total /\ Rest
LetterEarlyPayment == part = "letter" /\ Letter!EarlyPayment /\ Rest
LetterTotalled == part = "letter" /\ Letter!Totalled /\ Rest
LetterConclusion == part = "letter" /\ Letter!Conclusion /\ Rest
LetterNoConclusion == part = "letter" /\ Letter!NoConclusion /\ Rest
LetterApproval == part = "letter" /\ Letter!Approval /\ Rest
LetterSignatureLines == part = "letter" /\ Letter!SignatureLines /\ Rest
LetterNoApproval == part = "letter" /\ Letter!NoApproval /\ Rest
LetterBottomBlock == part = "letter" /\ Letter!BottomBlock /\ Rest
LetterHeading == part = "letter" /\ Letter!Heading /\ Rest
LetterCondition == part = "letter" /\ Letter!Condition /\ Rest
LetterDetails == part = "letter" /\ Letter!Details /\ Rest
LetterSectionTitle == part = "letter" /\ Letter!SectionTitle /\ Rest
LetterDescription == part = "letter" /\ Letter!Description /\ Rest
LetterTableHeader == part = "letter" /\ Letter!TableHeader /\ Rest
LetterTableRule == part = "letter" /\ Letter!TableRule /\ Rest
LetterTableRow == part = "letter" /\ Letter!TableRow /\ Rest
LetterSectionTotal == part = "letter" /\ Letter!SectionTotal /\ Rest
LetterDetailsEnd == part = "letter" /\ Letter!DetailsEnd /\ Rest
LetterLetterHead == part = "letter" /\ Letter!LetterHead /\ Rest
LetterLetterTitle == part = "letter" /\ Letter!LetterTitle /\ Rest
LetterLetterBody == part = "letter" /\ Letter!LetterBody /\ Rest
LetterSlip == part = "letter" /\ Letter!Slip /\ Rest
LetterDone == part = "letter" /\ Letter!Done /\ Rest

DocumentsNext ==
    \/ ContentStep
    \/ Stops
    \/ ListEditing \/ ListAccepting \/ ListAnswering \/ ListListing \/ ListSearch
    \/ \E r \in {1} : TableEditing(r) \/ TableSaving(r) \/ TableSetting(r)
    \/ TableShowArchived \/ TableLoading \/ TableDismiss
    \/ \E r \in {1} : SitesEditing(r) \/ SitesSaving(r) \/ SitesSetting(r)
    \/ SitesShowArchived \/ SitesLoading \/ SitesDismiss
    \/ ChantierSectionsArrive \/ ChantierLinesArrive \/ ChantierLoaded
       \/ ChantierLoadFails \/ ChantierStartEditing \/ ChantierCancelEditing
       \/ ChantierSave \/ ChantierSaveSucceeds \/ ChantierSaveFails
    \/ \E x \in 1..2 :
          ChantierAddSection(x) \/ ChantierRemoveSection(x)
          \/ ChantierCalendarNotes(x) \/ ChantierColleagueSaves(x)
    \/ \E x \in 1..2, y \in {1} : ChantierLine(x, y)
    \/ \E f \in 1..2 : StorageAttachment(f) \/ StorageBreaks(f)
    \/ StorageReset
    \/ \E e \in 1..2 : LogosLogo(e) \/ LogosBreaks(e)
    \/ LogosReset
    \/ \E q \in 1..2 : CodeTableOnResource(q) \/ CodeTableBreaks(q)
    \/ \E q \in 1..2 : UnitTableOnUnit(q) \/ UnitTableOnType(q) \/ UnitTableBreaks(q)
    \/ \E l \in {"h", "H"} : UnitTableArchiveUnit(l)
    \/ \E p \in {1}, t \in {1} : UnitTableGiveType(p, t)
    \/ \E q \in 1..2 :
          AddressBookOnClient(q) \/ AddressBookOnAddress(q) \/ AddressBookBreaks(q)
    \/ \E c \in 0..1, active \in BOOLEAN : AddressBookSetActive(c, active)
    \/ \E x \in 1..2 : AddressBookSendTo(x)
    \/ \E q \in 1..2 : EmailBookOnClient(q) \/ EmailBookBreaks(q)
    \/ \E c \in 0..2, active \in BOOLEAN : EmailBookSetActive(c, active)
    \/ LetterCompanyName \/ LetterLogo \/ LetterAddressBlock \/ LetterIntroduction
       \/ LetterNoIntroduction \/ LetterTitle \/ LetterReference \/ LetterPosition
       \/ LetterSum \/ LetterTotalRule \/ LetterTotal \/ LetterEarlyPayment
       \/ LetterTotalled \/ LetterConclusion \/ LetterNoConclusion \/ LetterApproval
       \/ LetterSignatureLines \/ LetterNoApproval \/ LetterBottomBlock
       \/ LetterHeading \/ LetterCondition \/ LetterDetails \/ LetterSectionTitle
       \/ LetterDescription \/ LetterTableHeader \/ LetterTableRule
       \/ LetterTableRow \/ LetterSectionTotal \/ LetterDetailsEnd
       \/ LetterLetterHead \/ LetterLetterTitle \/ LetterLetterBody \/ LetterSlip
       \/ LetterDone

DocumentsSpec == DocumentsInit /\ [][DocumentsNext]_documentsVars
-----------------------------------------------------------------------------
(* What the components guarantee.  Each part is explained where it is defined. *)

\* A list at rest, the one of documents with its statuses and the ones edited in
\* place, shows what is saved after an edit that was cancelled, refused, failed
\* or went through; no row loses its name.  ShowsSavedStatuses and
\* ShowsWhatIsSaved name the rows this is not so for: met by a reload or by
\* another edit while they were saved, read before they were written, written by
\* a request whose answer was lost.
ListsShowWhatIsSaved ==
    /\ [](part = "list" => List!TypeOK /\ List!ShowsSavedStatuses)
    /\ [](part = "table" => Table!TypeOK /\ Table!ShowsWhatIsSaved)
    /\ [](part = "dated" => Sites!TypeOK /\ Sites!ShowsWhatIsSaved)
    /\ Table!NamesStay /\ Sites!NamesStay

\* A chantier's page shows the ledger as it is stored, each resource in one line,
\* and saving it leaves the sections nobody edited as they were, with the dates
\* and notes the page does not show.
LedgerIsSaved ==
    /\ [](part = "chantier" =>
             Chantier!TypeOK /\ Chantier!ShowsTheLedger /\ Chantier!ResourceOnce)
    /\ Chantier!UntouchedSectionsStay

\* Attachments stay within the quota, a row and the company's logo name files
\* that are there, whichever upload failed, and the nightly reset leaves no file
\* of before.
StorageIsConsistent ==
    /\ [](part = "files" =>
             Storage!TypeOK /\ Storage!WithinQuota /\ Storage!RowHasItsFile)
    /\ [](part = "logos" => Logos!TypeOK /\ Logos!LogoIsStored)
    /\ Storage!ResetLeavesNothing /\ Logos!ResetLeavesNothing

\* A request on a resource, a unit or a type that no other crosses is refused with a
\* conflict and never by the database; a unit is listed once however it is written,
\* and one that was added can be picked.  Of requests that cross, this says nothing:
\* the index then refuses one of two codes with an error, and two spellings of a
\* unit both stay.
CatalogHoldsUp ==
    /\ [](part = "codes" => CodeTable!TypeOK)
    /\ [](part = "units" => UnitTable!TypeOK /\ UnitTable!NoNearDuplicates)
    /\ CodeTable!ErrorsAreRaces /\ UnitTable!ErrorsAreRaces /\ UnitTable!AddedUnitIsListed

\* A client with addresses has one primary address, two clients differ in their
\* emails, and marking an address is not refused by the index, while one request
\* at a time works on a client.  Not so, of what requests that cross leave; of a
\* client whose marking broke between its two statements; and of one whose primary
\* address was deleted.
DirectoryHoldsUp ==
    /\ [](part = "sites" => AddressBook!TypeOK /\ AddressBook!OnePrimaryAddress)
    /\ [](part = "emails" => EmailBook!TypeOK /\ EmailBook!EmailsDiffer)
    /\ AddressBook!MarkingSucceeds

\* On the printed letter nothing meets the footer, the payment slip or what was
\* printed before, and what belongs together is on one page.
LetterIsLaidOut ==
    /\ [](part = "letter" => /\ Letter!TypeOK /\ Letter!ClearOfTheFooter
                              /\ Letter!KeptTogether /\ Letter!SlipIsClear)
    /\ Letter!NeverDrawnOver
=============================================================================
