# Docky in TLA+

Docky is the quoting and invoicing application of small Swiss building firms: an
Angular frontend, an Express backend over PostgreSQL (`pg`, READ COMMITTED), an
S3 store (MinIO) for files, and a handful of shell scripts around them. A firm
writes a *quote*; accepting it opens a *chantier* (a `documents` row of type
PROJECT with a `projects` row on top); closing the chantier lets it be billed by
an *invoice*, which is sent, then paid or cancelled.

This directory holds TLA+ modules translated from that code, the TLC
configurations that model-check them, and proofs checked by TLAPS. Paths below are
those of the repository; `modules/` stands for `src/backend/src/modules/` and
`features/` for `src/frontend/src/app/features/`. `PROJECT.json` maps every
definition to the lines it models.

## 1. Inventory

Concurrency in this system is of one kind almost everywhere: Node and the browser
run one JavaScript turn at a time, and every `await` or callback on a query, an
upload or an HTTP answer lets something else run. Inside the database, statements
of different requests interleave under PostgreSQL's row locks, advisory locks and
unique indexes. A page of the frontend is a state machine of its own: what it
shows, what it has asked, what the user has typed since.

| Component | State | Operations | What is hard about it | What makes it correct |
|---|---|---|---|---|
| Document lifecycle and numbering (`modules/documents/document.service.ts`, `document.repository.ts`, `modules/projects/project.service.ts`) | `documents` (type, status, parent, number, active), `projects` (status, active), advisory locks of the numbering | create a quote or an invoice, create a chantier, accept a quote, set a status, archive and unarchive, complete a chantier | several transactions at once; a status read and then updated; the number read and then inserted; the year in the number; failures between statements | numbers without gap or duplicate; one live invoice per chantier, and only of a completed one; one chantier per accepted quote, none without its two rows; final statuses are final; every request is answered |
| Document content (`document.service.ts`, `document_line.service.ts`, `document_section.service.ts`, `document.calculations.ts`) | sections, lines, header (discount, VAT, stored totals) | replace the whole content, edit the header, add or archive one line or section, recompute totals, copy at acceptance | a save is archive, insert, recompute; header edits run on the pool; whether a document may still change is a read of its own | content is one save's, whole; totals are those of the lines; closed documents do not change; the chantier is what the quote said |
| Connection pool and transactions (`shared/config/database.ts`) | at most 10 connections, a queue of waiters with a 5 s limit, the transaction's connection in AsyncLocalStorage | query on the pool or on the transaction's connection, begin, commit, roll back, release or destroy | nested transactions, a ROLLBACK that fails, a timeout racing a free connection | no deadlock on connections, none released twice, lost, or handed on inside a transaction |
| Sessions (`modules/auth`, `modules/users`, `features/auth`) | `users`, `refresh_tokens`, the browser's tokens and cookie, the refresh in flight | log in, refresh, log out, impersonate and return, delete a user | access tokens expire while calls are in flight; several 401s share one refresh; deletion races a log-in | a revoked or deleted session mints nothing; nothing runs twice; the tab acts for the company it shows |
| Attachments, logos, demo reset (`modules/projects/project_attachment.*`, `modules/companies`, `shared/storage`, `scripts/reset-demo-*`) | rows, the logo's column, objects in the bucket | upload, archive, replace the logo, empty the demo | row first, object second (the logo the other way), removed on failure; quota is check, then insert; the reset is SQL, then purge | every row has its object, the quota holds, the reset leaves nothing |
| Error log and Discord (`modules/error-log`, `shared/notifications/discord.ts`, the frontend's reporter) | one row per fingerprint, an in-memory window, the page's own limit | record, notify, flush, resolve, reopen | two reports at once; a timer and a call | an error is announced once; at most N messages in a window; none forgotten |
| Health check (`modules/health`) | a cached report and the check in flight | GET /health | concurrent requests share one check; a probe hangs | never older than the cache allows, never two checks at once, always an answer |
| Migrations and start-up (`shared/migrations/migrate.ts`, `server.ts`) | `schema_migrations`, the schema, the bucket | apply what is missing, then listen | a stop in the middle; two backends at once | each migration once, in order, all of them before the first request |
| Nightly backup (`scripts/backup-db.sh`) | dumps, the backup container's two databases | dump, restore, check, swap, clean up | the script, or the machine, may stop between any two steps | a checked copy exists at every moment |
| Clients, addresses, catalog (`modules/clients`, `modules/catalog`) | rows under unique indexes | add, change, archive, delete | look, then write; the primary address moves in two statements | one primary address; unique emails, codes, labels |
| Companies and settings (`modules/companies`, `document_template.service.ts`, `features/settings`, `features/profile`) | the company's row, one template per document type | save the profile, the templates, a text block of a document | one submit is several requests; each writes whole rows read earlier | a field nobody touched stays; success means all is saved |
| Document form (`features/documents/document-form`) | a draft, its reads and its save | open, copy, import a chantier, edit, submit | late answers; two or three requests per save, any of which may fail | one document per draft, what is shown is saved |
| Lists (`document-list`, `client-list`, `resource-list`, `project-list`, attachments, administration) | rows shown, the one being edited, its copy | load, filter, edit in place, save, archive | refusals put back, reloads and answers out of order | what is shown is what is saved |
| Chantier page and calendar (`features/projects/project-resources`, `features/calendar`) | the ledger and its draft; events, sidebar, dialog | load, edit, save whole; drop, drag, edit, delete | the same rows written from several pages; optimistic moves | what is shown is what is saved; what was not touched stays |
| Navigation (`app.routes.ts`, guards, header) | the page, the session, the trail | navigate, log in and out, impersonate, reload | guards that redirect to guarded pages | nobody sees a page not meant for them; no endless redirect |
| Printed letters (`src/backend/src/pdf`) | a cursor on a page | quote, invoice, reminder | blocks that meet the end of a page | nothing overlaps, nothing is split that belongs together |
| Money (`document.calculations.ts`), reads, dashboard, scanner | none | arithmetic, queries, a call to an external model | floating point | - |

Interactions: every service reaches PostgreSQL through `db()`, which is the
transaction's connection inside `withTransaction` and the pool elsewhere.
Documents and projects share the numbering and the acceptance; content saves,
header edits and status changes meet at the `documents` row. The chantier page, the
calendar and the document form write the same sections. Every endpoint is
behind the access token of *Sessions*. Errors of any endpoint end in *Error log*,
which calls Discord. The backup reads the database and the store.

The hazards found in this inventory, each at its line, are in `PROJECT.json`.

## 2. Plan, and how far it has come

1. `SalesLedger`, `DocumentLifecycle` and their proofs. **Done.**
2. `ContentLedger`, `DocumentContent` and their proofs: what is read under the lock,
   the refinement, the chantier that matches its quote. **Done.**
3. `ConnectionPool` and its proofs. **Done.**
4. `Sessions` and its proofs. **Done.**
5. Files, backup, error log, health check, start-up, clients, catalog. **Done**;
   `Services` and its proofs: every safety property of run `services` but the rate of
   notifications; the storage's invariants are proved.
6. The frontend: document form, lists, chantier page, calendar, settings,
   navigation. **Done**; `Screens` and its proofs: every safety property of run
   `screens`.
7. The printed letters' layout. **Done**, model-checked.
8. Left: proofs about the clients, the catalog, the lists edited in place, the chantier
   page and the letters, which run `documents` checks; the storage's quota, a sum over a
   set; money in cents, which needs floating point (section 7).

## 3. Modules

### `DocumentRules`
The document types and statuses and the three rules every other module shares:
a new document's status, `SETTABLE_STATUSES`, and `isOpenForEditing`.

### `SalesLedger` - what the endpoints promise
`documents` is a function from ids to rows or `None`, `projects` the rows on top
of PROJECT documents. Each endpoint is **one** step: `CreateDocument`,
`AddProject`, `AcceptQuote`, `SetStatus`, `SetDocumentActive`, `SetProjectActive`,
`CompleteProject`. A number is its year and its sequence number; its spelling is
left out. One company: numbering locks, numbers and every lookup are scoped by
`company_id`, so companies do not meet.

### `DocumentLifecycle` - how they run
Adds request slots. `req[r]` is a request in flight: its operation, the statement
it is at (`pc`) and the values it has read. `numLock` are the advisory locks of
`lockDocumentNumberingInDB` (one per type and year, as the key is the number's
prefix), `rowLock` the `documents` rows a transaction has updated.

- A transaction's writes stay in its request record until `Commit` publishes
  them; `Rollback` drops them. `Fail` may strike at any statement.
- `FlipToAccepted` / `RefuseAccept` are `acceptDocumentInDB`, `UpdateStatus` is
  `updateDocumentStatusInDB`: an UPDATE waits for the row lock, then evaluates its
  WHERE again, as READ COMMITTED does.
- `TakeNumberingLock`, `ReadLastNumber` are `generateDocumentNumber`;
  `CheckProjectCompleted`, `CheckNotInvoiced` the checks of `addDocumentServ`;
  `InsertDocument` knows UNIQUE (company_id, number): it waits for a pending
  duplicate and fails on a committed one.
- `NewYear` moves the server's calendar; a request reads the year when the code
  does: in `StartCreate` and `StartProject` at the start of their transaction, in an
  acceptance after the flip.

### `ContentLedger` and `DocumentContent` - one document's content
The same pair for sections, lines and totals of one document, with the projects
row of a chantier and what the acceptance copied into it. An amount is abstracted
to what it was computed *from* (a rate and a set of lines), so stale or mixed
totals are visible and arithmetic is not needed. A save (`LockDocument`,
`CheckEditable`, `ArchiveLines`, `InsertContent`, the three statements of
`recomputeDocumentTotalsServ`, `Commit`) is a transaction; `updateDocumentServ`
(`UpdateHeader`, then the recomputation) and the single-line and single-section
endpoints are statements on the pool, each committed by itself. INSERTs wait for a
`FOR UPDATE` through their foreign key, as in PostgreSQL.

`Spec` has all ten operations. `FormSpec` has those the frontend calls: its form
saves sections and lines together and never one alone. What holds of transactions
interleaved with each other is stated of `FormSpec`; the single-line endpoints check
the document and write in two statements, and are explored one request at a time
(`SequentialSpec`).

### `ConnectionPool` - under every query
`conns` are the pool's connections, `queue` the requests that wait for one. A
request runs one query on the pool (`RunQuery`) or a transaction of two writes, the
second in a nested `withTransaction` (`Begin`, `WriteFirst`, `JoinNested`,
`WriteSecond`, `Commit`). `StatementFails` and `ConnectionBreaks` may strike at any
statement; what follows is the catch block: `Rollback`, or `RollbackFails`, which
destroys the connection. A connection that breaks during a COMMIT may have
committed. The package `pg` is external: a freed connection goes to the first in
the queue, `TimeOut` is `connectionTimeoutMillis`, `IdleConnectionDrops` what the
`error` listener is for. The lifecycle and content modules take from here that a
transaction is all or nothing and that a request gets its connection.

### `Sessions` - who a request is
The backend's `accounts` and `sessions` (`users`, `refresh_tokens`) and one browser
tab: its access `token`, the `parked` one of a platform admin who impersonates, and
the `cookie`. A call of the tab is followed through `StartApi`, `ServeApi` and the
interceptor (`PassOn`, `Refresh`, `Refreshed`, `RefreshFailed`, `GiveUp`), a log-in
and an impersonation likewise. One step is one JavaScript turn or one SQL statement
with the code up to the next `await`: a refresh is `FindSession` then
`MintAccessToken`, a log-in `CheckPassword` then `InsertSession`, the deletion of an
account `RevokeAllSessions` then `DeleteAccount`. Time is an era: access tokens of an
earlier era are expired (`AccessTokensExpire` is the five hours). `CallFails` loses
a request or an answer, with or without its effect.

### The backend's services

- **`Schema` and `Startup`.** `Schema` is the promise: one migration after the
  other, each once, and whoever listens finds them all. `Startup` is
  `runMigrations` and `server.ts`: a process looks for the first file without a
  record, begins, changes, records and commits, then makes sure of the bucket and
  listens. Two processes run at once; any may fail or be stopped anywhere and is
  started again by the container.
- **`FileStorage`.** An upload goes through its `stage`: the quota read, the row, the
  object, and the row's removal if the object failed. A logo goes the other way,
  object first and the company's column after. The demo reset empties the tables
  and then purges the bucket page by page, while uploads go on.
- **`ErrorLog`.** A handler reads what its group was, writes, and announces it if it
  was new or resolved; `Notify` is `notifyDiscord` with its window, its held-back count
  and the flush timer. The browser's reporter stops after its limit per page load.
- **`HealthCheck`.** Requests, one shared check, one probe per dependency with its
  timeout, and the cache. Time is in ticks; a timer that is due fires before the
  next tick.
- **`NightlyBackup`.** The script's steps by the name of its `STEP` variable, with
  `Trap` for a step that fails and `PowerCut` for one that is cut off.
- **`Catalog` and `ClientDirectory`.** Requests that look first and write after,
  two at a time, under the indexes the migrations create. A request that finds
  something taken is answered with a conflict; one that finds it free and is
  refused by the database, with an error.

### The frontend's pages

A page's answers come one by one in any order, or do not come. What the user may do
meanwhile is what the template leaves enabled.

- **`DocumentForm`.** The route decides the branch (`Branch`), the branch what is
  asked; `PickClient` and the others change the draft; `Submit` runs through the
  `header` and `content`, or `create` and `newContent`, requests with the form locked.
- **`DocumentList`, `EditableList`, `ReloadedList`.** The three ways the lists work: a
  status edited in a cell with a dialog for acceptance; a row edited in place with a
  clone to restore, archived and brought back; a list read again for a filter or after a
  change. A read is two steps, the server's SELECT (`LoadFinds`) and its answer
  (`LoadAnswers`), and so is a write.
- **`ChantierPage`.** The ledger in two reads, the draft, the save that replaces all
  sections, while the calendar and a colleague write.
- **`Calendar`.** Three loads, each a SELECT and an answer, the sidebar, events moved on
  the page before the server is asked and put back when it refuses, the dialogs.
- **`CompanySettings`.** The profile page, the page of templates with its three writes
  at once, and the text block of a document: each writes whole rows.
- **`Navigation`.** Every route with its guards and redirects, the menus, the home link,
  the trail.

### `PdfLetter`
`pdf-writer.ts` and the templates as a cursor that goes down the page. Text of unknown
length, a heading or a title included, is a step that may be taken again. Heights are those of the code, in hundredths
of a point; the properties are about where blocks may meet the end of a page.

### Compositions
`Services` puts the connection pool beside start-up, backup, error log and health
check; `Screens` the pages of the frontend; `MCDocuments` the document's content beside
the lists, files, catalog, clients and the letter. `Services` and `Screens` have every
parameter of their parts as a CONSTANT, with what the code justifies assumed of it
(`LogAssumption`, `FormAssumption`, ...); `MCServices` and `MCScreens` are the instances
TLC checks. `MCLedgers` puts the two refinements side by side, `MCContention` what waits for
locks in both modules, with its fairness. The components composed there share no variable: `part` says which moves,
the others wait at one of their initial states. They are together because they answer one question of the system (do
the backend's services hold up; do rows and files stay consistent; do the pages show
what is saved), not because they interact. Where components do interact (transactions
and numbering, content and acceptance, tab and server) they are one module. Modules
that model several tables or pages alike are instantiated twice.

### Slips
Each detailed module has *slips*, in a section of their own or just before the
operator they stand for: statements as a plausible mistake would leave them (a
missing lock, a check that looks at the wrong rows, an UPDATE without its
condition). No specification uses them. `PROJECT.json` pairs each
property with one that violates it.

## 4. What the runs check

| Run | Instance | Checks | Shows |
|---|---|---|---|
| `ledgers` | 3 documents, 2 requests, 1 year, all operations, failures; and 2 saves, acceptances and status changes of one document's content at once, 3 sections | `OneLiveInvoicePerProject`, `OneChantierPerAcceptedQuote`, `Inv`, `LedgerSpec`, `ContentSpec` | the endpoints, interleaved in every way, behave as the atomic ones, for documents and for content |
| `contention` | 3 documents (one a draft quote), 2 requests, New Year; and 2 requests on one content, header edits among them, chantiers too; fairness | `Inv` (of the content), `ChantierMatchesQuote`, `NumberedInSequence`, `EveryRequestAnswered` | row lock then numbering lock never deadlocks, nobody waits forever; what is read under the lock is current; numbers stay in sequence across years |
| `lifecycle_new_year` | 3 documents, 2 requests, 2 years | `OneLiveInvoicePerProject` **violated** | two invoices of one chantier around midnight on December 31 |
| `content_sent_invoice` | an edit and a status change | `SentInvoiceIsNotRewritten` **violated** | a sent invoice's amounts rewritten by an edit's second UPDATE |
| `content_completed_ledger` | a save, a completion | `CompletedLedgerIsFrozen` **violated** | a chantier completed between a save's check and its COMMIT |
| `sessions` | 2 accounts, one of them a platform admin using the tab, 2 calls, 1 expiry, fairness | `EndedSessionsStayEnded`, `RefreshedOnceRunOnce`, `CallsSettle` | refresh, log-out and deletion racing each other |
| `sessions_impersonation` | the same, without log-outs, deletions and failures | `RunsForTheCompanyShown` **violated** | an expired impersonation is silently refreshed into the admin's own company |
| `services` | 3 requests on 2 connections; 2 error handlers; 2 health requests; 2 processes and 3 migrations; 3 nights | the pool's, start-up's, backup's, error log's and health check's properties | the backend around the documents, with its failures |
| `documents` | all ten content operations, one at a time; each part beside it on its instance | `TotalsAddUpAtRest`, `ClosedContentIsFrozen`, and one property per part | without concurrency every rule of the content holds; rows, files and lists stay consistent |
| `backup_broken_dump` | three nights | `BrokenDumpWipesNothing` **violated** | the only checked copy, left in the scratch database, dropped for a dump that turns out broken |
| `form_late_answer` | 3 documents, 2 clients, 2 moves | `ImportGoesWithItsChantier` **violated** | a chantier's work added to the invoice of another client |
| `screens` | one visit of each page | the form's, calendar's, settings', navigation's and filtered lists' properties | late, reordered and failed answers |

A property of `services`, `documents` and `screens` gathers what its parts promise:

| Property | of | says |
|---|---|---|
| `ConnectionsAreAccountedFor`, `AllOrNothing`, `EveryRequestAnswered` | `ConnectionPool` | one connection for each working request and no more, idle ones outside a transaction; a transaction's two writes are both there or neither; waits end |
| `AnnouncedOnce`, `NotificationsKeepPace` | `ErrorLog` | one message per opening of a group whose recordings and resolutions follow one another; a bounded rate over any span, and what was held back is summed up |
| `HealthIsCurrent` | `HealthCheck` | an outage is told within cache time and timeout; dependencies are probed no more often than that |
| `MigratedInOrder`, `OneAfterTheOther` | `Startup` | once, in order, all before anyone listens; implements `Schema` |
| `StartsAndChecksEnd` | `Startup`, `HealthCheck` | a start that lost the race is up in the end; a probe that hangs keeps nobody waiting |
| `BackupIsSound` | `NightlyBackup` | but for nights cut off at the swap or by a power cut: a checked copy and a checked dump are kept; a good name means checked; a sound dump passes |
| `ListsShowWhatIsSaved` | `DocumentList`, `EditableList` | rows at rest are those of the server, unless a reload or a second edit met their writing; no row loses its name |
| `LedgerIsSaved` | `ChantierPage` | what is shown is stored; a resource once; untouched sections stay |
| `StorageIsConsistent` | `FileStorage` | quota, row and file, logo and column, an empty bucket after the reset |
| `CatalogHoldsUp`, `DirectoryHoldsUp` | `Catalog`, `ClientDirectory` | as far as one request at a time decides: no near-duplicate units, one primary address, distinct emails; errors of the database only where two requests met |
| `LetterIsLaidOut` | `PdfLetter` | footer and slip are kept clear, no block is over another, blocks that belong together are on one page |
| `OneDocumentPerDraft`, `DraftsHoldTogether`, `SavesAreWhole` | `DocumentForm` | a draft makes one document, holds what belongs to it unless an answer came after the choice it was asked for had changed, and is saved as shown |
| `CalendarIsTrue` | `Calendar` | events that no load and no second write met stand where they are saved, a section is in the sidebar or on the calendar |
| `SettingsAreSaved`, `UntouchedFieldsStay` | `CompanySettings` | discount and days go together, success means everything, a field nobody touched keeps its value (a type's first text block apart) |
| `NavigationIsGuarded` | `Navigation` | pages are shown to whom they are for, menus lead there, the home link to a page its user may see, the trail is right and the user's own |
| `SavesAndNavigationEnd` | `DocumentForm`, `Navigation` | a save comes to an end, redirects lead nobody round in circles |
| `ShowsWhatIsAsked` | `ReloadedList` | the list is the filter's, as it is now |

Several of these have exceptions, written into the property: the cases in which the
code does not keep its promise, found with TLC while the property was being stated
(section 5). A variable of the module records that such a case has arisen (`crossed`,
`beside`, `muddled`, `strayed`, `disturbed`...): it is set by the steps that meet
there and never by the property, and outside it the property is unconditional.

**Bounds.** Three documents are a quote or completed chantier, and two invoices
or chantiers made from it: two requests that contend for one parent need no
fourth. Two requests are every pair of operations interleaved at every
statement; a third adds waiters to locks that admit one holder, and the proofs of what the
locks protect are for every number of requests. Two years are one New Year. Two
lines are enough to tell one section's content from half of it, one catalog line
and one typed line to see what the acceptance copies. Documents' ids and
slots are interchangeable in `ledgers`, sections' ids in `documents`; neither checks
liveness, hence the symmetry there. Three requests on two connections are the least in which
some wait while others hold every connection; the two writes of a transaction are
one before and one inside the nested call. Two calls of a tab are one that
refreshes and one that waits for it; one refresh token is one log-in, around which
everything else happens; one expiry is enough because a call is
repeated once; `MaxLogouts` bounds log-outs on their way, further ones are lost, as
the network may lose them; `Hasty = FALSE` is a user who changes company only with
no call in flight, so that what `sessions_impersonation` shows is not the user's
doing. Three migrations are one before, one under way and one after; three nights with
`KEEP_DAYS` at two let a dump age out. One message per window and one held is a
window that is full. Two rows, events, files or clients are one that is being changed
and one it may be confused with; where a page has one, the second would repeat it. The lists edited in place are there
twice, without dates (two edits) and with them (one edit, a write in two requests); two
reads on their way (`MaxLoads`) are one that the other overtakes.
`MaxMoves`, `MaxEdits` bound what a user does in one visit: two or three moves are one
under way and another on top of it. `MaxFailures` at three stops each of two processes,
one of them twice.

`screens` and `form_late_answer` set CHECK_DEADLOCK FALSE: a user whose moves are used up
has nothing left to do. `contention` says the same of a company in which every document
exists with a step of its own, `SaleEnds`.

**Fairness.** In `DocumentLifecycle`, `Proceed` (statements no lock can hold up) is
weakly fair: Node's event loop runs every callback that is ready and PostgreSQL every
statement it has accepted. Statements that wait for a lock are strongly fair:
PostgreSQL queues the waiters of a row or advisory lock, so a request that could take
it again and again gets it. A request stands at one such statement at a time, so their
disjunction is what is fair (`FlipToAccepted`, `TakeNumberingLock`, `UpdateStatus`). In `DocumentContent` each statement may meet the row's
lock, and `FormAdvance(r)` is strongly fair for the same reason. In `ConnectionPool`
the pool serves its queue and the statements run (`Connect`, `Work`, `End`); the
five-second timeout is not fair, so that it is not what ends a wait. In `Sessions` what
server and tab have ready runs (`Serve(c) \/ Deliver(c)`). Timers are weakly fair
(`Tick`, `FlushHeld`, `ProbeTimesOut`), the container starts a process that ended
(`Run`), a request of the form is answered or fails (`Saving`), the router follows a
redirect (`Follow`). Arrivals, failures, users and New Year are not fair.

## 5. Disagreements found

1. **Around New Year a chantier can be billed twice** (`lifecycle_new_year`).
   `modules/documents/document.service.ts:188-190` relies on the numbering lock to
   serialise two invoices of one chantier; the lock's key is the number's prefix,
   which holds the year.
2. **A sent invoice's amounts can be rewritten** (`content_sent_invoice`).
   `updateDocumentServ` is an UPDATE guarded by the status and then an unguarded
   UPDATE of the totals; the invoice can be sent between them.
3. **A completed chantier's ledger can change** (`content_completed_ledger`). A save
   locks the `documents` row, but a chantier's status is on its `projects` row.
4. **An impersonation is renewed as the admin's own session**
   (`sessions_impersonation`). `zz_docs/Decisions.md:88` says it cannot be refreshed,
   to avoid "a silent, unnoticed drop back to the platform admin's own company";
   the interceptor (`features/auth/auth.interceptor.ts:22-27`) refreshes on every 401
   and repeats the request with a token for that company.

5. **The only checked backup can be dropped for a broken dump** (`backup_broken_dump`).
   `scripts/backup-db.sh:91-93`: "a dump that turns out broken never wipes the last good
   copy" (likewise `README.md:89`, `zz_docs/Deployment.md:14`). A run stopped between the
   swap's drop and its rename (`backup-db.sh:109`) leaves that copy in the scratch
   database, which the next run drops before it restores anything (`:94`).
6. **A chantier's work can be billed to another client** (`form_late_answer`). The comment
   at `features/documents/document-form/document-form.ts:666-668` says that picking
   another client clears what the former one's project had imported; what was asked
   for and not yet answered is added all the same (`:719-733`).

Two more lines disagree with what the code does and have no run.
`document_template.service.ts:41-45` says that a field left out keeps its saved value; the
first text block saved for a document type creates its row with the other text empty, and
that one's default is lost (`:51-57`; `rowless`). `modules/auth/auth.service.ts:102` says
that a logout blocks the refresh immediately; one whose session was found just before
still signs one access token (`FindSession`, the log-out, `MintAccessToken`), and that one
is good for its five hours. `RefreshedOnlyWhenLive` is of the refreshes asked for
after the end.

Met while modelling, with no document that says otherwise; where a property had to make
room for one, the module's variable says when.

*Documents.* The totals a header edit stores may be those of lines a concurrent save
has replaced (the same unguarded UPDATE as 2). Single-line and single-section writes
check the document and write in two statements, and archiving a section leaves its
lines active and counted (the frontend calls neither). From the ten-thousandth number
of a prefix on, `ORDER BY number DESC` is text order and no longer finds the highest.

*Sessions.* The answer to a refresh or an impersonation that arrives after the tab has
logged out sets a token again (`features/auth/auth.service.ts:152,194`).

*Document form.* A creation whose answer is lost becomes a second document when the user
tries again (`past.lost`). The page is kept when only the query parameters change: the
type then changes while the id of the document being edited stays. A save before
`documents/:id` has loaded, or after that failed, overwrites the document with the
empty form. An answer that comes after the client or the chantier has changed is taken all the
same: the terms and addresses of another client, the work of 6 (`disturbed`).

*Lists.* The list of documents finds the row of a status edit by its index in the whole
list, also under a search, and keeps one `statusBeforeEdit` for all cells (`muddled`). A
row edited in place gets its clone back over a reload, its dates may be saved without
its other fields, and editing it again during a save can save a blank name. A list read before a row was
written and answered after it shows the row as it was, and an archiving whose answer is
lost leaves it shown as it was (all `strayed`). A
list that does not drop its reads shows the older answer if it comes last.

*Chantier page and calendar.* Sections and lines are two reads; an edit after a load
that failed saves an empty ledger, edits typed during a save are lost, and a save
restores notes the calendar has changed since (`fresh`). A load answered after a drop
shows the event twice; one whose rows were read before a note was deleted, or an event
moved, puts it back as it was; dragging a note saves the title it had; saving a section's note
puts its former dates into the page's copy (`tangled`).

*Settings.* The templates page does not wait for the payment terms: saved before they
came, or after a load failed, they are wiped. The profile's PUT of the whole row
takes the payment terms back to what it read.

*Navigation.* The settings' parent guard is not run again between its children, so a
page of the settings can be reached for a moment by who is signed out. After the session
was changed in another tab, a reload shows the former user's trail (`swapped`).
 The home link, the same for everybody, is refused to a USER, who comes to `/clients`
instead.

*Files.* Uploads side by side can together exceed the quota; a row inserted between the
reset's SQL and its purge loses its file (`orphaned`); two logos of different types
uploaded at once leave the column naming a file that was removed (`beside`).

*Services.* A group of errors can be announced twice, or reopened silently, when another
occurrence or the administrator changes it between the read and the write (`muddled`);
the browser's reporter counts an error as reported when it had no token to report it
with. A backup killed without its trap leaves an unverified dump under a good
name (`cut`, as is the swap of 5).

*Clients and catalog.* Emails are unique only by a look before the write, labels of units
up to their case likewise (`crossed`). A primary mark taken off and not put on leaves a
client without a primary address (`bare`). Deleting a project type is two statements
without a transaction.

*Letters.* A table's heading may stand alone at the bottom of a page.

## 6. What is proved

A property in brackets is the one a run checks on its instance.

**`DocumentLifecycleProofs`**, for every set of documents and requests and
every range of years (from `YearAssumption`, `NoneAssumption` and
`RequestsAssumption`):

- `Invariance` [`Inv`]. `NumberedInSequence` is not inductive by itself: it
  needs that what a request read under its numbering lock is still true when it
  inserts (`ReadsAreCurrent`), which needs that it holds that lock
  (`HoldsItsLocks`), that no other request was promised the same row id
  (`NewIdIsFree`), and that its fields fit its step (`StepFitsRequest`,
  `TargetFitsRequest`). `RowsAreNumbered` and `RowsFitTheirType` say the same of what
  is committed. `Inv` is the conjunction; each action preserves it, one lemma per
  action.
- From it `TypeCorrect`, `Numbering` [`NumberedInSequence`], `NumbersAreFree`,
  `LocksAreReleased`, `NoOrphans`, `BilledWhenCompleted` and `OneChantier`
  [`OneChantierPerAcceptedQuote`]; `History` as an action property.
- Within one year (`FirstYear = LastYear`): `OneLiveInvoice` [`OneLiveInvoicePerProject`]
  and `Refinement` [`LedgerSpec`]: `Commit` is the endpoint's step, `UpdateStatus` and
  the archivings their own, all others stutter. Run `lifecycle_new_year` shows that the
  hypothesis is needed.

**`DocumentContentProofs`**, for every number of requests, sections and lines and all of
`FormSpec`, header edits included:

- `Invariance`: the inductive invariant `FormInv`. What is read must still be current
  (`ReadsAreCurrent`), which needs that the reader is the one that holds the row's lock
  (`LockIsHeld`) and that whoever writes the content holds it too; to that `FormInv` adds
  what each request's fields are at its statement.
- `ReadsUnderLock` [`Inv`] and `ChantierIsTheQuote` [`ChantierMatchesQuote`].
- For a quote or an invoice, and without header edits (`"PROJECT" \notin DocTypes`,
  `"edit" \notin Workload`): `SavesAreAtomic` [`ContentSpec`]: a save's COMMIT is the
  ledger's step, so is an acceptance's, all that comes before stutters. Through it
  `ContentIsWhole`: what `ContentLedger` promises of its own steps (`LedgerInvariance`)
  holds of the statements: content is one save's and the stored amounts are its lines'.
  Both hypotheses are needed: a header edit's totals are not written under the lock
  (finding 2), nor is a chantier's status read under one (finding 3).
- Of all ten operations, one at a time (`SequentialSpec`, one slot; statements run to the
  end): `TotalsFollow` [`TotalsAddUpAtRest`] and `ClosedStaysClosed`
  [`ClosedContentIsFrozen`]. The invariant `Sole` says at which statements the stored
  totals are behind, and that what is then read is what there is. Run `documents` checks
  both beside the other parts. That a statement may not fail here is the code's doing: a
  line write and its recomputation are not one transaction.

**`ConnectionPoolProofs`**, for any number of requests and connections (from
`PoolAssumption`): `TypeCorrect`, `NoConnectionLeaks`, `ConnectionsComeBackClean`, the
three together as `AccountedFor` [`ConnectionsAreAccountedFor`], and `Atomicity`
[`AllOrNothing`]. Their inductive invariant `Inv` adds what ties a connection to the
request that holds it: `HolderWorks` (holder and request name each other),
`QueueWaits`, and for each request `RequestFits`: what its connection's open
transaction contains at its step, and that the database has nothing of it yet.
`AllOrNothing` alone is not inductive: a COMMIT publishes what the connection has
pending, whoever's it is. `StepOfHolder` says once that a step of one holder leaves
all others alone; each action then only shows its own request's part.

**`StartupProofs`**, for any number of processes, migrations and failures: `Migrated`
and `Refinement`: `Startup` implements `Schema`. The
invariant adds to `AppliedOnce` that what is recorded is a prefix of the files, and that
a process past its first query has every earlier file behind it (`ProcessFits`): only
so does a refused INSERT mean that somebody else was faster.

**`ServicesProofs`**, for every instance of `Services` (from its assumptions: periods and
limits are natural numbers, a window has room for a message, `None` is nothing else):

- `PoolServes` [`ConnectionsAreAccountedFor`, `AllOrNothing`], `MigratedOnce`
  [`MigratedInOrder`] and `StartsRefineSchema` [`OneAfterTheOther`] carry the two modules
  above over to the composition: a step of one part leaves the others where they are.
- `ErrorsAreAnnouncedOnce` [`AnnouncedOnce`], of groups whose recordings and resolutions
  do not cross: what was announced of a group is tied to
  its state and to the report that has read it; the notifier's own type (`NotifierOK`)
  is kept by whatever sends a message.
- `HealthStaysCurrent` [`HealthIsCurrent`]: how long ago a dependency was well is bounded
  by the age of what says so, the check on its way (`CheckFits`) or the cached report
  (`ReportFits`).
- `BackupsAreKept` [`BackupIsSound`], while no swap was cut off between its drop and its
  rename, and of the nights no power cut met: the invariant follows the checked copy through the
  swap, between whose drop and rename it is only in the scratch database (`CopyFits`), and
  adds that the night which deletes old dumps has its own (`DumpFits`) and that no
  deployment makes the copy hold less than was counted (`CountFits`).

**`ScreensProofs`**, for every instance of `Screens`: any documents, clients, sections,
notes, rows, filters, users and roles, any length of the trail, any number of moves.

- `ListsShowWhatIsAsked` [`ShowsWhatIsAsked`]: the last read asked for is the filter's, and
  the list that drops its reads waits for that one alone (`ListInv`).
- `PagesAreGuarded` [`NavigationIsGuarded`], where the home link may lead to another page
  than its own, but to one the user may see: needs that the trail is empty on pages that
  ask for no session, and names no page twice (`NavInv`).
- `SettingsSavedWhole` [`SettingsAreSaved`] and `UntouchedFieldsAreKept`
  [`UntouchedFieldsStay`]: in what nobody touched a page holds what it was loaded with, and
  so does each write on its way (`SetInv`). A profile keeps discount and days together only
  because the page reads them together (`BaseOK`).
- `OneDraftOneDocument` [`OneDocumentPerDraft`], `DraftsAreTheirOwn` [`DraftsHoldTogether`]
  and `SavesShowAll` [`SavesAreWhole`], all from `FormInv`: what page and requests speak of
  exists (`FormRefers`), what has been created is what the draft edits (`FormCreates`), what
  the draft lacks is on its way (`FormFollows`), imported work is billed wherever it is, in
  the draft, in a request or on the server (`FormBills`). `DraftsAreTheirOwn` is of drafts
  no overtaken answer came to.
- `EventsStandWhereSaved` [`CalendarIsTrue`], of items that no load and no second write met
  while they were written: an item has one write on its way, from what
  the page knew of it, and stands as if it had been answered (`StandsAt`, `Underway`); the
  dialog's item has none (`AgendaOpen`).

`FormInv` and `AgendaInv` were model-checked, with more moves than the run has, before they
were proved. The proofs found two actions (in `Calendar` and in `Catalog`) with CASE
conditions that overlap; they are exclusive now.

**`SessionsProofs`**, for any number of accounts, calls and refresh tokens (from
`SessionsAssumption`): `SessionsEnded` [`EndedSessionsStayEnded`], of the refreshes asked
for once the session has ended, and `RunsOnce`
[`RefreshedOnceRunOnce`]. Their invariant `SessionsInv` adds that a key is drawn once
(`Drawn`), so that a session that ended cannot become good by another log-in; that a
good session has its account, whose deletion takes its sessions with it; and
what a call knows: it has not run if it was told that its token is not good, and only
the call that refreshes holds the tab's refresh.

**`FileStorageProofs`**, for any attachments and logo extensions, numbered (`Bounds`):
`RowsHaveTheirFiles` (`RowHasItsFile` and `LogoIsStored`) and `ResetIsComplete`
(`ResetLeavesNothing`). The invariant adds that a logo's upload which met no other still
has its file when it sets the column (`LogosFit`), and that while the reset deletes, all
rows are of uploads that met it and so is every key up to the last it listed
(`PurgeFits`); that the listing gives the first key left is a fact about sets of
numbers (`FirstKey`).

Only model-checked: liveness, as fairness is out of the prover's reach
(`EveryRequestAnswered`, `CallsSettle`, `StartsAndChecksEnd`, `SavesAndNavigationEnd`, and
`NotificationsKeepPace`, whose bound on the rate is a sum besides); `WithinQuota`, the sum
over a set being a recursion; and what run `documents` checks of `ClientDirectory`,
`Catalog`, `DocumentList`, `EditableList`, `ChantierPage` and `PdfLetter`, which have no
proof yet.

## 7. What is not modelled, and why

- **Money** (`document.calculations.ts`): floating point, which TLA+ does not have.
  `ContentLedger` says which lines and rate an amount is of; its cents are left to unit
  tests. `round2` adds `Number.EPSILON` before rounding, which is below the error of a
  product: 2.30 less 5 % is 2.185 and comes out as 2.18 (`document.calculations.ts:12-13`
  expects half a cent to go up).
- **Document reads and the dashboard**: queries that change nothing. Where an answer of
  several reads is written back, the page that does so is modelled (`ChantierPage`).
- **The scanner**: a call to an external model, whose answer fills a form.
- Within the modelled parts: positions, texts and amounts, the wording of messages, the
  HTTP layer, and the `company_id` checks; in `Sessions` a second tab, registration, role
  and language changes, deactivation and the login history; in `ConnectionPool` the
  process crash that an unhandled `error` of a connection in use may cause; in
  `CompanySettings` the platform's own creation and archiving of companies; in
  `PdfLetter` widths and fonts, so that only overlap from top to bottom is seen and no
  label is too long for its column, and what the QR code contains; generic widgets, translations
  and styles of the frontend.
