------------------------------ MODULE ErrorLog ------------------------------
(***************************************************************************)
(* What happens to an error nobody caught, on the server or on a page: it  *)
(* is grouped with the ones like it in error_groups, and a group that is   *)
(* new, or back after it was resolved, is announced on Discord, a few      *)
(* messages a minute at most.  An error stands for its fingerprint.        *)
(*                                                                         *)
(* The statement that records an occurrence reads the group as it was when *)
(* the statement started and writes the group as it is by then: two steps. *)
(* Time passes in ticks.                                                   *)
(***************************************************************************)
EXTENDS Naturals, FiniteSets, FiniteSetsExt

CONSTANTS
    Errors,         \* fingerprints
    PageErrors,     \* ... those of errors a browser reports
    Handlers,       \* what may record an occurrence at the same time
    MaxReports,     \* MAX_REPORTS_PER_PAGE_LOAD
    MaxPerWindow,   \* MAX_PER_WINDOW
    Window,         \* WINDOW_MS, in ticks
    MaxHeld,        \* bound: notifications kept back at once
    None

VARIABLES
    groups,         \* error_groups: "none", "open" or "resolved"
    recording,      \* what each handler records and what it read before
    page,           \* the open page: what it has reported, whether it has a token
    age,            \* ticks since windowStart, no further than Window
    sentInWindow,
    held,
    flushTimer,     \* ticks until it is due, or None
    posted,         \* for the properties: messages posted, by how long ago
    told,           \* ... announcements of a group since it was last resolved
    muddled         \* ... groups that changed between the read and the write

notifier == <<age, sentInWindow, held, flushTimer, posted>>
vars == <<groups, recording, page, notifier, told, muddled>>

Kinds == {"new", "reopened", "repeat"}

TypeOK ==
    /\ groups \in [Errors -> {"none", "open", "resolved"}]
    /\ recording \in [Handlers -> [error : Errors, kind : Kinds] \cup {None}]
    /\ page \in [reported : SUBSET PageErrors, token : BOOLEAN]
    /\ age \in 0..Window /\ sentInWindow \in 0..MaxPerWindow /\ held \in 0..MaxHeld
    /\ flushTimer \in 0..Window \cup {None}
    /\ posted \in [0..(Window - 1) -> Nat]
    /\ told \in [Errors -> Nat] /\ muddled \subseteq Errors

Init ==
    /\ groups = [e \in Errors |-> "none"]
    /\ recording = [h \in Handlers |-> None]
    /\ page = [reported |-> {}, token |-> FALSE]
    /\ age = Window /\ sentInWindow = 0 /\ held = 0 /\ flushTimer = None
    /\ posted = [k \in 0..(Window - 1) |-> 0]
    /\ told = [e \in Errors |-> 0] /\ muddled = {}

-----------------------------------------------------------------------------
(* Discord: notifyDiscord, flushHeld. *)

Posts(n) == posted' = [posted EXCEPT ![0] = @ + n]

\* A slip: WINDOW_MS is taken for seconds, every window is over at once.
StartsWindow == flushTimer = None

OpensWindow == age >= Window /\ flushTimer = None

Notify ==
    LET sent == IF OpensWindow THEN 0 ELSE sentInWindow
    IN /\ age' = IF OpensWindow THEN 0 ELSE age
       /\ \/ /\ sent < MaxPerWindow
             /\ sentInWindow' = sent + 1 /\ Posts(1)
             /\ UNCHANGED <<held, flushTimer>>
          \/ /\ sent >= MaxPerWindow /\ held < MaxHeld
             /\ held' = held + 1
             /\ flushTimer' = IF flushTimer = None THEN Window - age ELSE flushTimer
             /\ UNCHANGED <<sentInWindow, posted>>

\* One message for all that were held.
FlushHeld ==
    /\ flushTimer = 0
    /\ flushTimer' = None /\ held' = 0 /\ age' = 0 /\ sentInWindow' = 1 /\ Posts(1)
    /\ UNCHANGED <<groups, recording, page, told, muddled>>

\* The timer may fire late.
Tick ==
    /\ age' = Min({age + 1, Window})
    /\ flushTimer' = IF flushTimer \in 1..Window THEN flushTimer - 1 ELSE flushTimer
    /\ posted' = [k \in DOMAIN posted |-> IF k = 0 THEN 0 ELSE posted[k - 1]]
    /\ UNCHANGED <<groups, recording, page, sentInWindow, held, told, muddled>>

-----------------------------------------------------------------------------
(* The log: recordErrorInDB, buildErrorNotification, setErrorGroupResolvedInDB *)

Kind(e) == CASE groups[e] = "none"     -> "new"
             [] groups[e] = "resolved" -> "reopened"
             [] groups[e] = "open"     -> "repeat"

Reads(h, e) ==
    /\ recording[h] = None
    /\ recording' = [recording EXCEPT ![h] = [error |-> e, kind |-> Kind(e)]]
    /\ UNCHANGED <<groups, notifier, told, muddled>>

\* An unexpected error in a request, once it has been answered with a 500; a
\* business error, a rejected upload or a malformed body never comes this far.
Throws(h, e) == e \notin PageErrors /\ Reads(h, e) /\ UNCHANGED page

\* ErrorReporter.report: an error is new to the page or it is not reported; it
\* counts as reported though there was no token to report it with.
Reports(h, e) ==
    /\ e \in PageErrors \ page.reported /\ Cardinality(page.reported) < MaxReports
    /\ page' = [page EXCEPT !.reported = @ \cup {e}]
    /\ IF page.token THEN Reads(h, e) ELSE UNCHANGED <<groups, recording, notifier, told, muddled>>

LoadsPage(token) ==
    /\ page' = [reported |-> {}, token |-> token]
    /\ UNCHANGED <<groups, recording, notifier, told, muddled>>

LogsIn(token) ==
    /\ page' = [page EXCEPT !.token = token]
    /\ UNCHANGED <<groups, recording, notifier, told, muddled>>

\* A slip: resolved_at is left as it was.
StaysResolved(e) == [groups EXCEPT ![e] = IF @ = "none" THEN "open" ELSE @]

\* ON CONFLICT: resolved_at = NULL.
Opened(e) == [groups EXCEPT ![e] = "open"]

Muddles(h) ==
    LET now == recording[h]
    IN IF Kind(now.error) = now.kind THEN muddled ELSE muddled \cup {now.error}

\* The occurrence is written; the group's first, and the first after it was
\* resolved, are announced.
Records(h) ==
    /\ recording[h] # None
    /\ recording' = [recording EXCEPT ![h] = None]
    /\ groups' = Opened(recording[h].error)
    /\ muddled' = Muddles(h)
    /\ IF recording[h].kind = "repeat"
         THEN UNCHANGED <<notifier, told>>
         ELSE Notify /\ told' = [told EXCEPT ![recording[h].error] = Min({@ + 1, 2})]
    /\ UNCHANGED page

\* The database does not answer, before or after the write.
RecordFails(h) ==
    /\ recording[h] # None
    /\ recording' = [recording EXCEPT ![h] = None]
    /\ \/ UNCHANGED <<groups, muddled>>
       \/ groups' = Opened(recording[h].error) /\ muddled' = muddled \cup {recording[h].error}
    /\ UNCHANGED <<page, notifier, told>>

\* A platform administrator resolves a group, or takes that back.
SetResolved(e, resolved) ==
    /\ groups[e] # "none"
    /\ groups' = [groups EXCEPT ![e] = IF resolved THEN "resolved" ELSE "open"]
    /\ told' = [told EXCEPT ![e] = IF resolved THEN 0 ELSE IF groups[e] = "open" THEN @ ELSE 1]
    /\ UNCHANGED <<recording, page, notifier, muddled>>

-----------------------------------------------------------------------------
Occurrence(h) ==
    \/ \E e \in Errors : Throws(h, e) \/ Reports(h, e)
    \/ Records(h) \/ RecordFails(h)
Page == \E token \in BOOLEAN : LoadsPage(token) \/ LogsIn(token)
Admin == \E e \in Errors, resolved \in BOOLEAN : SetResolved(e, resolved)

Next ==
    \/ \E h \in Handlers : Occurrence(h)
    \/ Page \/ Admin \/ Tick \/ FlushHeld

\* The event loop runs a timer once it is due, and time passes.
Fairness == WF_vars(Tick) /\ WF_vars(FlushHeld)
Spec == Init /\ [][Next]_vars /\ Fairness
-----------------------------------------------------------------------------
(* What the error log guarantees. *)

\* A group is announced once for each time it is opened, and none is open that
\* was not: but for a group another occurrence, or the administrator, changed
\* between an occurrence's read and its write, or whose answer was lost.
AnnouncedOnce ==
    \A e \in Errors \ muddled : told[e] = IF groups[e] = "open" THEN 1 ELSE 0

\* No span of a window's length, wherever it begins, sees more than two windows'
\* worth of messages, a flush that comes late included.
RateBounded ==
    FoldSet(LAMBDA k, sum : posted[k] + sum, 0, DOMAIN posted) <= 2 * MaxPerWindow

\* What was held back is summed up in the end.
HeldIsFlushed == held > 0 ~> held = 0
=============================================================================
