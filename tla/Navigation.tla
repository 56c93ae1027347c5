----------------------------- MODULE Navigation -----------------------------
(***************************************************************************)
(* Moving between the pages: the routes and who may open them, the guards  *)
(* and where they send whoever is refused, the menus, and the trail of     *)
(* pages in the header, kept for the tab from one reload to the next.      *)
(***************************************************************************)
EXTENDS Naturals, Sequences, SequencesExt

CONSTANTS
    Users,
    RoleOf(_),   \* "USER", "ADMIN" or "PLATFORM_ADMIN"
    Typed,       \* the addresses a user types or comes back to
    None,
    MaxStored,   \* entries the trail keeps
    MaxMoves     \* bound: what the users do

VARIABLES
    who,       \* whose token the tab holds
    page,      \* the page shown, None before the first
    pending,   \* the navigation under way
    trail,     \* the pages visited, and for the properties by whom
    swapped,   \* for the properties: a reload found the token of someone else
    moves

vars == <<who, page, pending, trail, swapped, moves>>

-----------------------------------------------------------------------------
(* The routes. *)

Public == {"/login", "/register"}
CompanyFigures == {"/dashboard", "/calendar"}
Company == {"/clients", "/clients/1", "/documents", "/qr-bill", "/documents/new", "/documents/1",
            "/resources", "/projects", "/projects/1", "/profile", "/document-scanner"}
Platform == {"/settings/users", "/settings/users/new", "/settings/uitest",
             "/settings/login-history", "/settings/errors", "/settings/companies"}
Settings == {"/settings/templates", "/settings/language"} \cup Platform
Redirects == [p \in {"/", "/settings"} |-> IF p = "/" THEN "/dashboard" ELSE "/settings/templates"]
Pages == Public \cup CompanyFigures \cup Company \cup Settings
Routes == Pages \cup DOMAIN Redirects

\* data.roles, and whether a page has a name for the trail.
Roles(p) == IF p \in Platform THEN {"PLATFORM_ADMIN"} ELSE {"ADMIN", "PLATFORM_ADMIN"}
ForRoles(p) == p \in CompanyFigures \cup Platform
Named(p) == p \in Pages \ (Public \cup {"/document-scanner"})

\* authGuard runs as a route is entered: moving within the settings, it has run.
Entered(p) == p \notin Settings \/ page \notin Settings

Refused(p) == p \notin Public /\ Entered(p) /\ who = None
Denied(p) == ForRoles(p) /\ (who = None \/ RoleOf(who) \notin Roles(p))

\* A slip: back to the root.
SendsHome(p) == IF Refused(p) THEN "/login" ELSE IF Denied(p) THEN "/" ELSE p

\* Where the guards let a navigation to p go.
Guarded(p) == IF Refused(p) THEN "/login" ELSE IF Denied(p) THEN "/clients" ELSE p

-----------------------------------------------------------------------------
Entry == [page : Pages, by : Users \cup {None}]

TypeOK ==
    /\ who \in Users \cup {None}
    /\ page \in Pages \cup {None}
    /\ pending \in [to : Routes, replaces : BOOLEAN] \cup {None}
    /\ trail \in Seq(Entry) /\ Len(trail) <= MaxStored
    /\ swapped \in BOOLEAN /\ moves \in 0..MaxMoves

Init ==
    /\ who \in Users \cup {None} /\ page = None
    /\ pending = [to |-> "/", replaces |-> FALSE] /\ trail = <<>>
    /\ swapped = FALSE /\ moves = 0

Move == moves < MaxMoves /\ moves' = moves + 1
To(p) == [to |-> p, replaces |-> FALSE]

-----------------------------------------------------------------------------
(* The router. *)

Latest(s) == IF Len(s) > MaxStored THEN Tail(s) ELSE s

\* A slip: the login page leaves the trail as it is.
KeepsTrail(p, replaces) ==
    LET at == SelectInSeq(trail, LAMBDA e : e.page = p)
        kept == IF replaces /\ trail # <<>> THEN Front(trail) ELSE trail
    IN IF ~Named(p) THEN trail
       ELSE IF at > 0 THEN SubSeq(trail, 1, at)
       ELSE Latest(Append(kept, [page |-> p, by |-> who]))

\* record: a page visited before cuts the trail back to it.  The settings can be
\* shown without a session, and then belong to nobody.
Recorded(p, replaces) ==
    LET at == SelectInSeq(trail, LAMBDA e : e.page = p)
        kept == IF replaces /\ trail # <<>> THEN Front(trail) ELSE trail
    IN IF p \in Public THEN <<>>
       ELSE IF ~Named(p) THEN trail
       ELSE IF at > 0 THEN SubSeq(trail, 1, at)
       ELSE Latest(Append(kept, [page |-> p, by |-> who]))

Follow ==
    /\ pending # None
    /\ IF pending.to \in DOMAIN Redirects
       THEN pending' = [pending EXCEPT !.to = Redirects[@]] /\ UNCHANGED <<page, trail, swapped>>
       ELSE IF Guarded(pending.to) # pending.to
       THEN pending' = To(Guarded(pending.to)) /\ UNCHANGED <<page, trail, swapped>>
       ELSE /\ page' = pending.to /\ pending' = None
            /\ trail' = Recorded(pending.to, pending.replaces)
            /\ swapped' = (swapped /\ trail' # <<>>)
    /\ UNCHANGED <<who, moves>>

-----------------------------------------------------------------------------
(* The menus. *)

NavItems == {"/dashboard", "/calendar", "/clients", "/documents", "/qr-bill", "/resources", "/projects"}
NavRoles(p) == IF p \in {"/dashboard", "/calendar"} THEN {"ADMIN", "PLATFORM_ADMIN"}
               ELSE {"USER", "ADMIN", "PLATFORM_ADMIN"}

VisibleNavItems(u) == {p \in NavItems : RoleOf(u) \in NavRoles(p)}

SettingsItems(u) ==
    {"/settings/templates", "/settings/language"} \cup
    (IF RoleOf(u) = "PLATFORM_ADMIN" THEN Platform ELSE {})

Menu(u) == VisibleNavItems(u) \cup {"/settings", "/profile"} \cup
           (IF page \in Settings THEN SettingsItems(u) ELSE {})

\* The link at the head of the trail, the same for everybody.
Home == "/dashboard"

-----------------------------------------------------------------------------
(* The user.  A navigation that is asked for replaces the one under way.   *)

Goes(p) == pending' = To(p)

Click(p) ==
    /\ who # None /\ page # None /\ p \in Menu(who) \cup {Home} /\ Move
    /\ Goes(p) /\ UNCHANGED <<who, page, trail, swapped>>

\* Signed out, the settings' own menu is still there for a moment.
ClickSignedOut(p) ==
    /\ who = None /\ page \in Settings /\ p \in Settings \ Platform /\ Move
    /\ Goes(p) /\ UNCHANGED <<who, page, trail, swapped>>

\* A link of a page, or the trail's.
FollowLink(p) ==
    /\ who # None /\ page # None /\ Move
    /\ \E i \in 1..Len(trail) : trail[i].page = p
    /\ Goes(p) /\ UNCHANGED <<who, page, trail, swapped>>

\* An address typed reloads the page.  The trail is the tab's, the token is every
\* tab's: another one may have signed out, or in as someone else.
Type(p, u) ==
    /\ Move /\ page' = None /\ who' = u /\ Goes(p)
    /\ swapped' = (swapped \/ (u # who /\ trail # <<>>))
    /\ UNCHANGED trail

\* A new document saved takes the place of the page it was written on.
DocumentCreated ==
    /\ page = "/documents/new" /\ who # None /\ Move
    /\ pending' = [to |-> "/documents/1", replaces |-> TRUE]
    /\ UNCHANGED <<who, page, trail, swapped>>

LogIn(u) ==
    /\ page = "/login" /\ pending = None /\ Move
    /\ who' = u /\ Goes("/") /\ UNCHANGED <<page, trail, swapped>>

Register == page = "/register" /\ Move /\ Goes("/login") /\ UNCHANGED <<who, page, trail, swapped>>

\* logout(), by the user or because no token could be had for a request.
SessionEnds ==
    /\ who # None /\ who' = None /\ Goes("/login")
    /\ UNCHANGED <<page, trail, swapped, moves>>

ImpersonateCompany ==
    /\ page = "/settings/companies" /\ who # None /\ Move
    /\ Goes("/dashboard") /\ UNCHANGED <<who, page, trail, swapped>>

ReturnToPlatformView ==
    /\ who # None /\ page # None /\ RoleOf(who) = "PLATFORM_ADMIN" /\ Move
    /\ Goes("/settings/companies") /\ UNCHANGED <<who, page, trail, swapped>>

Next ==
    \/ Follow
    \/ \E p \in Routes : Click(p) \/ ClickSignedOut(p) \/ FollowLink(p)
    \/ \E p \in Typed, u \in Users \cup {None} : Type(p, u)
    \/ \E u \in Users : LogIn(u)
    \/ Register \/ DocumentCreated \/ SessionEnds
    \/ ImpersonateCompany \/ ReturnToPlatformView

Spec == Init /\ [][Next]_vars /\ WF_vars(Follow)
-----------------------------------------------------------------------------
(* What the guards, the menus and the trail guarantee. *)

\* A page is shown to whom it is for, however the user came to it; signed out, only
\* a page of the settings reached from another one.
Admits(u, p) ==
    IF u = None THEN p \in Public \cup (Settings \ Platform)
    ELSE ForRoles(p) => RoleOf(u) \in Roles(p)

AdmittedHere == page # None /\ pending = None => Admits(who, page)

\* The guards send nobody round in circles: a navigation comes to a page.
NavigationEnds == pending # None ~> pending = None

\* What a menu offers is not refused to who sees it.  The link home is no menu's: it
\* is there for a USER too, who is refused the dashboard, and then comes to a page
\* that is not refused.
MenuLeadsThere ==
    who # None => /\ \A p \in Menu(who) : p \in Pages => Admits(who, p)
                  /\ Admits(who, Guarded(Home))

\* The trail ends with the page shown, and has no page twice.
TrailLeadsHere ==
    /\ page # None /\ pending = None /\ Named(page) => trail # <<>> /\ Last(trail).page = page
    /\ \A i, j \in 1..Len(trail) : trail[i].page = trail[j].page => i = j

\* Nobody finds where the one before them in the tab has been, unless the session
\* was changed in another tab.
TrailIsOwn == who # None /\ ~swapped => \A i \in 1..Len(trail) : trail[i].by = who
=============================================================================
