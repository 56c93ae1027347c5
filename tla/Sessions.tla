------------------------------ MODULE Sessions ------------------------------
(***************************************************************************)
(* Sessions: the accounts and refresh tokens of the backend, statement by  *)
(* statement, and one browser tab with its access token, the one it parks  *)
(* while impersonating, and the cookie with its refresh token.             *)
(*                                                                         *)
(* A call is one HTTP exchange of the tab, followed from the click to the  *)
(* end of its callbacks.  A JavaScript turn is one step, and so is an SQL  *)
(* statement with the code up to the next await.  The call whose 401       *)
(* starts a refresh of the access token carries that refresh's own POST.   *)
(*                                                                         *)
(* Every user has a company of their own, which carries their name.        *)
(***************************************************************************)
EXTENDS Integers, FiniteSets

CONSTANTS
    Users,        \* the accounts there are at first, and their companies
    Admins,       \* those with the role PLATFORM_ADMIN
    Visitors,     \* those who use this tab
    Hasty,        \* whether they change company with calls in flight
    Keys,         \* the refresh tokens that may be drawn
    Calls,        \* how many calls the tab may have in flight: their slots
    MaxLogouts,   \* how many log-outs are on their way at most: others get lost
    LastEra,      \* how many times the access tokens at hand may expire
    None          \* no token, no cookie, nobody

ASSUME SessionsAssumption ==
    /\ Admins \subseteq Users /\ Visitors \subseteq Users /\ Hasty \in BOOLEAN
    /\ {LastEra, MaxLogouts} \subseteq Nat
    /\ None \notin Users \cup Keys \cup [user : Users, valid : BOOLEAN]

VARIABLES
    accounts,     \* the rows of `users`
    deleting,     \* accounts whose deletion has revoked their sessions
    sessions,     \* the rows of `refresh_tokens`
    era,          \* time: an access token lives for the era it was signed in
    token,        \* the tab's access token
    parked,       \* the platform admin's own one, while impersonating
    cookie,       \* the browser's refresh token
    calls,        \* the tab's calls
    logouts       \* POST /auth/logout on their way, or answered

server == <<accounts, deleting, sessions, era>>
tab == <<token, parked, cookie>>
vars == <<accounts, deleting, sessions, era, token, parked, cookie, calls, logouts>>

Eras == 0 .. LastEra
AccessToken == [user : Users, company : Users, minted : Eras]
Session == [user : Users, valid : BOOLEAN]

Ops == {"none", "api", "impersonate", "login"}
Answers == {"none", "ok", "unauthorized", "refused"}
Steps == {"idle", "sent", "checked", "answered", "waiting",
          "refresh_sent", "refresh_found", "refresh_answered"}
RefreshSteps == {"refresh_sent", "refresh_found", "refresh_answered"}

\* `token` and `cookie` are what the request carries, `for` whom it logs in or
\* which company it steps into, `account` whose session a refresh has found.
\* What the properties look at: `made` is the company the call was made for,
\* `ran` how often its endpoint has run, `live` whether the session it asked to
\* refresh was good when it asked.
Call == [op : Ops, pc : Steps, token : AccessToken \cup {None},
         cookie : Keys \cup {None}, for : Users \cup {None},
         account : Users \cup {None}, retried : BOOLEAN,
         answer : Answers, got : AccessToken \cup {None},
         made : Users \cup {None}, ran : 0 .. 2, live : BOOLEAN]

NoCall == [op |-> "none", pc |-> "idle", token |-> None, cookie |-> None,
           for |-> None, account |-> None, retried |-> FALSE,
           answer |-> "none", got |-> None,
           made |-> None, ran |-> 0, live |-> FALSE]

Logout == [cookie : Keys \cup {None}, answered : BOOLEAN]

Idle(c) == calls[c].pc = "idle"
At(c, step) == calls[c].pc = step
Goto(c, step) == calls' = [calls EXCEPT ![c].pc = step]
Done(c) == calls' = [calls EXCEPT ![c] = NoCall]

TypeOK ==
    /\ accounts \in SUBSET Users
    /\ deleting \in SUBSET Users
    /\ sessions \in [Keys -> Session \cup {None}]
    /\ era \in Eras
    /\ token \in AccessToken \cup {None}
    /\ parked \in AccessToken \cup {None}
    /\ cookie \in Keys \cup {None}
    /\ calls \in [Calls -> Call]
    /\ logouts \in SUBSET Logout

Init ==
    /\ accounts = Users
    /\ deleting = {}
    /\ sessions = [k \in Keys |-> None]
    /\ era = 0
    /\ token = None
    /\ parked = None
    /\ cookie = None
    /\ calls = [c \in Calls |-> NoCall]
    /\ logouts = {}

Signed(user, company) == [user |-> user, company |-> company, minted |-> era]

\* jwt.verify: the role travels in the token, the account is not looked at.
Accepted(access) == access # None /\ access.minted = era

Valid(k) == k # None /\ sessions[k] # None /\ sessions[k].valid

\* A refresh token is drawn once (randomUUID).
FreeKeys == {k \in Keys : sessions[k] = None}

-----------------------------------------------------------------------------
(* The server. *)

\* The answer replaces what the request carried.
Answer(call, step, answer, got) ==
    [call EXCEPT !.pc = step, !.answer = answer, !.got = got,
                 !.token = None, !.cookie = None, !.account = None]

Answered(c, step, answer, got) ==
    calls' = [calls EXCEPT ![c] = Answer(@, step, answer, got)]

\* authenticate, then the endpoint, which may refuse for reasons of its own.
ServeApi(c) ==
    /\ At(c, "sent")
    /\ calls[c].op = "api"
    /\ IF Accepted(calls[c].token)
       THEN \E answer \in {"ok", "refused"} :
              calls' = [calls EXCEPT
                    ![c] = Answer([calls[c] EXCEPT !.ran = @ + 1], "answered", answer, None)]
       ELSE Answered(c, "answered", "unauthorized", None)
    /\ UNCHANGED <<server, tab, logouts>>

\* authenticate, requireRole("PLATFORM_ADMIN"), impersonateCompanyServ.
ServeImpersonate(c) ==
    /\ At(c, "sent")
    /\ calls[c].op = "impersonate"
    /\ IF ~Accepted(calls[c].token)
       THEN Answered(c, "answered", "unauthorized", None)
       ELSE IF calls[c].token.user \notin Admins
       THEN Answered(c, "answered", "refused", None)
       ELSE Answered(c, "answered", "ok", Signed(calls[c].token.user, calls[c].for))
    /\ UNCHANGED <<server, tab, logouts>>

\* authUserService: getUserByEmail and the password, right or wrong.  The keys
\* bound how many passwords are right.
CheckPassword(c) ==
    /\ At(c, "sent")
    /\ calls[c].op = "login"
    /\ \/ /\ calls[c].for \in accounts
          /\ Cardinality({x \in Calls : At(x, "checked")}) < Cardinality(FreeKeys)
          /\ Goto(c, "checked")
       \/ Answered(c, "answered", "unauthorized", None)
    /\ UNCHANGED <<server, tab, logouts>>

\* createRefreshTokenInDB: its foreign key fails when the account has gone.
InsertSession(c) ==
    /\ At(c, "checked")
    /\ IF calls[c].for \in accounts
       THEN \E k \in FreeKeys :
              /\ sessions' = [sessions EXCEPT ![k] = [user |-> calls[c].for, valid |-> TRUE]]
              /\ calls' = [calls EXCEPT
                    ![c] = [@ EXCEPT !.pc = "answered", !.answer = "ok", !.cookie = k,
                                     !.got = Signed(calls[c].for, calls[c].for)]]
       ELSE /\ Answered(c, "answered", "refused", None)
            /\ UNCHANGED sessions
    /\ UNCHANGED <<accounts, deleting, era, tab, logouts>>

\* A slip: the refresh trusts the token's signature, and looks up no row.
FindAnySession(c) ==
    /\ At(c, "refresh_sent")
    /\ IF calls[c].cookie # None /\ sessions[calls[c].cookie] # None
       THEN calls' = [calls EXCEPT ![c].pc = "refresh_found",
                                   ![c].account = sessions[calls[c].cookie].user]
       ELSE Answered(c, "refresh_answered", "unauthorized", None)
    /\ UNCHANGED <<server, tab, logouts>>

\* refreshAccessTokenServ, up to getValidRefreshTokenFromDB ...
FindSession(c) ==
    /\ At(c, "refresh_sent")
    /\ IF Valid(calls[c].cookie)
       THEN calls' = [calls EXCEPT ![c].pc = "refresh_found",
                                   ![c].account = sessions[calls[c].cookie].user]
       ELSE Answered(c, "refresh_answered", "unauthorized", None)
    /\ UNCHANGED <<server, tab, logouts>>

\* ... and from getActiveUserByIdFromDB on: for the account's own company.
MintAccessToken(c) ==
    /\ At(c, "refresh_found")
    /\ LET user == calls[c].account
       IN  IF user \in accounts
           THEN Answered(c, "refresh_answered", "ok", Signed(user, user))
           ELSE Answered(c, "refresh_answered", "unauthorized", None)
    /\ UNCHANGED <<server, tab, logouts>>

\* logoutServ, for the cookie as it was when the tab logged out.
ServeLogout(l) ==
    /\ l \in logouts
    /\ ~l.answered
    /\ sessions' = IF Valid(l.cookie)
                   THEN [sessions EXCEPT ![l.cookie].valid = FALSE] ELSE sessions
    /\ logouts' = (logouts \ {l}) \cup {[l EXCEPT !.answered = TRUE]}
    /\ UNCHANGED <<accounts, deleting, era, tab, calls>>

Revoked(u) == [k \in Keys |-> IF sessions[k] # None /\ sessions[k].user = u
                             THEN [sessions[k] EXCEPT !.valid = FALSE] ELSE sessions[k]]

\* deleteUserService, asked for elsewhere: the sessions are revoked ...
RevokeAllSessions(u) ==
    /\ u \in accounts
    /\ deleting' = deleting \cup {u}
    /\ sessions' = Revoked(u)
    /\ UNCHANGED <<accounts, era, tab, calls, logouts>>

\* ... then the account goes, and its sessions with it: here, as if revoked.
DeleteAccount(u) ==
    /\ u \in deleting
    /\ accounts' = accounts \ {u}
    /\ deleting' = deleting \ {u}
    /\ sessions' = Revoked(u)
    /\ UNCHANGED <<era, tab, calls, logouts>>

\* Five hours pass: the access tokens signed so far are no longer accepted.
AccessTokensExpire ==
    /\ era < LastEra
    /\ era' = era + 1
    /\ UNCHANGED <<accounts, deleting, sessions, tab, calls, logouts>>

\* Seven days pass, or an operator revokes it.
SessionLapses(k) ==
    /\ Valid(k)
    /\ sessions' = [sessions EXCEPT ![k].valid = FALSE]
    /\ UNCHANGED <<accounts, deleting, era, tab, calls, logouts>>

-----------------------------------------------------------------------------
(* The tab: what the user clicks. *)

Start(c, call) ==
    /\ Idle(c)
    /\ calls' = [calls EXCEPT ![c] = call]
    /\ UNCHANGED <<server, tab, logouts>>

HasTime == Hasty \/ \A c \in Calls : Idle(c)

StartApi(c) ==
    /\ token # None
    /\ Start(c, [NoCall EXCEPT !.op = "api", !.pc = "sent", !.token = token,
                               !.made = token.company])

\* The company list is there for a PLATFORM_ADMIN, impersonating or not.
StartImpersonate(c, company) ==
    /\ HasTime
    /\ token # None
    /\ token.user \in Admins
    /\ token.user # company
    /\ Start(c, [NoCall EXCEPT !.op = "impersonate", !.pc = "sent", !.token = token,
                               !.for = company])

StartLogin(c, user) ==
    /\ token = None
    /\ Start(c, [NoCall EXCEPT !.op = "login", !.pc = "sent", !.for = user])

\* AuthService.logout: the tab forgets its tokens and sends the cookie away.
ForgetTokens ==
    /\ token' = None
    /\ parked' = None
    /\ logouts' = IF Cardinality(logouts) < MaxLogouts
                  THEN logouts \cup {[cookie |-> cookie, answered |-> FALSE]} ELSE logouts
    /\ UNCHANGED cookie

LogOut ==
    /\ token # None
    /\ ForgetTokens
    /\ UNCHANGED <<server, calls>>

ReturnToPlatformView ==
    /\ parked # None
    /\ token' = parked
    /\ parked' = None
    /\ UNCHANGED <<server, cookie, calls, logouts>>

-----------------------------------------------------------------------------
(* The tab: what it does with an answer. *)

IsAuthEndpoint(c) == calls[c].op = "login"
RefreshInProgress == \E c \in Calls : calls[c].pc \in RefreshSteps
Retry(c, access) ==
    [calls[c] EXCEPT !.pc = "sent", !.token = access, !.retried = TRUE,
                     !.answer = "none", !.got = None, !.live = FALSE]

\* The answer goes to whoever made the call; the session stays as it is.
PassOn(c) ==
    /\ At(c, "answered")
    /\ \/ calls[c].answer = "ok" /\ calls[c].op = "api"
       \/ calls[c].answer = "refused" /\ ~calls[c].retried
    /\ Done(c)
    /\ UNCHANGED <<server, tab, logouts>>

\* login: the token, and the cookie the answer sets.
LoggedIn(c) ==
    /\ At(c, "answered")
    /\ calls[c].op = "login"
    /\ calls[c].answer = "ok"
    /\ token' = calls[c].got
    /\ cookie' = calls[c].cookie
    /\ Done(c)
    /\ UNCHANGED <<server, parked, logouts>>

\* impersonateCompany: the first switch parks the token it replaces.
Impersonated(c) ==
    /\ At(c, "answered")
    /\ calls[c].op = "impersonate"
    /\ calls[c].answer = "ok"
    /\ parked' = IF parked = None THEN token ELSE parked
    /\ token' = calls[c].got
    /\ Done(c)
    /\ UNCHANGED <<server, cookie, logouts>>

\* A slip: any error is taken for an expired token.
RefreshOnAnyError(c) ==
    /\ At(c, "answered")
    /\ calls[c].answer \in {"unauthorized", "refused"}
    /\ ~IsAuthEndpoint(c) /\ ~calls[c].retried
    /\ calls' = IF RefreshInProgress
                THEN [calls EXCEPT ![c].pc = "waiting", ![c].answer = "none"]
                ELSE [calls EXCEPT ![c].pc = "refresh_sent", ![c].cookie = cookie,
                                   ![c].answer = "none",
                                   ![c].live = Valid(cookie) /\ sessions[cookie].user \in accounts]
    /\ UNCHANGED <<server, tab, logouts>>

\* A 401 asks for a new access token, or waits for the one on its way.
Refresh(c) ==
    /\ At(c, "answered")
    /\ calls[c].answer = "unauthorized"
    /\ ~IsAuthEndpoint(c) /\ ~calls[c].retried
    /\ calls' = IF RefreshInProgress
                THEN [calls EXCEPT ![c].pc = "waiting", ![c].answer = "none"]
                ELSE [calls EXCEPT ![c].pc = "refresh_sent", ![c].cookie = cookie,
                                   ![c].answer = "none",
                                   ![c].live = Valid(cookie) /\ sessions[cookie].user \in accounts]
    /\ UNCHANGED <<server, tab, logouts>>

\* refreshAccessToken's answer reaches every call that waits, in one turn.
Refreshed(c) ==
    /\ At(c, "refresh_answered")
    /\ calls[c].answer = "ok"
    /\ token' = calls[c].got
    /\ calls' = [x \in Calls |-> IF x = c \/ At(x, "waiting")
                                 THEN Retry(x, calls[c].got) ELSE calls[x]]
    /\ UNCHANGED <<server, parked, cookie, logouts>>

\* A slip: the calls that wait for the refresh are not told that it failed.
RefreshFailedForOne(c) ==
    /\ At(c, "refresh_answered")
    /\ calls[c].answer # "ok"
    /\ ForgetTokens
    /\ Done(c)
    /\ UNCHANGED server

\* Whatever made the refresh fail, the tab logs out and every such call fails.
RefreshFailed(c) ==
    /\ At(c, "refresh_answered")
    /\ calls[c].answer # "ok"
    /\ ForgetTokens
    /\ calls' = [x \in Calls |-> IF x = c \/ At(x, "waiting") THEN NoCall ELSE calls[x]]
    /\ UNCHANGED server

\* A wrong password, or any error of a call sent again, logs out as well.
GiveUp(c) ==
    /\ At(c, "answered")
    /\ \/ IsAuthEndpoint(c) /\ calls[c].answer = "unauthorized"
       \/ calls[c].retried /\ calls[c].answer # "ok"
    /\ ForgetTokens
    /\ Done(c)
    /\ UNCHANGED server

\* The answer to a log-out clears the cookie, whichever it is by then.
LoggedOut(l) ==
    /\ l \in logouts
    /\ l.answered
    /\ cookie' = None
    /\ logouts' = logouts \ {l}
    /\ UNCHANGED <<server, token, parked, calls>>

-----------------------------------------------------------------------------
(* The network, or a statement of the server, fails: what was done stays.  *)

CallFails(c) ==
    /\ calls[c].pc \in {"sent", "checked", "answered"} \cup RefreshSteps
    /\ calls[c].answer # "refused"
    /\ Answered(c, IF calls[c].pc \in RefreshSteps THEN "refresh_answered" ELSE "answered",
                "refused", None)
    /\ UNCHANGED <<server, tab, logouts>>

LogoutFails(l) ==
    /\ l \in logouts
    /\ logouts' = logouts \ {l}
    /\ UNCHANGED <<server, tab, calls>>

-----------------------------------------------------------------------------
Click(c) ==
    \/ StartApi(c)
    \/ \E company \in Users : StartImpersonate(c, company)
    \/ \E user \in Visitors : StartLogin(c, user)

Serve(c) ==
    \/ ServeApi(c) \/ ServeImpersonate(c) \/ CheckPassword(c) \/ InsertSession(c)
    \/ FindSession(c) \/ MintAccessToken(c)

Deliver(c) ==
    \/ PassOn(c) \/ LoggedIn(c) \/ Impersonated(c)
    \/ Refresh(c) \/ Refreshed(c) \/ RefreshFailed(c) \/ GiveUp(c)

Outside ==
    \/ \E u \in Visitors : RevokeAllSessions(u) \/ DeleteAccount(u)
    \/ \E k \in Keys : SessionLapses(k)
    \/ AccessTokensExpire

Next ==
    \/ \E c \in Calls : Click(c) \/ Serve(c) \/ Deliver(c) \/ CallFails(c)
    \/ \E l \in logouts : ServeLogout(l) \/ LoggedOut(l) \/ LogoutFails(l)
    \/ LogOut
    \/ ReturnToPlatformView
    \/ Outside

Spec == Init /\ [][Next]_vars

\* The event loops of server and tab run what is ready.
FairSpec == Spec /\ \A c \in Calls : WF_vars(Serve(c) \/ Deliver(c))

-----------------------------------------------------------------------------
(* What sessions promise. *)

\* A refresh asked for with a session that was revoked by then, by a log-out or with
\* its account, gives nothing (refreshAccessTokenServ).  One that is looked up before
\* the session ends, and answered after, still gives its token: the row is read once,
\* and what is read again is the account.
RefreshedOnlyWhenLive ==
    \A c \in Calls : At(c, "refresh_answered") /\ calls[c].answer = "ok" => calls[c].live

\* No session outlives its account, though a log-in may be under way, past its
\* password, while the account is deleted (005_cascade_user_deletion.sql).
DeletedAccountHasNoSession ==
    \A k \in Keys : Valid(k) => sessions[k].user \in accounts

\* Log-out and the deletion of an account end its sessions for every refresh asked
\* for afterwards, and for every log-in that was under way, past its password.
EndedSessionsStayEnded == TypeOK /\ RefreshedOnlyWhenLive /\ DeletedAccountHasNoSession

\* However many calls get a 401, one refresh at a time is on its way ("they all
\* await this same in-flight request").
OneRefreshAtATime == Cardinality({c \in Calls : calls[c].pc \in RefreshSteps}) <= 1

\* Sending a call again never runs its endpoint a second time.
NothingRunsTwice == \A c \in Calls : calls[c].ran <= 1

\* Calls that get a 401 share one refresh, and no endpoint runs again for it.
RefreshedOnceRunOnce == OneRefreshAtATime /\ NothingRunsTwice

\* Every call comes to an end: none waits for a refresh that is not coming.
CallsSettle == \A c \in Calls : ~Idle(c) ~> Idle(c)

\* A call runs for the company it was made for: when a borrowed token expires,
\* the tab does not fall back to the admin's own company (zz_docs/Decisions.md:
\* "avoids a silent, unnoticed drop back to the platform admin's own company").
RunsForTheCompanyShown ==
    \A c \in Calls : At(c, "sent") /\ calls[c].op = "api"
                         => calls[c].token.company = calls[c].made
=============================================================================
