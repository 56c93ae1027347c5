--------------------------- MODULE SessionsProofs ---------------------------
(* Proofs about Sessions, for any number of accounts, keys and calls. *)
EXTENDS Sessions, FiniteSetTheorems, TLAPS

(***************************************************************************)
(* The inductive invariant.  That a refresh gives nothing to an ended      *)
(* session needs that a key is drawn once: the one a refresh carries has a *)
(* row, so no later log-in can make it good again.  That no endpoint runs  *)
(* twice needs that who has run is never told "unauthorized", for only     *)
(* such a call is sent again.                                              *)
(***************************************************************************)
Drawn(k) == k # None => sessions[k] # None

Fits(call) ==
    /\ call.op = "impersonate" => call.for \in Users
    /\ Drawn(call.cookie)
    /\ call.pc = "refresh_sent" /\ Valid(call.cookie) => call.live
    /\ call.pc = "refresh_found" => call.live
    /\ call.pc = "refresh_answered" /\ call.answer = "ok" => call.live
    /\ call.ran = 0 \/ (call.ran = 1 /\ call.pc = "answered" /\ call.answer # "unauthorized")

OthersRefresh(c) == \E d \in Calls \ {c} : calls[d].pc \in RefreshSteps

SessionsInv ==
    /\ TypeOK
    /\ DeletedAccountHasNoSession
    /\ Drawn(cookie)
    /\ \A c \in Calls : Fits(calls[c])
    /\ \A c \in Calls : calls[c].pc \in RefreshSteps => ~OthersRefresh(c)

-----------------------------------------------------------------------------
(* What the invariant says of the properties. *)

\* A session that has ended gives nothing to who still asks with it.
LEMMA InvEnds == SessionsInv => EndedSessionsStayEnded
  BY DEF SessionsInv, EndedSessionsStayEnded, RefreshedOnlyWhenLive, Fits, At

\* One refresh under way, and no endpoint run twice.
LEMMA InvOnce ==
  ASSUME SessionsInv
  PROVE  RefreshedOnceRunOnce
<1>1. OneRefreshAtATime
  <2> DEFINE refreshing == {c \in Calls : calls[c].pc \in RefreshSteps}
  <2>1. CASE refreshing = {}
    BY <2>1, FS_EmptySet DEF OneRefreshAtATime
  <2>2. CASE refreshing # {}
    <3>1. PICK c \in Calls : calls[c].pc \in RefreshSteps
      BY <2>2
    <3>2. refreshing = {c}
      BY <3>1 DEF SessionsInv, OthersRefresh
    <3>3. Cardinality(refreshing) = 1
      BY <3>2, FS_Singleton
    <3> QED BY <3>3 DEF OneRefreshAtATime
  <2> QED BY <2>1, <2>2
<1>2. NothingRunsTwice
  BY DEF SessionsInv, Fits, NothingRunsTwice
<1> QED BY <1>1, <1>2 DEF RefreshedOnceRunOnce

-----------------------------------------------------------------------------
LEMMA InitInv ==
  ASSUME Init
  PROVE  SessionsInv
<1>1. NoCall \in Call
  BY DEF NoCall, Call, Ops, Steps, Answers
<1>2. TypeOK
  BY <1>1, SessionsAssumption DEF Init, TypeOK, Eras
<1>3. DeletedAccountHasNoSession /\ Drawn(cookie)
  BY DEF Init, DeletedAccountHasNoSession, Valid, Drawn
<1>4. \A c \in Calls : calls[c] = NoCall
  BY DEF Init
<1>5. \A c \in Calls : Fits(calls[c])
  BY <1>4 DEF Fits, NoCall, Drawn, Valid
<1>6. \A c \in Calls : calls[c].pc \notin RefreshSteps
  BY <1>4 DEF NoCall, RefreshSteps
<1> QED BY <1>2, <1>3, <1>5, <1>6 DEF SessionsInv

-----------------------------------------------------------------------------
(* The two kinds of steps: of one call, and on the sessions.               *)

\* A step that gives one call a new record, and perhaps the tab new tokens.
LEMMA OneCall ==
  ASSUME SessionsInv, NEW c \in Calls, NEW new \in Call,
         calls' = [calls EXCEPT ![c] = new], UNCHANGED server,
         token' \in AccessToken \cup {None}, parked' \in AccessToken \cup {None},
         cookie' \in Keys \cup {None}, Drawn(cookie'), logouts' \in SUBSET Logout,
         Fits(new), new.pc \in RefreshSteps => ~OthersRefresh(c)
  PROVE  SessionsInv'
<1>1. calls \in [Calls -> Call]
  BY DEF SessionsInv, TypeOK
<1>2. calls'[c] = new /\ \A d \in Calls : d # c => calls'[d] = calls[d]
  BY <1>1
<1>3. sessions' = sessions /\ accounts' = accounts /\ deleting' = deleting /\ era' = era
  BY DEF server
<1>4. TypeOK'
  <2>1. calls' \in [Calls -> Call]
    BY <1>1
  <2> QED BY <1>3, <2>1 DEF SessionsInv, TypeOK
<1>5. DeletedAccountHasNoSession'
  BY <1>3 DEF SessionsInv, DeletedAccountHasNoSession, Valid
<1>6. Drawn(cookie)'
  BY <1>3 DEF Drawn
<1>7. \A d \in Calls : Fits(calls[d])'
  BY <1>2, <1>3 DEF SessionsInv, Fits, Drawn, Valid
<1>8. ASSUME NEW d \in Calls, calls'[d].pc \in RefreshSteps
      PROVE  ~OthersRefresh(d)'
  BY <1>2, <1>8 DEF SessionsInv, OthersRefresh
<1> QED BY <1>4, <1>5, <1>6, <1>7, <1>8 DEF SessionsInv

\* A step that ends sessions, or deletes accounts that have none.
LEMMA SessionsEnd ==
  ASSUME SessionsInv, UNCHANGED <<era, tab, calls>>, logouts' \in SUBSET Logout,
         accounts' \in SUBSET Users, deleting' \in SUBSET Users,
         sessions' \in [Keys -> Session \cup {None}],
         \A k \in Keys : sessions[k] # None => sessions'[k] # None,
         \A k \in Keys : sessions'[k] # None /\ sessions'[k].valid =>
              /\ sessions[k] # None /\ sessions[k].valid
              /\ sessions'[k].user \in accounts'
  PROVE  SessionsInv'
<1>1. calls' = calls /\ cookie' = cookie /\ token' = token /\ parked' = parked /\ era' = era
  BY DEF tab
<1>2. TypeOK'
  BY <1>1 DEF SessionsInv, TypeOK
<1>3. DeletedAccountHasNoSession'
  BY DEF DeletedAccountHasNoSession, Valid
<1>4. Drawn(cookie)'
  BY <1>1 DEF SessionsInv, TypeOK, Drawn
<1>5. ASSUME NEW c \in Calls
      PROVE  Fits(calls[c])'
  <2>1. calls[c].cookie \in Keys \cup {None} /\ Fits(calls[c])
    BY DEF SessionsInv, TypeOK, Call
  <2>2. Valid(calls[c].cookie)' => Valid(calls[c].cookie)
    BY <1>1, <2>1 DEF Valid
  <2>3. Drawn(calls[c].cookie)'
    BY <1>1, <2>1 DEF Fits, Drawn
  <2> QED BY <1>1, <2>1, <2>2, <2>3 DEF Fits
<1>6. \A c \in Calls : calls'[c].pc \in RefreshSteps => ~OthersRefresh(c)'
  BY <1>1 DEF SessionsInv, OthersRefresh
<1> QED BY <1>2, <1>3, <1>4, <1>5, <1>6 DEF SessionsInv

\* A step of one call that leaves the tab's tokens as they are.
LEMMA OneCallOnly ==
  ASSUME SessionsInv, NEW c \in Calls, NEW new \in Call,
         calls' = [calls EXCEPT ![c] = new], UNCHANGED <<server, tab, logouts>>,
         Fits(new), new.pc \in RefreshSteps => ~OthersRefresh(c)
  PROVE  SessionsInv'
<1>1. UNCHANGED <<token, parked, cookie, logouts>> /\ UNCHANGED server
  BY DEF tab
<1>2. /\ token' \in AccessToken \cup {None} /\ parked' \in AccessToken \cup {None}
      /\ cookie' \in Keys \cup {None} /\ logouts' \in SUBSET Logout
  BY <1>1 DEF SessionsInv, TypeOK
<1>3. Drawn(cookie')
  BY <1>1 DEF SessionsInv, Drawn
<1> QED BY <1>1, <1>2, <1>3, OneCall

LEMMA NoCallFits == NoCall \in Call /\ Fits(NoCall) /\ NoCall.pc \notin RefreshSteps
<1>1. NoCall \in Call
  BY DEF NoCall, Call, Ops, Steps, Answers
<1>2. Fits(NoCall)
  BY DEF Fits, NoCall, Drawn, Valid
<1> QED BY <1>1, <1>2 DEF NoCall, RefreshSteps

\* What is answered carries no cookie any more; a call that runs for the second
\* time would be one whose first run was answered.
LEMMA AnswerFits ==
  ASSUME NEW call \in Call, NEW step \in Steps, NEW answer \in Answers,
         NEW got \in AccessToken \cup {None}, Fits(call),
         step \in {"answered", "refresh_answered"},
         step = "refresh_answered" /\ answer = "ok" => call.live,
         call.ran = 0 \/ (call.pc = "answered" /\ step = "answered" /\ answer = "refused")
  PROVE  /\ Answer(call, step, answer, got) \in Call
         /\ Fits(Answer(call, step, answer, got))
         /\ Answer(call, step, answer, got).pc = step
<1> DEFINE new == Answer(call, step, answer, got)
<1>1. new \in Call
  BY DEF Answer, Call
<1>2. /\ new.pc = step /\ new.answer = answer /\ new.cookie = None /\ new.ran = call.ran
      /\ new.live = call.live /\ new.op = call.op /\ new.for = call.for
  BY DEF Answer, Call
<1>3. Fits(new)
  BY <1>2 DEF Fits, Drawn, Valid
<1> QED BY <1>1, <1>2, <1>3

-----------------------------------------------------------------------------
(* The actions. *)

\* A click starts a call that has no cookie and has run nothing.
LEMMA ClickKeeps ==
  ASSUME SessionsInv, NEW c \in Calls, Click(c)
  PROVE  SessionsInv'
<1>1. token \in AccessToken \cup {None}
  BY DEF SessionsInv, TypeOK
<1>2. CASE StartApi(c)
  <2> DEFINE new == [NoCall EXCEPT !.op = "api", !.pc = "sent", !.token = token,
                                   !.made = token.company]
  <2>1. new \in Call
    BY <1>1, <1>2, NoCallFits DEF StartApi, Call, AccessToken, Ops, Steps
  <2>2. Fits(new) /\ new.pc \notin RefreshSteps
    BY DEF NoCall, Fits, Drawn, Valid, RefreshSteps
  <2>3. calls' = [calls EXCEPT ![c] = new] /\ UNCHANGED <<server, tab, logouts>>
    BY <1>2 DEF StartApi, Start
  <2> QED BY <2>1, <2>2, <2>3, OneCallOnly
<1>3. ASSUME NEW company \in Users, StartImpersonate(c, company)
      PROVE  SessionsInv'
  <2> DEFINE new == [NoCall EXCEPT !.op = "impersonate", !.pc = "sent", !.token = token,
                                   !.for = company]
  <2>1. new \in Call
    BY <1>1, NoCallFits DEF Call, Ops, Steps
  <2>2. Fits(new) /\ new.pc \notin RefreshSteps
    BY DEF NoCall, Fits, Drawn, Valid, RefreshSteps
  <2>3. calls' = [calls EXCEPT ![c] = new] /\ UNCHANGED <<server, tab, logouts>>
    BY <1>3 DEF StartImpersonate, Start
  <2> QED BY <2>1, <2>2, <2>3, OneCallOnly
<1>4. ASSUME NEW user \in Visitors, StartLogin(c, user)
      PROVE  SessionsInv'
  <2> DEFINE new == [NoCall EXCEPT !.op = "login", !.pc = "sent", !.for = user]
  <2>1. new \in Call
    BY NoCallFits, SessionsAssumption DEF Call, Ops, Steps
  <2>2. Fits(new) /\ new.pc \notin RefreshSteps
    BY DEF NoCall, Fits, Drawn, Valid, RefreshSteps
  <2>3. calls' = [calls EXCEPT ![c] = new] /\ UNCHANGED <<server, tab, logouts>>
    BY <1>4 DEF StartLogin, Start
  <2> QED BY <2>1, <2>2, <2>3, OneCallOnly
<1> QED BY <1>2, <1>3, <1>4 DEF Click

\* authenticate, then the endpoint: who runs it is never told to refresh.
LEMMA ServeApiKeeps ==
  ASSUME SessionsInv, NEW c \in Calls, ServeApi(c)
  PROVE  SessionsInv'
<1>1. calls[c] \in Call /\ Fits(calls[c]) /\ calls[c].pc = "sent"
  BY DEF SessionsInv, TypeOK, ServeApi, At
<1>2. calls[c].ran = 0
  BY <1>1 DEF Fits
<1>3. CASE Accepted(calls[c].token)
  <2>1. PICK answer \in {"ok", "refused"} :
          calls' = [calls EXCEPT ![c] = Answer([calls[c] EXCEPT !.ran = @ + 1], "answered", answer, None)]
    BY <1>3 DEF ServeApi
  <2> DEFINE new == Answer([calls[c] EXCEPT !.ran = @ + 1], "answered", answer, None)
  <2>2. new \in Call
    <3>1. [calls[c] EXCEPT !.ran = @ + 1] \in Call
      BY <1>1, <1>2 DEF Call
    <3> QED BY <3>1 DEF Answer, Call, Steps, Answers
  <2>3. /\ new.pc = "answered" /\ new.answer = answer /\ new.cookie = None /\ new.ran = 1
        /\ new.op = calls[c].op /\ new.for = calls[c].for
    BY <1>1, <1>2 DEF Answer, Call
  <2>4. Fits(new) /\ new.pc \notin RefreshSteps
    BY <1>1, <2>3 DEF Fits, Drawn, Valid, RefreshSteps
  <2>5. UNCHANGED <<server, tab, logouts>>
    BY DEF ServeApi
  <2> QED BY <2>1, <2>2, <2>4, <2>5, OneCallOnly
<1>4. CASE ~Accepted(calls[c].token)
  <2> DEFINE new == Answer(calls[c], "answered", "unauthorized", None)
  <2>1. new \in Call /\ Fits(new) /\ new.pc \notin RefreshSteps
    BY <1>1, <1>2, AnswerFits DEF Steps, Answers, RefreshSteps
  <2>2. calls' = [calls EXCEPT ![c] = new] /\ UNCHANGED <<server, tab, logouts>>
    BY <1>4 DEF ServeApi, Answered
  <2> QED BY <2>1, <2>2, OneCallOnly
<1> QED BY <1>3, <1>4

\* An impersonation is signed for a company there is.
LEMMA ServeImpersonateKeeps ==
  ASSUME SessionsInv, NEW c \in Calls, ServeImpersonate(c)
  PROVE  SessionsInv'
<1>1. calls[c] \in Call /\ Fits(calls[c]) /\ calls[c].pc = "sent" /\ calls[c].op = "impersonate"
  BY DEF SessionsInv, TypeOK, ServeImpersonate, At
<1>2. calls[c].ran = 0 /\ calls[c].for \in Users
  BY <1>1 DEF Fits
<1>3. PICK answer \in {"ok", "refused", "unauthorized"}, got \in AccessToken \cup {None} :
        calls' = [calls EXCEPT ![c] = Answer(calls[c], "answered", answer, got)]
  <2>1. CASE ~Accepted(calls[c].token) \/ calls[c].token.user \notin Admins
    BY <2>1 DEF ServeImpersonate, Answered
  <2>2. CASE Accepted(calls[c].token) /\ calls[c].token.user \in Admins
    <3>1. calls[c].token \in AccessToken
      BY <1>1, <2>2 DEF Call, Accepted
    <3>2. Signed(calls[c].token.user, calls[c].for) \in AccessToken
      BY <1>2, <3>1 DEF Signed, AccessToken, SessionsInv, TypeOK
    <3> QED BY <2>2, <3>2 DEF ServeImpersonate, Answered
  <2> QED BY <2>1, <2>2
<1> DEFINE new == Answer(calls[c], "answered", answer, got)
<1>4. new \in Call /\ Fits(new) /\ new.pc \notin RefreshSteps
  BY <1>1, <1>2, AnswerFits DEF Steps, Answers, RefreshSteps
<1>5. UNCHANGED <<server, tab, logouts>>
  BY DEF ServeImpersonate
<1> QED BY <1>3, <1>4, <1>5, OneCallOnly

\* A password is right or wrong.
LEMMA CheckPasswordKeeps ==
  ASSUME SessionsInv, NEW c \in Calls, CheckPassword(c)
  PROVE  SessionsInv'
<1>1. calls[c] \in Call /\ Fits(calls[c]) /\ calls[c].pc = "sent"
  BY DEF SessionsInv, TypeOK, CheckPassword, At
<1>2. calls[c].ran = 0
  BY <1>1 DEF Fits
<1>3. UNCHANGED <<server, tab, logouts>>
  BY DEF CheckPassword
<1>4. CASE Goto(c, "checked")
  <2> DEFINE new == [calls[c] EXCEPT !.pc = "checked"]
  <2>1. new \in Call
    BY <1>1 DEF Call, Steps
  <2>2. Fits(new) /\ new.pc \notin RefreshSteps
    BY <1>1, <1>2 DEF Call, Fits, RefreshSteps
  <2>3. calls' = [calls EXCEPT ![c] = new]
    BY <1>4 DEF Goto
  <2> QED BY <1>3, <2>1, <2>2, <2>3, OneCallOnly
<1>5. CASE Answered(c, "answered", "unauthorized", None)
  <2> DEFINE new == Answer(calls[c], "answered", "unauthorized", None)
  <2>1. new \in Call /\ Fits(new) /\ new.pc \notin RefreshSteps
    BY <1>1, <1>2, AnswerFits DEF Steps, Answers, RefreshSteps
  <2>2. calls' = [calls EXCEPT ![c] = new]
    BY <1>5 DEF Answered
  <2> QED BY <1>3, <2>1, <2>2, OneCallOnly
<1> QED BY <1>4, <1>5 DEF CheckPassword

\* A log-in draws a key nobody has, and for an account there is.
LEMMA InsertSessionKeeps ==
  ASSUME SessionsInv, NEW c \in Calls, InsertSession(c)
  PROVE  SessionsInv'
<1>1. calls[c] \in Call /\ Fits(calls[c]) /\ calls[c].pc = "checked"
  BY DEF SessionsInv, TypeOK, InsertSession, At
<1>2. calls[c].ran = 0
  BY <1>1 DEF Fits
<1>3. CASE calls[c].for \notin accounts
  <2> DEFINE new == Answer(calls[c], "answered", "refused", None)
  <2>1. new \in Call /\ Fits(new) /\ new.pc \notin RefreshSteps
    BY <1>1, <1>2, AnswerFits DEF Steps, Answers, RefreshSteps
  <2>2. Answered(c, "answered", "refused", None) /\ UNCHANGED sessions
    BY <1>3 DEF InsertSession
  <2>3. UNCHANGED <<server, tab, logouts>>
    BY <2>2 DEF InsertSession, server
  <2> QED BY <2>1, <2>2, <2>3, OneCallOnly DEF Answered
<1>4. CASE calls[c].for \in accounts
  <2> DEFINE row == [user |-> calls[c].for, valid |-> TRUE]
  <2>1. PICK k \in FreeKeys :
          /\ sessions' = [sessions EXCEPT ![k] = row]
          /\ calls' = [calls EXCEPT
               ![c] = [calls[c] EXCEPT !.pc = "answered", !.answer = "ok", !.cookie = k,
                                       !.got = Signed(calls[c].for, calls[c].for)]]
    BY <1>4 DEF InsertSession
  <2>2. UNCHANGED <<accounts, deleting, era, tab, logouts>>
    BY DEF InsertSession
  <2>3. k \in Keys /\ sessions[k] = None
    BY DEF FreeKeys
  <2>4. calls[c].for \in Users /\ accounts \in SUBSET Users
    BY <1>4 DEF SessionsInv, TypeOK
  <2>5. row \in Session /\ row # None
    <3>1. None \notin Session
      BY SessionsAssumption, Zenon DEF Session
    <3>2. row \in Session
      BY <2>4 DEF Session
    <3> QED BY <3>1, <3>2
  <2>6. /\ sessions' \in [Keys -> Session \cup {None}] /\ sessions'[k] = row
        /\ \A j \in Keys : j # k => sessions'[j] = sessions[j]
    BY <2>1, <2>3, <2>5 DEF SessionsInv, TypeOK
  <2> DEFINE new == [calls[c] EXCEPT !.pc = "answered", !.answer = "ok",
                       !.cookie = k, !.got = Signed(calls[c].for, calls[c].for)]
  <2>7. calls \in [Calls -> Call] /\ calls' = [calls EXCEPT ![c] = new]
    BY <2>1 DEF SessionsInv, TypeOK
  <2>8. new \in Call
    <3>1. Signed(calls[c].for, calls[c].for) \in AccessToken
      BY <2>4 DEF Signed, AccessToken, SessionsInv, TypeOK
    <3> QED BY <1>1, <2>3, <3>1 DEF Call, Steps, Answers
  <2>9. /\ new.pc = "answered" /\ new.cookie = k /\ new.ran = 0
        /\ new.op = calls[c].op /\ new.for = calls[c].for
    BY <1>1, <1>2 DEF Call
  <2>10. calls'[c] = new /\ \A d \in Calls : d # c => calls'[d] = calls[d]
    BY <2>7
  <2>11. TypeOK'
    <3>1. calls' \in [Calls -> Call]
      BY <2>7, <2>8
    <3> QED BY <2>2, <2>6, <3>1 DEF SessionsInv, TypeOK, tab
  <2>12. DeletedAccountHasNoSession'
    <3>1. \A j \in Keys : sessions'[j] # None /\ sessions'[j].valid => sessions'[j].user \in accounts
      BY <1>4, <2>6, SessionsAssumption DEF SessionsInv, DeletedAccountHasNoSession, Valid
    <3> QED BY <2>2, <3>1 DEF DeletedAccountHasNoSession, Valid
  <2>13. \A j \in Keys : sessions[j] # None => sessions'[j] = sessions[j]
    BY <2>3, <2>6
  <2>14. Drawn(cookie)'
    BY <2>2, <2>13 DEF SessionsInv, TypeOK, Drawn, tab
  <2>15. Fits(calls[c])'
    BY <1>1, <2>5, <2>6, <2>9, <2>10 DEF Fits, Drawn
  <2>16. ASSUME NEW d \in Calls, d # c
         PROVE  Fits(calls[d])'
    <3>1. calls'[d] = calls[d] /\ Fits(calls[d]) /\ calls[d].cookie \in Keys \cup {None}
      BY <2>7, <2>10, <2>16 DEF SessionsInv, Call
    <3>2. /\ calls[d].cookie # None => sessions[calls[d].cookie] # None
          /\ calls[d].cookie # None => sessions'[calls[d].cookie] = sessions[calls[d].cookie]
      BY <2>13, <3>1 DEF Fits, Drawn
    <3>3. Valid(calls[d].cookie)' <=> Valid(calls[d].cookie)
      BY <3>1, <3>2 DEF Valid
    <3>4. Drawn(calls[d].cookie)'
      BY <3>1, <3>2 DEF Drawn
    <3> QED BY <3>1, <3>3, <3>4 DEF Fits
  <2>17. \A d \in Calls : Fits(calls[d])'
    BY <2>15, <2>16
  <2>18. \A d \in Calls : calls'[d].pc \in RefreshSteps => ~OthersRefresh(d)'
    BY <2>9, <2>10 DEF SessionsInv, OthersRefresh, RefreshSteps
  <2> QED BY <2>11, <2>12, <2>14, <2>17, <2>18 DEF SessionsInv
<1> QED BY <1>3, <1>4

\* A refresh finds a session only if it was good when the refresh was asked for.
LEMMA FindSessionKeeps ==
  ASSUME SessionsInv, NEW c \in Calls, FindSession(c)
  PROVE  SessionsInv'
<1>1. calls[c] \in Call /\ Fits(calls[c]) /\ calls[c].pc = "refresh_sent"
  BY DEF SessionsInv, TypeOK, FindSession, At
<1>2. calls[c].ran = 0 /\ ~OthersRefresh(c)
  BY <1>1 DEF Fits, SessionsInv, RefreshSteps
<1>3. UNCHANGED <<server, tab, logouts>>
  BY DEF FindSession
<1>4. CASE Valid(calls[c].cookie)
  <2> DEFINE new == [calls[c] EXCEPT !.pc = "refresh_found",
                                     !.account = sessions[calls[c].cookie].user]
  <2>1. sessions[calls[c].cookie] \in Session
    BY <1>1, <1>4 DEF SessionsInv, TypeOK, Valid, Call
  <2>2. new \in Call
    BY <1>1, <2>1 DEF Call, Session, Steps
  <2>3. /\ new.pc = "refresh_found" /\ new.live = calls[c].live /\ new.ran = calls[c].ran
        /\ new.op = calls[c].op /\ new.for = calls[c].for /\ new.cookie = calls[c].cookie
    BY <1>1 DEF Call
  <2>4. Fits(new)
    BY <1>1, <1>2, <1>4, <2>3 DEF Fits
  <2>5. calls' = [calls EXCEPT ![c] = new]
    BY <1>1, <1>4 DEF FindSession, SessionsInv, TypeOK
  <2> QED BY <1>2, <1>3, <2>2, <2>4, <2>5, OneCallOnly
<1>5. CASE ~Valid(calls[c].cookie)
  <2> DEFINE new == Answer(calls[c], "refresh_answered", "unauthorized", None)
  <2>1. new \in Call /\ Fits(new)
    BY <1>1, <1>2, AnswerFits DEF Steps, Answers
  <2>2. calls' = [calls EXCEPT ![c] = new]
    BY <1>5 DEF FindSession, Answered
  <2> QED BY <1>2, <1>3, <2>1, <2>2, OneCallOnly
<1> QED BY <1>4, <1>5

\* What was found is signed, if the account is still there.
LEMMA MintAccessTokenKeeps ==
  ASSUME SessionsInv, NEW c \in Calls, MintAccessToken(c)
  PROVE  SessionsInv'
<1>1. calls[c] \in Call /\ Fits(calls[c]) /\ calls[c].pc = "refresh_found"
  BY DEF SessionsInv, TypeOK, MintAccessToken, At
<1>2. calls[c].ran = 0 /\ calls[c].live /\ ~OthersRefresh(c)
  BY <1>1 DEF Fits, SessionsInv, RefreshSteps
<1>3. PICK answer \in {"ok", "unauthorized"}, got \in AccessToken \cup {None} :
        calls' = [calls EXCEPT ![c] = Answer(calls[c], "refresh_answered", answer, got)]
  <2>1. CASE calls[c].account \in accounts
    <3>1. Signed(calls[c].account, calls[c].account) \in AccessToken
      BY <2>1 DEF Signed, AccessToken, SessionsInv, TypeOK
    <3> QED BY <2>1, <3>1 DEF MintAccessToken, Answered
  <2>2. CASE calls[c].account \notin accounts
    BY <2>2 DEF MintAccessToken, Answered
  <2> QED BY <2>1, <2>2
<1> DEFINE new == Answer(calls[c], "refresh_answered", answer, got)
<1>4. new \in Call /\ Fits(new)
  BY <1>1, <1>2, AnswerFits DEF Steps, Answers
<1>5. UNCHANGED <<server, tab, logouts>>
  BY DEF MintAccessToken
<1> QED BY <1>2, <1>3, <1>4, <1>5, OneCallOnly

\* The tab's tokens and log-outs change, and no call.
LEMMA TabOnly ==
  ASSUME SessionsInv, UNCHANGED <<server, calls>>,
         token' \in AccessToken \cup {None}, parked' \in AccessToken \cup {None},
         cookie' \in Keys \cup {None}, Drawn(cookie'), logouts' \in SUBSET Logout
  PROVE  SessionsInv'
<1>1. /\ calls' = calls /\ sessions' = sessions /\ accounts' = accounts
      /\ deleting' = deleting /\ era' = era
  BY DEF server
<1>2. TypeOK'
  BY <1>1 DEF SessionsInv, TypeOK
<1>3. DeletedAccountHasNoSession' /\ Drawn(cookie)'
  BY <1>1 DEF SessionsInv, DeletedAccountHasNoSession, Valid, Drawn
<1>4. \A c \in Calls : Fits(calls[c])'
  BY <1>1 DEF SessionsInv, Fits, Drawn, Valid
<1>5. \A c \in Calls : calls'[c].pc \in RefreshSteps => ~OthersRefresh(c)'
  BY <1>1 DEF SessionsInv, OthersRefresh
<1> QED BY <1>2, <1>3, <1>4, <1>5 DEF SessionsInv

LEMMA ForgetTokensTypes ==
  ASSUME SessionsInv, ForgetTokens
  PROVE  /\ token' \in AccessToken \cup {None} /\ parked' \in AccessToken \cup {None}
         /\ cookie' \in Keys \cup {None} /\ Drawn(cookie') /\ logouts' \in SUBSET Logout
<1>1. [cookie |-> cookie, answered |-> FALSE] \in Logout
  BY DEF SessionsInv, TypeOK, Logout
<1>2. logouts' \in SUBSET Logout
  BY <1>1 DEF SessionsInv, TypeOK, ForgetTokens
<1>3. token' = None /\ parked' = None /\ cookie' = cookie
  BY DEF ForgetTokens
<1> QED BY <1>2, <1>3 DEF SessionsInv, TypeOK, Drawn

LEMMA TabKeeps ==
  ASSUME SessionsInv, LogOut \/ ReturnToPlatformView
  PROVE  SessionsInv'
<1>1. CASE LogOut
  BY <1>1, ForgetTokensTypes, TabOnly DEF LogOut
<1>2. CASE ReturnToPlatformView
  <2>1. /\ token' = parked /\ parked' = None /\ UNCHANGED <<server, cookie, calls, logouts>>
    BY <1>2 DEF ReturnToPlatformView
  <2>2. Drawn(cookie')
    BY <2>1 DEF SessionsInv, Drawn
  <2>3. /\ token' \in AccessToken \cup {None} /\ parked' \in AccessToken \cup {None}
        /\ cookie' \in Keys \cup {None} /\ logouts' \in SUBSET Logout
    BY <2>1 DEF SessionsInv, TypeOK
  <2> QED BY <2>1, <2>2, <2>3, TabOnly
<1> QED BY <1>1, <1>2

\* A call that is over makes room for the next.
LEMMA DoneKeeps ==
  ASSUME SessionsInv, NEW c \in Calls,
         PassOn(c) \/ LoggedIn(c) \/ Impersonated(c) \/ GiveUp(c)
  PROVE  SessionsInv'
<1>1. calls' = [calls EXCEPT ![c] = NoCall]
  BY DEF PassOn, LoggedIn, Impersonated, GiveUp, Done
<1>2. UNCHANGED server
  BY DEF PassOn, LoggedIn, Impersonated, GiveUp
<1>3. calls[c] \in Call /\ Fits(calls[c])
  BY DEF SessionsInv, TypeOK
<1>4. /\ token' \in AccessToken \cup {None} /\ parked' \in AccessToken \cup {None}
      /\ cookie' \in Keys \cup {None} /\ Drawn(cookie') /\ logouts' \in SUBSET Logout
  <2>1. CASE PassOn(c)
    BY <2>1 DEF PassOn, tab, SessionsInv, TypeOK, Drawn
  <2>2. CASE LoggedIn(c)
    <3>1. token' = calls[c].got /\ cookie' = calls[c].cookie /\ UNCHANGED <<parked, logouts>>
      BY <2>2 DEF LoggedIn
    <3>2. token' \in AccessToken \cup {None} /\ cookie' \in Keys \cup {None} /\ Drawn(cookie')
      BY <1>3, <3>1 DEF Call, Fits, Drawn
    <3> QED BY <3>1, <3>2 DEF SessionsInv, TypeOK
  <2>3. CASE Impersonated(c)
    <3>1. /\ token' = calls[c].got /\ parked' \in {parked, token}
          /\ UNCHANGED <<cookie, logouts>>
      BY <2>3 DEF Impersonated
    <3>2. token' \in AccessToken \cup {None}
      BY <1>3, <3>1 DEF Call
    <3> QED BY <3>1, <3>2 DEF SessionsInv, TypeOK, Drawn
  <2>4. CASE GiveUp(c)
    BY <2>4, ForgetTokensTypes DEF GiveUp
  <2> QED BY <2>1, <2>2, <2>3, <2>4
<1> QED BY <1>1, <1>2, <1>4, NoCallFits, OneCall

\* A refresh asks with the cookie: `live` is whether that session is good now, and
\* a good session has its account.
LEMMA RefreshKeeps ==
  ASSUME SessionsInv, NEW c \in Calls, Refresh(c)
  PROVE  SessionsInv'
<1>1. calls[c] \in Call /\ Fits(calls[c]) /\ calls[c].answer = "unauthorized"
  BY DEF SessionsInv, TypeOK, Refresh
<1>2. calls[c].ran = 0
  BY <1>1 DEF Fits
<1>3. UNCHANGED <<server, tab, logouts>>
  BY DEF Refresh
<1>4. CASE RefreshInProgress
  <2> DEFINE new == [calls[c] EXCEPT !.pc = "waiting", !.answer = "none"]
  <2>1. new \in Call
    BY <1>1 DEF Call, Steps, Answers
  <2>2. Fits(new) /\ new.pc \notin RefreshSteps
    BY <1>1, <1>2 DEF Call, Fits, RefreshSteps
  <2>3. calls' = [calls EXCEPT ![c] = new]
    BY <1>4 DEF Refresh, SessionsInv, TypeOK
  <2> QED BY <1>3, <2>1, <2>2, <2>3, OneCallOnly
<1>5. CASE ~RefreshInProgress
  <2> DEFINE good == Valid(cookie) /\ sessions[cookie].user \in accounts
             new == [calls[c] EXCEPT !.pc = "refresh_sent", !.cookie = cookie,
                                     !.answer = "none", !.live = good]
  <2>1. good \in BOOLEAN
    OBVIOUS
  <2>2. new \in Call
    BY <1>1, <2>1 DEF Call, Steps, Answers, SessionsInv, TypeOK
  <2>3. /\ new.pc = "refresh_sent" /\ new.cookie = cookie /\ new.live = good
        /\ new.ran = 0 /\ new.op = calls[c].op /\ new.for = calls[c].for
    BY <1>1, <1>2 DEF Call
  <2>4. Valid(cookie) => good
    BY DEF SessionsInv, TypeOK, DeletedAccountHasNoSession, Valid
  <2>5. Fits(new)
    BY <1>1, <2>3, <2>4 DEF Fits, SessionsInv
  <2>6. ~OthersRefresh(c)
    BY <1>5 DEF RefreshInProgress, OthersRefresh
  <2>7. calls' = [calls EXCEPT ![c] = new]
    BY <1>5 DEF Refresh, SessionsInv, TypeOK
  <2> QED BY <1>3, <2>2, <2>5, <2>6, <2>7, OneCallOnly
<1> QED BY <1>4, <1>5

\* One answer reaches all who wait for it; none of them has run.
LEMMA RefreshedKeeps ==
  ASSUME SessionsInv, NEW c \in Calls, Refreshed(c) \/ RefreshFailed(c)
  PROVE  SessionsInv'
<1>1. calls \in [Calls -> Call] /\ \A x \in Calls : calls[x] \in Call /\ Fits(calls[x])
  BY DEF SessionsInv, TypeOK
<1>2. calls[c].pc = "refresh_answered"
  BY DEF Refreshed, RefreshFailed, At
<1>3. UNCHANGED server
  BY DEF Refreshed, RefreshFailed
<1>4. sessions' = sessions /\ accounts' = accounts /\ deleting' = deleting /\ era' = era
  BY <1>3 DEF server
<1>5. /\ token' \in AccessToken \cup {None} /\ parked' \in AccessToken \cup {None}
      /\ cookie' \in Keys \cup {None} /\ Drawn(cookie') /\ logouts' \in SUBSET Logout
  <2>1. CASE Refreshed(c)
    <3>1. token' = calls[c].got /\ UNCHANGED <<parked, cookie, logouts>>
      BY <2>1 DEF Refreshed
    <3>2. token' \in AccessToken \cup {None}
      BY <1>1, <3>1 DEF Call
    <3> QED BY <3>1, <3>2 DEF SessionsInv, TypeOK, Drawn
  <2>2. CASE RefreshFailed(c)
    BY <2>2, ForgetTokensTypes DEF RefreshFailed
  <2> QED BY <2>1, <2>2
<1>6. calls' \in [Calls -> Call] /\ \A x \in Calls :
        \/ x # c /\ calls'[x] = calls[x]
        \/ Fits(calls'[x]) /\ calls'[x].pc \notin RefreshSteps
  <2>1. CASE Refreshed(c)
    <3>1. \A x \in Calls : x = c \/ At(x, "waiting") =>
            /\ Retry(x, calls[c].got) \in Call
            /\ Fits(Retry(x, calls[c].got)) /\ Retry(x, calls[c].got).pc = "sent"
      <4> SUFFICES ASSUME NEW x \in Calls, x = c \/ At(x, "waiting")
                   PROVE  /\ Retry(x, calls[c].got) \in Call
                          /\ Fits(Retry(x, calls[c].got)) /\ Retry(x, calls[c].got).pc = "sent"
        OBVIOUS
      <4>1. calls[x] \in Call /\ Fits(calls[x]) /\ calls[x].pc # "answered"
        BY <1>1, <1>2 DEF At
      <4>2. calls[c].got \in AccessToken \cup {None}
        BY <1>1 DEF Call
      <4> DEFINE new == Retry(x, calls[c].got)
      <4>3. new \in Call
        BY <4>1, <4>2 DEF Retry, Call, Steps, Answers
      <4>4. /\ new.pc = "sent" /\ new.cookie = calls[x].cookie /\ new.ran = calls[x].ran
            /\ new.op = calls[x].op /\ new.for = calls[x].for
        BY <4>1 DEF Retry, Call
      <4>5. Fits(new)
        BY <4>1, <4>4 DEF Fits
      <4> QED BY <4>3, <4>4, <4>5
    <3>2. calls' = [x \in Calls |-> IF x = c \/ At(x, "waiting")
                                   THEN Retry(x, calls[c].got) ELSE calls[x]]
      BY <2>1 DEF Refreshed
    <3> QED BY <1>1, <3>1, <3>2 DEF RefreshSteps
  <2>2. CASE RefreshFailed(c)
    <3>1. calls' = [x \in Calls |-> IF x = c \/ At(x, "waiting") THEN NoCall ELSE calls[x]]
      BY <2>2 DEF RefreshFailed
    <3> QED BY <1>1, <3>1, NoCallFits
  <2> QED BY <2>1, <2>2
<1>7. TypeOK'
  BY <1>4, <1>5, <1>6 DEF SessionsInv, TypeOK
<1>8. DeletedAccountHasNoSession' /\ Drawn(cookie)'
  BY <1>4, <1>5 DEF SessionsInv, DeletedAccountHasNoSession, Valid, Drawn
<1>9. \A x \in Calls : Fits(calls[x])'
  BY <1>1, <1>4, <1>6 DEF Fits, Drawn, Valid
<1>10. \A x \in Calls : calls'[x].pc \in RefreshSteps => ~OthersRefresh(x)'
  BY <1>6 DEF SessionsInv, OthersRefresh
<1> QED BY <1>7, <1>8, <1>9, <1>10 DEF SessionsInv

\* What is lost is answered with an error, which is not the one that refreshes.
LEMMA CallFailsKeeps ==
  ASSUME SessionsInv, NEW c \in Calls, CallFails(c)
  PROVE  SessionsInv'
<1>1. calls[c] \in Call /\ Fits(calls[c])
  BY DEF SessionsInv, TypeOK
<1>2. UNCHANGED <<server, tab, logouts>>
  BY DEF CallFails
<1>3. CASE calls[c].pc \in RefreshSteps
  <2> DEFINE new == Answer(calls[c], "refresh_answered", "refused", None)
  <2>1. calls[c].ran = 0
    BY <1>1, <1>3 DEF Fits, RefreshSteps
  <2>2. new \in Call /\ Fits(new)
    BY <1>1, <2>1, AnswerFits DEF Steps, Answers
  <2>3. ~OthersRefresh(c)
    BY <1>3 DEF SessionsInv
  <2>4. calls' = [calls EXCEPT ![c] = new]
    BY <1>3 DEF CallFails, Answered
  <2> QED BY <1>2, <2>2, <2>3, <2>4, OneCallOnly
<1>4. CASE calls[c].pc \notin RefreshSteps
  <2> DEFINE new == Answer(calls[c], "answered", "refused", None)
  <2>1. calls[c].ran = 0 \/ calls[c].pc = "answered"
    BY <1>1 DEF Fits
  <2>2. new \in Call /\ Fits(new) /\ new.pc \notin RefreshSteps
    BY <1>1, <2>1, AnswerFits DEF Steps, Answers, RefreshSteps
  <2>3. calls' = [calls EXCEPT ![c] = new]
    BY <1>4 DEF CallFails, Answered
  <2> QED BY <1>2, <2>2, <2>3, OneCallOnly
<1> QED BY <1>3, <1>4

\* A session that is good has its account.
LEMMA GoodHasAccount ==
  ASSUME SessionsInv
  PROVE  \A k \in Keys : sessions[k] # None /\ sessions[k].valid => sessions[k].user \in accounts
<1>1. None \notin Keys
  BY SessionsAssumption, Zenon
<1> QED BY <1>1 DEF SessionsInv, DeletedAccountHasNoSession, Valid

\* A log-out ends the session of the cookie it carries.
LEMMA LogoutKeeps ==
  ASSUME SessionsInv, NEW l \in logouts, ServeLogout(l) \/ LoggedOut(l) \/ LogoutFails(l)
  PROVE  SessionsInv'
<1>1. l \in Logout /\ logouts \in SUBSET Logout
  BY DEF SessionsInv, TypeOK
<1>2. CASE ServeLogout(l)
  <2>1. UNCHANGED <<accounts, deleting, era, tab, calls>>
    BY <1>2 DEF ServeLogout
  <2>2. logouts' \in SUBSET Logout
    <3>1. [l EXCEPT !.answered = TRUE] \in Logout
      BY <1>1 DEF Logout
    <3> QED BY <1>1, <1>2, <3>1 DEF ServeLogout
  <2>3. accounts \in SUBSET Users /\ deleting \in SUBSET Users
        /\ sessions \in [Keys -> Session \cup {None}]
    BY DEF SessionsInv, TypeOK
  <2>4. CASE Valid(l.cookie)
    <3>1. l.cookie \in Keys /\ sessions[l.cookie] \in Session
      BY <1>1, <2>3, <2>4 DEF Valid, Logout
    <3> DEFINE row == [sessions[l.cookie] EXCEPT !.valid = FALSE]
    <3>2. row \in Session /\ row.valid = FALSE /\ row # None
      <4>1. None \notin Session
        BY SessionsAssumption, Zenon DEF Session
      <4>2. row \in Session /\ row.valid = FALSE
        BY <3>1 DEF Session
      <4> QED BY <4>1, <4>2
    <3>3. sessions' = [sessions EXCEPT ![l.cookie] = row]
      BY <1>2, <2>4 DEF ServeLogout
    <3>4. /\ sessions' \in [Keys -> Session \cup {None}] /\ sessions'[l.cookie] = row
          /\ \A k \in Keys : k # l.cookie => sessions'[k] = sessions[k]
      BY <2>3, <3>1, <3>2, <3>3
    <3>5. \A k \in Keys : sessions[k] # None => sessions'[k] # None
      BY <3>2, <3>4
    <3>6. \A k \in Keys : sessions'[k] # None /\ sessions'[k].valid =>
            sessions[k] # None /\ sessions[k].valid /\ sessions'[k].user \in accounts
      BY <3>2, <3>4, GoodHasAccount
    <3> QED BY <2>1, <2>2, <2>3, <3>4, <3>5, <3>6, SessionsEnd
  <2>5. CASE ~Valid(l.cookie)
    <3>1. sessions' = sessions
      BY <1>2, <2>5 DEF ServeLogout
    <3>2. \A k \in Keys : sessions'[k] # None /\ sessions'[k].valid =>
            sessions[k] # None /\ sessions[k].valid /\ sessions'[k].user \in accounts
      BY <3>1, GoodHasAccount
    <3> QED BY <2>1, <2>2, <2>3, <3>1, <3>2, SessionsEnd
  <2> QED BY <2>4, <2>5
<1>3. CASE LoggedOut(l)
  <2>1. /\ cookie' = None /\ logouts' \in SUBSET Logout
        /\ UNCHANGED <<server, token, parked, calls>>
    BY <1>1, <1>3 DEF LoggedOut
  <2>2. Drawn(cookie')
    BY <2>1 DEF Drawn
  <2>3. token' \in AccessToken \cup {None} /\ parked' \in AccessToken \cup {None}
    BY <2>1 DEF SessionsInv, TypeOK
  <2> QED BY <2>1, <2>2, <2>3, TabOnly
<1>4. CASE LogoutFails(l)
  <2>1. /\ logouts' \in SUBSET Logout /\ UNCHANGED <<server, token, parked, cookie, calls>>
    BY <1>1, <1>4 DEF LogoutFails, tab
  <2>2. /\ token' \in AccessToken \cup {None} /\ parked' \in AccessToken \cup {None}
        /\ cookie' \in Keys \cup {None} /\ Drawn(cookie')
    BY <2>1 DEF SessionsInv, TypeOK, Drawn
  <2> QED BY <2>1, <2>2, TabOnly
<1> QED BY <1>2, <1>3, <1>4

\* Revoking a user's sessions takes none away and makes none good.
LEMMA RevokedEnds ==
  ASSUME SessionsInv, NEW u \in Users
  PROVE  /\ Revoked(u) \in [Keys -> Session \cup {None}]
         /\ \A k \in Keys : sessions[k] # None => Revoked(u)[k] # None
         /\ \A k \in Keys : Revoked(u)[k] # None /\ Revoked(u)[k].valid =>
               /\ sessions[k] # None /\ sessions[k].valid
               /\ Revoked(u)[k].user \in accounts \ {u}
<1>1. sessions \in [Keys -> Session \cup {None}]
  BY DEF SessionsInv, TypeOK
<1>2. None \notin Session
  BY SessionsAssumption, Zenon DEF Session
<1>3. ASSUME NEW k \in Keys, sessions[k] # None, sessions[k].user = u
      PROVE  Revoked(u)[k] \in Session /\ Revoked(u)[k].valid = FALSE
  <2>1. Revoked(u)[k] = [sessions[k] EXCEPT !.valid = FALSE]
    BY <1>3 DEF Revoked
  <2>2. sessions[k] \in Session
    BY <1>1, <1>3
  <2> QED BY <2>1, <2>2 DEF Session
<1>4. ASSUME NEW k \in Keys, ~(sessions[k] # None /\ sessions[k].user = u)
      PROVE  Revoked(u)[k] = sessions[k]
  BY <1>4 DEF Revoked
<1>5. \A k \in Keys : Revoked(u)[k] \in Session \cup {None}
  BY <1>1, <1>3, <1>4
<1>6. Revoked(u) \in [Keys -> Session \cup {None}]
  BY <1>5 DEF Revoked
<1>7. \A k \in Keys : sessions[k] # None => Revoked(u)[k] # None
  BY <1>2, <1>3, <1>4
<1>8. ASSUME NEW k \in Keys, Revoked(u)[k] # None, Revoked(u)[k].valid
      PROVE  /\ sessions[k] # None /\ sessions[k].valid
             /\ Revoked(u)[k].user \in accounts \ {u}
  BY <1>3, <1>4, <1>8, GoodHasAccount
<1> QED BY <1>6, <1>7, <1>8

\* Accounts go, sessions lapse, time passes.
LEMMA OutsideKeeps ==
  ASSUME SessionsInv, Outside
  PROVE  SessionsInv'
<1>1. /\ accounts \in SUBSET Users /\ deleting \in SUBSET Users /\ logouts \in SUBSET Logout
      /\ sessions \in [Keys -> Session \cup {None}]
  BY DEF SessionsInv, TypeOK
<1>2. ASSUME NEW u \in Visitors, RevokeAllSessions(u)
      PROVE  SessionsInv'
  <2>1. u \in Users
    BY SessionsAssumption
  <2>2. /\ sessions' = Revoked(u) /\ deleting' = deleting \cup {u}
        /\ UNCHANGED <<accounts, era, tab, calls, logouts>>
    BY <1>2 DEF RevokeAllSessions
  <2>3. \A k \in Keys : sessions'[k] # None /\ sessions'[k].valid =>
          sessions[k] # None /\ sessions[k].valid /\ sessions'[k].user \in accounts'
    BY <2>1, <2>2, RevokedEnds
  <2>4. /\ \A k \in Keys : sessions[k] # None => sessions'[k] # None
        /\ sessions' \in [Keys -> Session \cup {None}]
    BY <2>1, <2>2, RevokedEnds
  <2>5. accounts' \in SUBSET Users /\ deleting' \in SUBSET Users /\ logouts' \in SUBSET Logout
    BY <1>1, <2>1, <2>2
  <2> QED BY <2>2, <2>3, <2>4, <2>5, SessionsEnd
<1>3. ASSUME NEW u \in Visitors, DeleteAccount(u)
      PROVE  SessionsInv'
  <2>1. u \in Users
    BY SessionsAssumption
  <2>2. /\ sessions' = Revoked(u) /\ deleting' = deleting \ {u} /\ accounts' = accounts \ {u}
        /\ UNCHANGED <<era, tab, calls, logouts>>
    BY <1>3 DEF DeleteAccount
  <2>3. \A k \in Keys : sessions'[k] # None /\ sessions'[k].valid =>
          sessions[k] # None /\ sessions[k].valid /\ sessions'[k].user \in accounts'
    BY <2>1, <2>2, RevokedEnds
  <2>4. /\ \A k \in Keys : sessions[k] # None => sessions'[k] # None
        /\ sessions' \in [Keys -> Session \cup {None}]
    BY <2>1, <2>2, RevokedEnds
  <2>5. accounts' \in SUBSET Users /\ deleting' \in SUBSET Users /\ logouts' \in SUBSET Logout
    BY <1>1, <2>2
  <2> QED BY <2>2, <2>3, <2>4, <2>5, SessionsEnd
<1>4. ASSUME NEW k \in Keys, SessionLapses(k)
      PROVE  SessionsInv'
  <2> DEFINE row == [sessions[k] EXCEPT !.valid = FALSE]
  <2>1. sessions[k] \in Session
    BY <1>1, <1>4 DEF SessionLapses, Valid
  <2>2. row \in Session /\ row.valid = FALSE /\ row # None
    <3>1. None \notin Session
      BY SessionsAssumption, Zenon DEF Session
    <3>2. row \in Session /\ row.valid = FALSE
      BY <2>1 DEF Session
    <3> QED BY <3>1, <3>2
  <2>3. /\ sessions' = [sessions EXCEPT ![k] = row]
        /\ UNCHANGED <<accounts, deleting, era, tab, calls, logouts>>
    BY <1>4 DEF SessionLapses
  <2>4. /\ sessions' \in [Keys -> Session \cup {None}] /\ sessions'[k] = row
        /\ \A j \in Keys : j # k => sessions'[j] = sessions[j]
    BY <1>1, <2>2, <2>3
  <2>5. \A j \in Keys : sessions[j] # None => sessions'[j] # None
    BY <2>2, <2>4
  <2>6. \A j \in Keys : sessions'[j] # None /\ sessions'[j].valid =>
          sessions[j] # None /\ sessions[j].valid /\ sessions'[j].user \in accounts'
    BY <2>2, <2>3, <2>4, GoodHasAccount
  <2> QED BY <1>1, <2>3, <2>4, <2>5, <2>6, SessionsEnd
<1>5. CASE AccessTokensExpire
  <2>1. era' \in Eras /\ UNCHANGED <<accounts, deleting, sessions, tab, calls, logouts>>
    BY <1>5, SessionsAssumption DEF AccessTokensExpire, SessionsInv, TypeOK, Eras
  <2>2. TypeOK'
    BY <2>1 DEF SessionsInv, TypeOK, tab
  <2>3. DeletedAccountHasNoSession' /\ Drawn(cookie)'
    BY <2>1 DEF SessionsInv, DeletedAccountHasNoSession, Valid, Drawn, tab
  <2>4. \A c \in Calls : Fits(calls[c])'
    BY <2>1 DEF SessionsInv, Fits, Drawn, Valid
  <2>5. \A c \in Calls : calls'[c].pc \in RefreshSteps => ~OthersRefresh(c)'
    BY <2>1 DEF SessionsInv, OthersRefresh
  <2> QED BY <2>2, <2>3, <2>4, <2>5 DEF SessionsInv
<1> QED BY <1>2, <1>3, <1>4, <1>5 DEF Outside

LEMMA StepKeeps == SessionsInv /\ [Next]_vars => SessionsInv'
<1> SUFFICES ASSUME SessionsInv, [Next]_vars
             PROVE  SessionsInv'
  OBVIOUS
<1>1. ASSUME NEW c \in Calls, Click(c)
      PROVE  SessionsInv'
  BY <1>1, ClickKeeps
<1>2. ASSUME NEW c \in Calls, Serve(c)
      PROVE  SessionsInv'
  BY <1>2, ServeApiKeeps, ServeImpersonateKeeps, CheckPasswordKeeps, InsertSessionKeeps,
     FindSessionKeeps, MintAccessTokenKeeps DEF Serve
<1>3. ASSUME NEW c \in Calls, Deliver(c)
      PROVE  SessionsInv'
  BY <1>3, DoneKeeps, RefreshKeeps, RefreshedKeeps DEF Deliver
<1>4. ASSUME NEW c \in Calls, CallFails(c)
      PROVE  SessionsInv'
  BY <1>4, CallFailsKeeps
<1>5. ASSUME NEW l \in logouts, ServeLogout(l) \/ LoggedOut(l) \/ LogoutFails(l)
      PROVE  SessionsInv'
  BY <1>5, LogoutKeeps
<1>6. CASE LogOut \/ ReturnToPlatformView
  BY <1>6, TabKeeps
<1>7. CASE Outside
  BY <1>7, OutsideKeeps
<1>8. CASE UNCHANGED vars
  <2>1. UNCHANGED <<server, calls, token, parked, cookie, logouts>>
    BY <1>8 DEF vars, server
  <2> QED BY <2>1, TabOnly DEF SessionsInv, TypeOK, Drawn
<1> QED BY <1>1, <1>2, <1>3, <1>4, <1>5, <1>6, <1>7, <1>8 DEF Next

-----------------------------------------------------------------------------
(* The theorems. *)

\* What each call may rely on at its step, whatever log-outs, deletions, expiries
\* and lost answers come between.
THEOREM Invariance == Spec => []SessionsInv
  BY InitInv, StepKeeps, PTL DEF Spec

\* A session that was revoked, or whose account was deleted, gives no access token to
\* a refresh asked for afterwards (refreshAccessTokenServ; one that has found the
\* session before it ended does get its token), and no account leaves a session
\* behind, though a log-in be under way (authUserService, deleteUserService).
THEOREM SessionsEnded == Spec => []EndedSessionsStayEnded
  BY Invariance, InvEnds, PTL

\* However many calls are told that their token has expired, one refresh is under way
\* for all of them, and none that is sent again has run before (auth.interceptor.ts).
THEOREM RunsOnce == Spec => []RefreshedOnceRunOnce
  BY Invariance, InvOnce, PTL
=============================================================================
