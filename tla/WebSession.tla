------------------------------ MODULE WebSession ------------------------------
(***************************************************************************)
(* One browser page and its session: the HTTP client (web/src/api/http.ts),*)
(* the authentication store (web/src/stores/auth.ts), the router's guard   *)
(* and handlers (web/src/app/router.ts) and the forms, against the answers *)
(* of the server's auth router.  Calls are answered in any order, each by  *)
(* the cookie it was sent with; between two answers the page runs to its   *)
(* next await.  /me is called by store.bootstrap and store.refresh only,   *)
(* and its 401 alone carries X-SuperBoss-Refreshable.                      *)
(***************************************************************************)
EXTENDS Integers

CONSTANTS
    Accounts,
    MaxSession,  \* sessions 1 .. MaxSession may be opened
    Requests,    \* the requests of the pages (projects, files, devices, ...)
    None

ASSUME WebAssumptions ==
    /\ MaxSession \in Nat \ {0}
    /\ None \notin Accounts
    /\ Requests \cap {"bootstrap", "refresh", "login", "change", "rotate", "logout"} = {}

VARIABLES
    session,       \* the sessions table
    forced,        \* the accounts with must_change_password
    cookie,        \* the session whose tokens the browser's cookies are
    call,          \* the HTTP calls under way
    rotation,      \* refreshPromise of the HTTP client
    lostNotified,  \* of the HTTP client
    user,          \* the store's user
    mustChange,    \* must_change_password of that user
    bootstrapped,  \* the store's isBootstrapped
    page,          \* where the router is: nowhere yet, or on a page
    navigation,    \* a navigation waits in the router's guard
    overlap,       \* auxiliary: a form was sent while the other one was under way
    lateLogout     \* auxiliary: a form was sent while a logout was under way

server == <<session, forced>>
store == <<lostNotified, user, mustChange, bootstrapped, page>>
auxiliary == <<overlap, lateLogout>>
router == <<navigation, auxiliary>>
vars == <<server, cookie, call, rotation, store, router>>

Sessions == 1 .. MaxSession
NoSession == 0

\* A rotated session is pending until the transaction commits, which get_session
\* does after the answer was sent.  fresh: its access token has not expired.
Session == [account : Accounts \cup {None}, parent : 0 .. MaxSession, fresh : BOOLEAN,
            state : {"unused", "pending", "live", "dead"}]

MeCallers == {"bootstrap", "refresh"}
Forms == {"login", "change"}
Callers == MeCallers \cup Forms \cup {"rotate", "logout"} \cup Requests

Call == [at : {"idle", "sent", "answered", "waiting", "syncing"},
         cookie : 0 .. MaxSession, retried : BOOLEAN, account : Accounts \cup {None},
         answer : {"none", "ok", "refused", "refreshable", "failed"},
         must : BOOLEAN, issued : 0 .. MaxSession]

NoCall == [at |-> "idle", cookie |-> NoSession, retried |-> FALSE, account |-> None,
           answer |-> "none", must |-> FALSE, issued |-> NoSession]

\* The page is loaded with no cookies, or with those of an earlier visit.
Init ==
    /\ forced \in SUBSET Accounts
    /\ cookie \in {NoSession, 1}
    /\ \E a \in Accounts, f \in BOOLEAN, st \in {"live", "dead"} :
          session = [s \in Sessions |->
              IF s = cookie THEN [account |-> a, parent |-> 0, fresh |-> f, state |-> st]
              ELSE [account |-> None, parent |-> 0, fresh |-> FALSE, state |-> "unused"]]
    /\ call = [c \in Callers |-> NoCall]
    /\ rotation = "none"
    /\ lostNotified = FALSE
    /\ user = None /\ mustChange = FALSE /\ bootstrapped = FALSE
    /\ page = "start" /\ navigation = FALSE
    /\ overlap = FALSE /\ lateLogout = FALSE

-----------------------------------------------------------------------------
(* The server.                                                             *)

Valid(s) == s # NoSession /\ session[s].state = "live" /\ session[s].fresh

Unused == {s \in Sessions : session[s].state = "unused"}

NewSession == CHOOSE s \in Unused : TRUE

Opened(a, st, parent) == [account |-> a, parent |-> parent, fresh |-> TRUE, state |-> st]

Answer(c, answer, account, issued) ==
    /\ call' = [call EXCEPT ![c] = [@ EXCEPT !.at = "answered", !.answer = answer,
                                    !.account = account, !.must = account \in forced,
                                    !.issued = issued]]
    /\ UNCHANGED <<cookie, rotation, store, router>>

\* GET /auth/me and its refreshable hint.
ServeMe(c) ==
    LET s == call[c].cookie IN
    /\ call[c].at = "sent"
    /\ IF Valid(s) THEN Answer(c, "ok", session[s].account, NoSession)
       ELSE Answer(c, IF s = NoSession THEN "refused" ELSE "refreshable", None, NoSession)
    /\ UNCHANGED server

\* POST /auth/refresh, answered before its transaction commits.
ServeRotate ==
    LET s == call["rotate"].cookie IN
    /\ call["rotate"].at = "sent"
    /\ IF s # NoSession /\ session[s].state = "live"
       THEN /\ Unused # {}
            /\ session' = [session EXCEPT ![NewSession] =
                               Opened(session[s].account, "pending", s)]
            /\ Answer("rotate", "ok", None, NewSession)
       ELSE Answer("rotate", "refused", None, NoSession) /\ UNCHANGED session
    /\ UNCHANGED forced

\* get_session commits after the answer was sent, or fails to.
Commit(s) ==
    /\ session[s].state = "pending"
    /\ \/ session' = [t \in Sessions |->
              CASE t = s                 -> [session[t] EXCEPT !.state = "live"]
                [] t = session[s].parent -> [session[t] EXCEPT !.state = "dead"]
                [] OTHER                 -> session[t]]
       \/ session' = [session EXCEPT ![s].state = "dead"]
    /\ UNCHANGED <<forced, cookie, call, rotation, store, router>>

\* POST /auth/login and /auth/password/change commit before they answer; the
\* second ends every session of the account.
ServeForm(f) ==
    LET s == call[f].cookie
        a == IF f = "login" THEN call[f].account ELSE session[s].account IN
    /\ call[f].at = "sent"
    /\ \/ Answer(f, "refused", None, NoSession) /\ UNCHANGED server
       \/ /\ Unused # {}
          /\ f = "change" => Valid(s)
          /\ session' = [t \in Sessions |->
                 IF t = NewSession THEN Opened(a, "live", 0)
                 ELSE IF f = "change" /\ session[t].account = a
                 THEN [session[t] EXCEPT !.state = "dead"] ELSE session[t]]
          /\ forced' = IF f = "change" THEN forced \ {a} ELSE forced
          /\ Answer(f, "ok", None, NewSession)

\* POST /auth/logout finds a session that was committed, and is itself committed
\* after the answer was sent: at once, later (EndSession), or never.
ServeLogout ==
    LET s == call["logout"].cookie IN
    /\ call["logout"].at = "sent"
    /\ \/ UNCHANGED session
       \/ /\ s # NoSession /\ session[s].state = "live"
          /\ session' = [session EXCEPT ![s].state = "dead"]
    /\ Answer("logout", "ok", None, NoSession)
    /\ UNCHANGED forced

\* Any other endpoint: its 401 is never refreshable.
ServeRequest(b) ==
    /\ call[b].at = "sent"
    /\ Answer(b, IF Valid(call[b].cookie) THEN "ok" ELSE "refused", None, NoSession)
    /\ UNCHANGED server

\* The access token expires, the OWNER ends the session, or the transaction of a
\* logout does.
EndSession(s) ==
    /\ session[s].state = "live"
    /\ \/ session[s].fresh /\ session' = [session EXCEPT ![s].fresh = FALSE]
       \/ session' = [session EXCEPT ![s].state = "dead"]
    /\ UNCHANGED <<forced, cookie, call, rotation, store, router>>

\* The network, the 30 s timeout or the server fails; the answer, if there is one,
\* is lost.
CallFails(c) ==
    /\ call[c].at \in {"sent", "answered"}
    /\ call[c].answer # "failed"
    /\ Answer(c, "failed", None, NoSession)
    /\ UNCHANGED server

-----------------------------------------------------------------------------
(* The HTTP client and the store.                                          *)

Sent(s, retried, account) ==
    [NoCall EXCEPT !.at = "sent", !.cookie = s, !.retried = retried, !.account = account]

Ended(c) == [call EXCEPT ![c] = NoCall]

\* What the guard lets the navigation reach.
GuardedPage(u, must) == IF u = None THEN "login" ELSE IF must THEN "change" ELSE "app"

Protected == page \in {"app", "change"}

\* Mutant of NotifyLost: the router is not told.
NotifyLostStays ==
    IF lostNotified THEN UNCHANGED store
    ELSE /\ lostNotified' = TRUE
         /\ user' = None /\ mustChange' = FALSE /\ bootstrapped' = TRUE
         /\ UNCHANGED page

\* notifyLost with the handler the router has set.
NotifyLost ==
    IF lostNotified THEN UNCHANGED store
    ELSE /\ lostNotified' = TRUE
         /\ user' = None /\ mustChange' = FALSE /\ bootstrapped' = TRUE
         /\ page' = IF Protected THEN "login" ELSE page

\* Mutant of WithRefresh: /me is sent before the new cookies are stored.
WithRefreshBefore(calls, s) ==
    IF calls["refresh"].at = "idle"
    THEN [calls EXCEPT !["refresh"] = Sent(cookie, FALSE, None)] ELSE calls

\* store.refresh() joins the call under way, or makes one.
WithRefresh(calls, s) ==
    IF calls["refresh"].at = "idle"
    THEN [calls EXCEPT !["refresh"] = Sent(s, FALSE, None)] ELSE calls

\* The forms that await store.refresh() go on when it has ended.
FormsWaiting == {f \in Forms : call[f].at = "syncing"}
RefreshEnded ==
    [c \in Callers |-> IF c = "refresh" \/ c \in FormsWaiting THEN NoCall ELSE call[c]]

\* Mutant of MeAnswered: isBootstrapped is set after a failure only.
MeAnsweredUnmarked(c) ==
    /\ call[c].at = "answered" /\ call[c].answer = "ok"
    /\ user' = call[c].account /\ mustChange' = call[c].must
    /\ IF c = "bootstrap"
       THEN call' = Ended(c) /\ UNCHANGED <<rotation, page>>
       ELSE /\ call' = RefreshEnded
            /\ page' = IF FormsWaiting # {} THEN GuardedPage(user', mustChange') ELSE page
            /\ rotation' = IF rotation = "syncing" THEN "routing" ELSE rotation
    /\ UNCHANGED <<server, cookie, lostNotified, bootstrapped, router>>

\* authApi.me() has its answer, 200.
MeAnswered(c) ==
    /\ call[c].at = "answered" /\ call[c].answer = "ok"
    /\ user' = call[c].account /\ mustChange' = call[c].must /\ bootstrapped' = TRUE
    /\ IF c = "bootstrap"
       THEN call' = Ended(c) /\ UNCHANGED <<rotation, page>>
       ELSE /\ call' = RefreshEnded
            /\ page' = IF FormsWaiting # {} THEN GuardedPage(user', mustChange') ELSE page
            /\ rotation' = IF rotation = "syncing" THEN "routing" ELSE rotation
    /\ UNCHANGED <<server, cookie, lostNotified, router>>

\* setSessionRefreshedHandler: a user who must change the password is routed there,
\* through the guard, before the refresh resolves.
NeedsRouting == mustChange /\ page # "change"

RotationEnds ==
    /\ rotation = "routing"
    /\ NeedsRouting => call["bootstrap"].at = "idle"
    /\ page' = IF NeedsRouting \/ (user = None /\ Protected)
               THEN GuardedPage(user, mustChange) ELSE page
    /\ rotation' = "resolved"
    /\ lostNotified' = FALSE
    /\ UNCHANGED <<server, cookie, call, user, mustChange, bootstrapped, router>>

\* me() fails for good: a 401 is reported as a loss, and so is any failure after
\* the refresh.
MeFails(c, loss) ==
    /\ user' = None /\ mustChange' = FALSE /\ bootstrapped' = TRUE
    /\ lostNotified' = (lostNotified \/ loss)
    /\ page' = IF Protected /\ ((loss /\ ~lostNotified) \/ (c = "refresh" /\ rotation = "syncing"))
               THEN "login" ELSE page
    /\ IF c = "bootstrap" THEN call' = Ended(c) /\ UNCHANGED rotation
       ELSE /\ call' = RefreshEnded
            /\ rotation' = IF rotation = "syncing" THEN "rejected" ELSE rotation

MeRefused(c) ==
    LET a == call[c].answer IN
    /\ call[c].at = "answered"
    /\ a \in {"failed", "refused"} \/ (a = "refreshable" /\ call[c].retried)
    /\ MeFails(c, a # "failed" \/ call[c].retried)
    /\ UNCHANGED <<server, cookie, router>>

\* The interceptor: a refreshable 401 waits for the shared refresh, which the first
\* of them starts.  The promise is kept when it has settled.
MeRefreshable(c) ==
    /\ call[c].at = "answered" /\ call[c].answer = "refreshable" /\ ~call[c].retried
    /\ LET waiting == [call EXCEPT ![c] = [@ EXCEPT !.at = "waiting", !.retried = TRUE]] IN
       IF rotation = "none"
       THEN /\ rotation' = "posting"
            /\ call' = [waiting EXCEPT !["rotate"] = Sent(cookie, FALSE, None)]
       ELSE call' = waiting /\ UNCHANGED rotation
    /\ UNCHANGED <<server, cookie, store, router>>

\* Mutant of RotateAnswered: a refused refresh leaves its promise open.
RotateUnsettled ==
    /\ call["rotate"].at = "answered"
    /\ IF call["rotate"].answer = "ok"
       THEN /\ cookie' = call["rotate"].issued
            /\ rotation' = "syncing"
            /\ call' = WithRefresh(Ended("rotate"), cookie')
       ELSE call' = Ended("rotate") /\ UNCHANGED <<cookie, rotation>>
    /\ UNCHANGED <<server, store, router>>

\* The refresh is answered; before it resolves the store reads /me again.
RotateAnswered ==
    /\ call["rotate"].at = "answered"
    /\ IF call["rotate"].answer = "ok"
       THEN /\ cookie' = call["rotate"].issued
            /\ rotation' = "syncing"
            /\ call' = WithRefresh(Ended("rotate"), cookie')
       ELSE /\ rotation' = "rejected"
            /\ call' = Ended("rotate")
            /\ UNCHANGED cookie
    /\ UNCHANGED <<server, store, router>>

\* The shared refresh has settled: the call is made again, or given up.
Resume(c) ==
    /\ call[c].at = "waiting"
    /\ \/ /\ rotation = "resolved"
          /\ call' = [call EXCEPT ![c] = Sent(cookie, TRUE, None)]
          /\ UNCHANGED <<rotation, store>>
       \/ rotation = "rejected" /\ MeFails(c, TRUE)
    /\ UNCHANGED <<server, cookie, router>>

-----------------------------------------------------------------------------
(* The router and the pages.                                               *)

\* beforeEach: the guard awaits bootstrap(), which asks /me once.
Navigate ==
    /\ ~navigation
    /\ navigation' = TRUE
    /\ call' = IF ~bootstrapped /\ call["bootstrap"].at = "idle"
               THEN [call EXCEPT !["bootstrap"] = Sent(cookie, FALSE, None)] ELSE call
    /\ UNCHANGED <<server, cookie, rotation, store, auxiliary>>

NavigationEnds ==
    /\ navigation /\ call["bootstrap"].at = "idle"
    /\ navigation' = FALSE
    /\ page' = GuardedPage(user, mustChange)
    /\ UNCHANGED <<server, cookie, call, rotation, lostNotified, user, mustChange, bootstrapped,
                   auxiliary>>

Send(c, s, account) ==
    /\ call[c].at = "idle"
    /\ call' = [call EXCEPT ![c] = Sent(s, FALSE, account)]
    /\ UNCHANGED <<server, cookie, rotation, store, navigation>>

\* A form outlives its page, and so does a logout: the other form or the logout may
\* still be under way.
SendForm(f, other, account) ==
    /\ Send(f, cookie, account)
    /\ overlap' = (overlap \/ call[other].at # "idle")
    /\ lateLogout' = (lateLogout \/ call["logout"].at # "idle")

\* LoginPage, PasswordChangePage, the logout button of AppLayout, any other request.
\* The call of a login stands for GET /auth/csrf and the POST after it: what the
\* server does with the two follows from the POST alone.
Login(a) == page = "login" /\ SendForm("login", "change", a)
Change == page = "change" /\ SendForm("change", "login", None)
Logout == page = "app" /\ Send("logout", cookie, None) /\ UNCHANGED auxiliary
Request(b) == page = "app" /\ Send(b, cookie, None) /\ UNCHANGED auxiliary

\* store.login and store.changePassword: the new cookies, then store.refresh().
FormAnswered(f) ==
    /\ call[f].at = "answered" /\ call[f].answer = "ok"
    /\ cookie' = call[f].issued
    /\ call' = WithRefresh([call EXCEPT ![f].at = "syncing"], cookie')
    /\ UNCHANGED <<server, rotation, store, router>>

\* The interceptor takes the 401 of any other call for a loss.
CallRefused(c) ==
    /\ call[c].at = "answered" /\ call[c].answer = "refused"
    /\ call' = Ended(c)
    /\ NotifyLost
    /\ UNCHANGED <<server, cookie, rotation, router>>

CallEnds(c) ==
    /\ call[c].at = "answered"
    /\ call[c].answer = "failed" \/ (call[c].answer = "ok" /\ c \in Requests)
    /\ call' = Ended(c)
    /\ UNCHANGED <<server, cookie, rotation, store, router>>

\* store.logout ends the local session whatever the answer is.
LogoutAnswered ==
    /\ call["logout"].at = "answered"
    /\ call' = Ended("logout")
    /\ cookie' = IF call["logout"].answer = "ok" THEN NoSession ELSE cookie
    /\ user' = None /\ mustChange' = FALSE /\ bootstrapped' = TRUE
    /\ page' = "login"
    /\ UNCHANGED <<server, rotation, lostNotified, router>>

-----------------------------------------------------------------------------
Serve ==
    \/ \E c \in MeCallers : ServeMe(c)
    \/ \E f \in Forms : ServeForm(f)
    \/ \E b \in Requests : ServeRequest(b)
    \/ ServeRotate \/ ServeLogout

\* What the page does with the answer to c.
Handle(c) ==
    \/ c \in MeCallers /\ (MeAnswered(c) \/ MeRefused(c) \/ MeRefreshable(c) \/ Resume(c))
    \/ c \in Forms /\ FormAnswered(c)
    \/ c \in Requests \cup Forms /\ (CallRefused(c) \/ CallEnds(c))
    \/ c = "rotate" /\ RotateAnswered
    \/ c = "logout" /\ LogoutAnswered

UserActs ==
    \/ Navigate \/ Change \/ Logout
    \/ \E a \in Accounts : Login(a)
    \/ \E b \in Requests : Request(b)

Next ==
    \/ Serve \/ UserActs \/ RotationEnds \/ NavigationEnds
    \/ \E c \in Callers : Handle(c) \/ CallFails(c)
    \/ \E s \in Sessions : Commit(s) \/ EndSession(s)

Spec == Init /\ [][Next]_vars

\* Every call ends, if only by its timeout, and the page handles its answer.
FairSpec ==
    /\ Spec
    /\ WF_vars(RotationEnds) /\ WF_vars(NavigationEnds)
    /\ \A c \in Callers : WF_vars(Handle(c)) /\ WF_vars(CallFails(c))

-----------------------------------------------------------------------------
(* Properties.                                                             *)

\* The type invariant of the server's tables, the calls and the page.
TypeOK ==
    /\ session \in [Sessions -> Session]
    /\ forced \subseteq Accounts
    /\ cookie \in 0 .. MaxSession
    /\ call \in [Callers -> Call]
    /\ rotation \in {"none", "posting", "syncing", "routing", "resolved", "rejected"}
    /\ lostNotified \in BOOLEAN
    /\ user \in Accounts \cup {None}
    /\ mustChange \in BOOLEAN /\ bootstrapped \in BOOLEAN
    /\ navigation \in BOOLEAN /\ overlap \in BOOLEAN /\ lateLogout \in BOOLEAN
    /\ page \in {"start", "login", "change", "app"}

\* The two ways in which the page waits for itself.  The refresh awaits
\* store.refresh(), whose /me was refused again and waits for the refresh.  Or the
\* refresh awaits a navigation to the password page, whose guard awaits bootstrap(),
\* whose /me waits for the refresh.
CircularWait ==
    \/ rotation = "syncing" /\ call["refresh"].at = "waiting"
    \/ rotation = "routing" /\ NeedsRouting /\ call["bootstrap"].at = "waiting"

\* Whatever is lost, refused or answered late, the page opens: every navigation
\* gets past the guard, unless the promises wait for each other in one of the two
\* known circles.
BootstrapEnds == navigation ~> (~navigation \/ CircularWait)

\* The handler of a loss may await a navigation: whenever it starts one, the guard
\* of that navigation has no bootstrap to wait for.
LossNeverWaitsForBootstrap == Protected => call["bootstrap"].at = "idle"

\* Once the store is in step, the user it shows is the one the cookies belong to,
\* in whatever order logout, forms, /me and rotation are answered.  Two orders are
\* excepted.  Of two forms that overlap, the one that joins the other's
\* store.refresh() is told whom the earlier cookies belong to.  And a logout that is
\* answered after a later form takes the cookies of that form away, so that the user
\* is shown with no cookies; without such a form nobody is shown without cookies.
ShownIsCookie ==
    ~overlap /\ user # None /\ call["refresh"].at = "idle" =>
        IF cookie = NoSession THEN lateLogout ELSE user = session[cookie].account

\* No application page stays open for a user who is gone or has to change the
\* password first, as long as the forms do not overlap: when the second one cannot
\* read /me the page of the first stays.
AppNeedsUser == ~overlap /\ page = "app" => user # None /\ ~mustChange

-----------------------------------------------------------------------------
(* What the repository says of the code and the code does not do.          *)

\* docs/archive/superpowers/plans/2026-08-11: 401 responses other than the
\* refreshable ones notify the loss of the authentication.  Once a request of the
\* current session is refused, the page shows nobody as logged in.
LossIsShown ==
    [][\A b \in Requests : CallRefused(b) /\ call[b].cookie = cookie => user' = None]_vars
================================================================================
