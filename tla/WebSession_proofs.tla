-------------------------- MODULE WebSession_proofs --------------------------
(***************************************************************************)
(* What the page keeps true in whatever order its calls are answered,      *)
(* proved for every number of accounts, sessions and requests.             *)
(***************************************************************************)
EXTENDS WebSession, TLAPS

Active(c) == call[c].at # "idle"

\* The calls of the pages; a page that was opened has bootstrapped.
PageCalls == Forms \cup {"logout"} \cup Requests

\* The guard lets nobody past before the first /me has ended, and nobody asks for
\* it again.
BootInv ==
    /\ page # "start" => bootstrapped /\ ~Active("bootstrap")
    /\ navigation /\ ~Active("bootstrap") => bootstrapped
    /\ mustChange => bootstrapped
    /\ \A c \in PageCalls : Active(c) => page # "start"

\* Who waits for the shared refresh, and on whose behalf store.refresh() runs.
RotationInv ==
    /\ Active("rotate") => rotation = "posting"
    /\ rotation \in {"posting", "syncing", "routing"} =>
           \/ call["bootstrap"].at = "waiting"
           \/ call["refresh"].at = "waiting" /\ rotation # "routing"
    /\ Active("refresh") =>
           \/ FormsWaiting # {}
           \/ call["bootstrap"].at = "waiting" /\ rotation = "syncing"

\* The page agrees with the user of the store; while the forms keep apart a form has
\* its page, and a logout is beside one only when the form was sent later.
PageInv ==
    /\ page = "login" => user = None
    /\ page = "change" => mustChange \/ user = None
    /\ Active("login") /\ Active("change") => overlap
    /\ ~overlap => \A f \in Forms : Active(f) => page \in {"login", "change"}
    /\ ~overlap /\ Active("logout") => lateLogout \/ \A f \in Forms : ~Active(f)

\* A session somebody names was opened.
Opens(s) == s # NoSession => session[s].state # "unused"

NamedInv ==
    /\ Opens(cookie)
    /\ \A c \in Callers : Opens(call[c].cookie) /\ Opens(call[c].issued)

\* An answer of /me is about the session it was asked with, which is the one of the
\* cookies, unless a late logout has taken them away.
MeInv ==
    /\ \A c \in MeCallers : call[c].at = "answered" /\ call[c].answer = "ok" =>
           /\ call[c].cookie # NoSession
           /\ call[c].account = session[call[c].cookie].account
    /\ call["bootstrap"].at \in {"sent", "answered"} => call["bootstrap"].cookie = cookie
    /\ ~overlap /\ call["refresh"].at \in {"sent", "answered"} =>
           \/ cookie = call["refresh"].cookie
           \/ cookie = NoSession /\ lateLogout

\* The inductive invariant.
IInv ==
    /\ TypeOK
    /\ BootInv /\ RotationInv /\ PageInv /\ NamedInv /\ MeInv
    /\ ShownIsCookie /\ AppNeedsUser

-----------------------------------------------------------------------------
(* Facts the steps share.                                                  *)

USE DEF server, store, router, auxiliary, MeCallers, Forms, PageCalls, Callers, Active, NoSession

\* The sessions that were opened stay what they are, whoever else opens one.
Stays ==
    \A s \in Sessions : session[s].state # "unused" =>
        session'[s].state # "unused" /\ session'[s].account = session[s].account

\* A call that is sent, and a call that is none.
LEMMA SentFields ==
    ASSUME NEW s \in 0 .. MaxSession, NEW r \in BOOLEAN, NEW a \in Accounts \cup {None}
    PROVE  /\ Sent(s, r, a) \in Call
           /\ Sent(s, r, a).at = "sent" /\ Sent(s, r, a).cookie = s
           /\ Sent(s, r, a).issued = NoSession
<1>1. NoSession \in 0 .. MaxSession
  BY WebAssumptions
<1>2. QED
  BY <1>1 DEF Sent, NoCall, Call

\* No call is idle and names nothing.
LEMMA NoCallFields ==
    /\ NoCall \in Call /\ NoCall.at = "idle"
    /\ NoCall.cookie = NoSession /\ NoCall.issued = NoSession
<1>1. NoSession \in 0 .. MaxSession
  BY WebAssumptions
<1>2. QED
  BY <1>1 DEF NoCall, Call

\* The fields of a call have their types.
LEMMA CallFields ==
    ASSUME IInv, NEW c \in Callers
    PROVE  /\ call \in [Callers -> Call] /\ call[c] \in Call
           /\ call[c].cookie \in 0 .. MaxSession /\ call[c].issued \in 0 .. MaxSession
           /\ call[c].account \in Accounts \cup {None}
           /\ call[c].must \in BOOLEAN /\ call[c].retried \in BOOLEAN
BY DEF IInv, TypeOK, Call

\* A free session is opened, if there is one.
LEMMA NewIsUnused ==
    ASSUME Unused # {}
    PROVE  NewSession \in Sessions /\ session[NewSession].state = "unused"
BY DEF NewSession, Unused

\* A step of the server that answers nobody.
LEMMA SessionsMove ==
    ASSUME IInv, session' \in [Sessions -> Session], Stays,
           UNCHANGED <<forced, cookie, call, rotation, store, router>>
    PROVE  IInv'
<1>1. TypeOK'
  BY DEF IInv, TypeOK
<1>2. BootInv' /\ RotationInv' /\ PageInv' /\ AppNeedsUser'
  BY DEF IInv, BootInv, RotationInv, PageInv, AppNeedsUser, FormsWaiting
<1>3. \A s \in 0 .. MaxSession : Opens(s) => s \in Sessions \cup {NoSession} /\ Opens(s)'
  BY WebAssumptions DEF Stays, Opens, Sessions
<1>4. cookie \in 0 .. MaxSession
  BY DEF IInv, TypeOK
<1>5. NamedInv'
  <2>1. Opens(cookie)'
    BY <1>3, <1>4 DEF IInv, NamedInv, Opens
  <2>2. ASSUME NEW c \in Callers
        PROVE  Opens(call[c].cookie)' /\ Opens(call[c].issued)'
    BY <1>3, CallFields DEF IInv, NamedInv, Opens
  <2>3. QED
    BY <2>1, <2>2 DEF NamedInv
<1>6. MeInv'
  <2>1. ASSUME NEW c \in MeCallers, call[c].at = "answered", call[c].answer = "ok"
        PROVE  /\ call[c].cookie # NoSession
               /\ call[c].account = session'[call[c].cookie].account
    <3>1. /\ call[c].cookie # NoSession /\ call[c].cookie \in 0 .. MaxSession
          /\ call[c].account = session[call[c].cookie].account
          /\ session[call[c].cookie].state # "unused"
      BY <2>1, CallFields DEF IInv, MeInv, NamedInv, Opens
    <3>2. QED
      BY <3>1, WebAssumptions DEF Stays, Sessions
  <2>2. QED
    BY <2>1 DEF IInv, MeInv
<1>7. ShownIsCookie'
  <2> SUFFICES ASSUME ~overlap, user # None, cookie # NoSession, call["refresh"].at = "idle"
               PROVE  user = session'[cookie].account
    BY DEF IInv, ShownIsCookie
  <2>1. user = session[cookie].account /\ session[cookie].state # "unused"
    BY DEF IInv, ShownIsCookie, NamedInv, Opens
  <2>2. cookie \in Sessions
    BY <1>4, WebAssumptions DEF Sessions
  <2>3. QED
    BY <2>1, <2>2 DEF Stays
<1>8. QED
  BY <1>1, <1>2, <1>5, <1>6, <1>7 DEF IInv

\* The server answers c, or the call fails: an answer of /me is about the session
\* of the call.
LEMMA Answered ==
    ASSUME IInv, NEW c \in Callers, NEW answer, NEW account, NEW issued,
           call[c].at \in {"sent", "answered"}, Answer(c, answer, account, issued),
           answer \in {"ok", "refused", "refreshable", "failed"},
           account \in Accounts \cup {None}, issued \in 0 .. MaxSession,
           session' \in [Sessions -> Session], Stays, forced' \subseteq Accounts,
           issued # NoSession => session'[issued].state # "unused",
           c \in MeCallers /\ answer = "ok" =>
               /\ call[c].cookie # NoSession
               /\ account = session[call[c].cookie].account
    PROVE  IInv'
<1>0. PICK m \in BOOLEAN : m = (account \in forced)
  BY (account \in forced) \in BOOLEAN, Zenon
<1> DEFINE n == [call[c] EXCEPT !.at = "answered", !.answer = answer, !.account = account,
                                !.must = m, !.issued = issued]
<1>1. call \in [Callers -> Call] /\ call[c] \in Call
  BY CallFields
<1>2. /\ n \in Call /\ n.at = "answered" /\ n.cookie = call[c].cookie
      /\ n.answer = answer /\ n.account = account /\ n.issued = issued
  BY <1>1 DEF Call
<1>3. /\ call' = [call EXCEPT ![c] = n]
      /\ UNCHANGED <<cookie, rotation, store, navigation, auxiliary>>
  BY <1>0 DEF Answer
<1> HIDE DEF n
<1>4. /\ call' \in [Callers -> Call] /\ call'[c] = n
      /\ \A d \in Callers : d # c => call'[d] = call[d]
  BY <1>1, <1>2, <1>3
<1>5. \A d \in Callers : /\ Active(d)' <=> Active(d)
                         /\ call'[d].at = "waiting" <=> call[d].at = "waiting"
                         /\ call'[d].at = "syncing" <=> call[d].at = "syncing"
                         /\ call'[d].cookie = call[d].cookie
  BY <1>2, <1>4
<1>6. TypeOK'
  BY <1>3, <1>4 DEF IInv, TypeOK
<1>7. BootInv' /\ PageInv' /\ AppNeedsUser'
  BY <1>3, <1>5 DEF IInv, BootInv, PageInv, AppNeedsUser
<1>8. RotationInv'
  <2>1. FormsWaiting' = FormsWaiting
    BY <1>5 DEF FormsWaiting
  <2>2. QED
    BY <1>3, <1>5, <2>1 DEF IInv, RotationInv
<1>9. \A s \in 0 .. MaxSession : Opens(s) => s \in Sessions \cup {NoSession} /\ Opens(s)'
  BY WebAssumptions DEF Stays, Opens, Sessions
<1>10. cookie \in 0 .. MaxSession
  BY DEF IInv, TypeOK
<1>11. NamedInv'
  <2>1. Opens(cookie)'
    BY <1>3, <1>9, <1>10 DEF IInv, NamedInv, Opens
  <2>2. ASSUME NEW d \in Callers
        PROVE  Opens(call[d].cookie)' /\ Opens(call[d].issued)'
    <3>1. Opens(call[d].cookie)'
      BY <1>5, <1>9, CallFields DEF IInv, NamedInv, Opens
    <3>2. CASE d = c
      BY <1>2, <1>4, <3>1, <3>2 DEF Opens
    <3>3. CASE d # c
      BY <1>4, <1>9, <3>1, <3>3, CallFields DEF IInv, NamedInv, Opens
    <3>4. QED
      BY <3>2, <3>3
  <2>3. QED
    BY <2>1, <2>2 DEF NamedInv
<1>12. MeInv'
  <2>1. ASSUME NEW d \in MeCallers, call'[d].at = "answered", call'[d].answer = "ok"
        PROVE  /\ call'[d].cookie # NoSession
               /\ call'[d].account = session'[call'[d].cookie].account
    <3>1. /\ call[d].cookie # NoSession /\ call[d].cookie \in 0 .. MaxSession
          /\ session[call[d].cookie].state # "unused" \/ call[d].cookie = NoSession
      BY <1>2, <1>4, <2>1, CallFields DEF IInv, MeInv, NamedInv, Opens
    <3>2. session'[call[d].cookie].account = session[call[d].cookie].account
      BY <3>1, WebAssumptions DEF Stays, Sessions
    <3>3. CASE d = c
      BY <1>2, <1>4, <2>1, <3>1, <3>2, <3>3
    <3>4. CASE d # c
      BY <1>4, <2>1, <3>1, <3>2, <3>4 DEF IInv, MeInv
    <3>5. QED
      BY <3>3, <3>4
  <2>2. \A d \in MeCallers : call'[d].at \in {"sent", "answered"} =>
            call[d].at \in {"sent", "answered"} /\ call'[d].cookie = call[d].cookie
    BY <1>4, <1>5
  <2>3. QED
    BY <1>3, <2>1, <2>2 DEF IInv, MeInv
<1>13. ShownIsCookie'
  <2> SUFFICES ASSUME ~overlap, user # None, cookie # NoSession, ~Active("refresh")
               PROVE  user = session'[cookie].account
    BY <1>3, <1>5 DEF IInv, ShownIsCookie
  <2>1. user = session[cookie].account /\ session[cookie].state # "unused"
    BY DEF IInv, ShownIsCookie, NamedInv, Opens
  <2>2. cookie \in Sessions
    BY <1>10, WebAssumptions DEF Sessions
  <2>3. QED
    BY <2>1, <2>2 DEF Stays
<1>14. QED
  BY <1>6, <1>7, <1>8, <1>11, <1>12, <1>13 DEF IInv

-----------------------------------------------------------------------------
(* The steps of the server.                                                *)

\* GET /auth/me.
LEMMA ServeMeStep ==
    ASSUME IInv, NEW c \in MeCallers, ServeMe(c)
    PROVE  IInv'
<1>1. call[c].at = "sent" /\ UNCHANGED server /\ call[c].cookie \in 0 .. MaxSession
  BY CallFields DEF ServeMe
<1>2. /\ session' \in [Sessions -> Session] /\ Stays /\ forced' \subseteq Accounts
      /\ NoSession \in 0 .. MaxSession
  BY <1>1, WebAssumptions DEF IInv, TypeOK, Stays
<1>3. CASE Valid(call[c].cookie)
  <2>1. /\ call[c].cookie # NoSession
        /\ session[call[c].cookie].account \in Accounts \cup {None}
    BY <1>1, <1>3, WebAssumptions DEF Valid, IInv, TypeOK, Sessions, Session
  <2>2. Answer(c, "ok", session[call[c].cookie].account, NoSession)
    BY <1>3 DEF ServeMe
  <2>3. QED
    BY <1>1, <1>2, <2>1, <2>2, Answered
<1>4. CASE ~Valid(call[c].cookie)
  <2>1. PICK a \in {"refused", "refreshable"} : Answer(c, a, None, NoSession)
    BY <1>4 DEF ServeMe
  <2>2. QED
    BY <1>1, <1>2, <2>1, Answered
<1>5. QED
  BY <1>3, <1>4

\* POST /auth/refresh.
LEMMA ServeRotateStep ==
    ASSUME IInv, ServeRotate
    PROVE  IInv'
<1> DEFINE s == call["rotate"].cookie
<1>1. call["rotate"].at = "sent" /\ UNCHANGED forced /\ s \in 0 .. MaxSession
  BY CallFields DEF ServeRotate
<1>2. session \in [Sessions -> Session] /\ forced' \subseteq Accounts
  BY <1>1 DEF IInv, TypeOK
<1>3. CASE s # NoSession /\ session[s].state = "live"
  <2>1. PICK t \in Sessions : t = NewSession /\ session[t].state = "unused"
    BY <1>3, NewIsUnused DEF ServeRotate
  <2>2. PICK o : o = Opened(session[s].account, "pending", s)
    OBVIOUS
  <2>3. o \in Session /\ o.state = "pending"
    BY <1>1, <1>2, <1>3, <2>2, WebAssumptions DEF Opened, Session, Sessions
  <2>4. session' = [session EXCEPT ![t] = o] /\ Answer("rotate", "ok", None, t)
    BY <1>3, <2>1, <2>2 DEF ServeRotate
  <2>5. session' \in [Sessions -> Session] /\ Stays /\ session'[t].state # "unused"
    BY <1>2, <2>1, <2>3, <2>4 DEF Stays
  <2>6. t \in 0 .. MaxSession
    BY WebAssumptions DEF Sessions
  <2>7. QED
    BY <1>1, <1>2, <2>4, <2>5, <2>6, Answered
<1>4. CASE ~(s # NoSession /\ session[s].state = "live")
  <2>1. Answer("rotate", "refused", None, NoSession) /\ UNCHANGED session
    BY <1>4 DEF ServeRotate
  <2>2. Stays /\ NoSession \in 0 .. MaxSession
    BY <2>1, WebAssumptions DEF Stays
  <2>3. QED
    BY <1>1, <1>2, <2>1, <2>2, Answered
<1>5. QED
  BY <1>3, <1>4

\* The transaction of a refresh commits, or fails.
LEMMA CommitStep ==
    ASSUME IInv, NEW s \in Sessions, Commit(s)
    PROVE  IInv'
<1>1. session \in [Sessions -> Session] /\ session[s].state = "pending"
  BY DEF IInv, TypeOK, Commit
<1>2. session' \in [Sessions -> Session] /\ Stays
  <2>1. CASE session' = [session EXCEPT ![s].state = "dead"]
    BY <1>1, <2>1 DEF Stays, Session
  <2>2. CASE session' = [t \in Sessions |->
                 CASE t = s                 -> [session[t] EXCEPT !.state = "live"]
                   [] t = session[s].parent -> [session[t] EXCEPT !.state = "dead"]
                   [] OTHER                 -> session[t]]
    <3>1. \A t \in Sessions : /\ session[t] \in Session
                              /\ [session[t] EXCEPT !.state = "live"] \in Session
                              /\ [session[t] EXCEPT !.state = "dead"] \in Session
      BY <1>1 DEF Session
    <3>2. \A t \in Sessions :
              \/ session'[t] = session[t]
              \/ session'[t] = [session[t] EXCEPT !.state = "live"]
              \/ session'[t] = [session[t] EXCEPT !.state = "dead"]
      BY <2>2
    <3>3. session' \in [Sessions -> Session]
      BY <2>2, <3>1, <3>2
    <3>4. Stays
      BY <1>1, <3>1, <3>2 DEF Stays, Session
    <3>5. QED
      BY <3>3, <3>4
  <2>3. QED
    BY <2>1, <2>2 DEF Commit
<1>3. QED
  BY <1>2, SessionsMove DEF Commit

\* POST /auth/login and /auth/password/change.
LEMMA ServeFormStep ==
    ASSUME IInv, NEW f \in Forms, ServeForm(f)
    PROVE  IInv'
<1> DEFINE s == call[f].cookie
           a == IF f = "login" THEN call[f].account ELSE session[s].account
<1>1. /\ call[f].at = "sent" /\ s \in 0 .. MaxSession /\ f \in Callers
      /\ call[f].account \in Accounts \cup {None}
  BY CallFields DEF ServeForm
<1>2. session \in [Sessions -> Session] /\ forced \subseteq Accounts
  BY DEF IInv, TypeOK
<1>3. CASE Answer(f, "refused", None, NoSession) /\ UNCHANGED server
  <2>1. Stays /\ NoSession \in 0 .. MaxSession
    BY <1>3, WebAssumptions DEF Stays
  <2>2. QED
    BY <1>1, <1>2, <1>3, <2>1, Answered
<1>4. CASE /\ Unused # {}
           /\ f = "change" => Valid(s)
           /\ session' = [t \in Sessions |->
                  IF t = NewSession THEN Opened(a, "live", 0)
                  ELSE IF f = "change" /\ session[t].account = a
                  THEN [session[t] EXCEPT !.state = "dead"] ELSE session[t]]
           /\ forced' = IF f = "change" THEN forced \ {a} ELSE forced
           /\ Answer(f, "ok", None, NewSession)
  <2>1. PICK t \in Sessions : t = NewSession /\ session[t].state = "unused"
    BY <1>4, NewIsUnused
  <2>2. a \in Accounts \cup {None}
    BY <1>1, <1>2, <1>4, WebAssumptions DEF Valid, Sessions, Session
  <2>3. PICK o : o = Opened(a, "live", 0)
    OBVIOUS
  <2>4. o \in Session /\ o.state = "live"
    BY <2>2, <2>3, WebAssumptions DEF Opened, Session
  <2>5. \A u \in Sessions : /\ session[u] \in Session
                            /\ [session[u] EXCEPT !.state = "dead"] \in Session
    BY <1>2 DEF Session
  <2>6. /\ \A u \in Sessions \ {t} :
               \/ session'[u] = session[u]
               \/ session'[u] = [session[u] EXCEPT !.state = "dead"]
        /\ session'[t] = o
    BY <1>4, <2>1, <2>3
  <2>7. session' \in [Sessions -> Session]
    BY <1>4, <2>1, <2>3, <2>4, <2>5
  <2>8. Stays
    <3> SUFFICES ASSUME NEW u \in Sessions, session[u].state # "unused"
                 PROVE  session'[u].state # "unused" /\ session'[u].account = session[u].account
      BY DEF Stays
    <3>1. session[u] \in Session /\ u # t
      BY <1>2, <2>1
    <3>2. CASE session'[u] = session[u]
      BY <3>2
    <3>3. CASE session'[u] = [session[u] EXCEPT !.state = "dead"]
      BY <3>1, <3>3 DEF Session
    <3>4. QED
      BY <2>6, <3>1, <3>2, <3>3
  <2>9. t \in 0 .. MaxSession /\ forced' \subseteq Accounts /\ Answer(f, "ok", None, t)
    BY <1>2, <1>4, <2>1, WebAssumptions DEF Sessions
  <2>10. session'[t].state # "unused"
    BY <2>4, <2>6
  <2>11. QED
    BY <1>1, <2>7, <2>8, <2>9, <2>10, Answered
<1>5. QED
  BY <1>3, <1>4 DEF ServeForm

\* POST /auth/logout.
LEMMA ServeLogoutStep ==
    ASSUME IInv, ServeLogout
    PROVE  IInv'
<1>1. session \in [Sessions -> Session] /\ forced' \subseteq Accounts
  BY DEF IInv, TypeOK, ServeLogout
<1>2. session' \in [Sessions -> Session] /\ Stays
  BY <1>1 DEF ServeLogout, Stays, Session
<1>3. NoSession \in 0 .. MaxSession
  BY WebAssumptions
<1>4. QED
  BY <1>1, <1>2, <1>3, Answered DEF ServeLogout

\* Any other endpoint.
LEMMA ServeRequestStep ==
    ASSUME IInv, NEW b \in Requests, ServeRequest(b)
    PROVE  IInv'
<1>1. PICK a \in {"ok", "refused"} : Answer(b, a, None, NoSession)
  BY DEF ServeRequest
<1>2. /\ session' \in [Sessions -> Session] /\ Stays /\ forced' \subseteq Accounts
      /\ NoSession \in 0 .. MaxSession /\ b \notin MeCallers
  BY WebAssumptions DEF IInv, TypeOK, Stays, ServeRequest
<1>3. QED
  BY <1>1, <1>2, Answered DEF ServeRequest

\* A session expires or is ended.
LEMMA EndSessionStep ==
    ASSUME IInv, NEW s \in Sessions, EndSession(s)
    PROVE  IInv'
<1>1. session \in [Sessions -> Session]
  BY DEF IInv, TypeOK
<1>2. session' \in [Sessions -> Session] /\ Stays
  <2>1. CASE session' = [session EXCEPT ![s].fresh = FALSE]
    BY <1>1, <2>1 DEF Stays, Session
  <2>2. CASE session' = [session EXCEPT ![s].state = "dead"]
    BY <1>1, <2>2 DEF Stays, Session
  <2>3. QED
    BY <2>1, <2>2 DEF EndSession
<1>3. QED
  BY <1>2, SessionsMove DEF EndSession

\* A call fails, or its answer is lost.
LEMMA CallFailsStep ==
    ASSUME IInv, NEW c \in Callers, CallFails(c)
    PROVE  IInv'
<1>1. /\ session' \in [Sessions -> Session] /\ Stays /\ forced' \subseteq Accounts
      /\ NoSession \in 0 .. MaxSession
  BY WebAssumptions DEF IInv, TypeOK, Stays, CallFails
<1>2. call[c].at \in {"sent", "answered"} /\ Answer(c, "failed", None, NoSession)
  BY DEF CallFails
<1>3. QED
  BY <1>1, <1>2, Answered

-----------------------------------------------------------------------------
(* The steps of the page.                                                  *)

\* authApi.me() is answered.
LEMMA MeAnsweredStep ==
    ASSUME IInv, NEW c \in MeCallers, MeAnswered(c)
    PROVE  IInv'
<1>1. TypeOK'
  <2>1. call[c] \in Call /\ call \in [Callers -> Call] /\ c \in Callers
    BY CallFields
  <2>2. call' \in [Callers -> Call]
    BY <2>1, NoCallFields DEF MeAnswered, Ended, RefreshEnded
  <2>3. user' \in Accounts \cup {None} /\ mustChange' \in BOOLEAN
    BY <2>1 DEF MeAnswered, Call
  <2>4. page' \in {"start", "login", "change", "app"}
    BY DEF IInv, TypeOK, MeAnswered, GuardedPage
  <2>5. rotation' \in {"none", "posting", "syncing", "routing", "resolved", "rejected"}
    BY DEF IInv, TypeOK, MeAnswered
  <2>6. QED
    BY <2>2, <2>3, <2>4, <2>5 DEF IInv, TypeOK, MeAnswered
<1>2. BootInv'
  BY WebAssumptions DEF IInv, TypeOK, BootInv, RotationInv, MeAnswered, Ended,
     GuardedPage, FormsWaiting, RefreshEnded, NoCall, Sent
<1>3. RotationInv'
  BY WebAssumptions DEF IInv, TypeOK, BootInv, RotationInv, MeAnswered, Ended,
     GuardedPage, FormsWaiting, RefreshEnded, NoCall, Sent
<1>4. PageInv'
  BY WebAssumptions DEF IInv, TypeOK, PageInv, BootInv, RotationInv, MeAnswered,
     Ended, GuardedPage, FormsWaiting, RefreshEnded, NoCall, Sent
<1>5. NamedInv'
  BY WebAssumptions DEF IInv, TypeOK, NamedInv, MeAnswered, Ended, GuardedPage,
     FormsWaiting, RefreshEnded, Opens, NoCall, Sent
<1>6. MeInv'
  BY WebAssumptions DEF IInv, TypeOK, MeInv, RotationInv, BootInv, PageInv,
     MeAnswered, Ended, GuardedPage, FormsWaiting, RefreshEnded, NoCall, Sent
<1>7. ShownIsCookie'
  BY DEF IInv, ShownIsCookie, MeInv, RotationInv, BootInv, PageInv, MeAnswered, Ended,
     GuardedPage, FormsWaiting, RefreshEnded, NoCall, Sent
<1>8. AppNeedsUser'
  BY DEF IInv, AppNeedsUser, RotationInv, BootInv, PageInv, MeAnswered, Ended,
     GuardedPage, FormsWaiting, RefreshEnded, NoCall, Sent
<1>9. QED
  BY <1>1, <1>2, <1>3, <1>4, <1>5, <1>6, <1>7, <1>8 DEF IInv

\* The refresh handler routes a user who has to change the password.
LEMMA RotationEndsStep ==
    ASSUME IInv, RotationEnds
    PROVE  IInv'
<1>1. TypeOK'
  BY SentFields, NoCallFields, CallFields, WebAssumptions DEF IInv, TypeOK,
     RotationEnds, GuardedPage, Protected, NeedsRouting, FormsWaiting
<1>2. BootInv'
  BY DEF IInv, BootInv, RotationEnds, GuardedPage, Protected, NeedsRouting, NoCall,
     FormsWaiting
<1>3. RotationInv'
  BY DEF IInv, RotationInv, RotationEnds, GuardedPage, Protected, NeedsRouting,
     NoCall, FormsWaiting
<1>4. PageInv'
  BY DEF IInv, PageInv, RotationEnds, GuardedPage, Protected, NeedsRouting
<1>5. NamedInv'
  BY DEF IInv, NamedInv, RotationEnds, GuardedPage, Protected, NeedsRouting, Opens
<1>6. MeInv'
  BY DEF IInv, MeInv, RotationEnds, GuardedPage, Protected, NeedsRouting
<1>7. ShownIsCookie'
  BY DEF IInv, ShownIsCookie, RotationEnds, GuardedPage, Protected, NeedsRouting
<1>8. AppNeedsUser'
  BY DEF IInv, AppNeedsUser, RotationEnds, GuardedPage, Protected, NeedsRouting
<1>9. QED
  BY <1>1, <1>2, <1>3, <1>4, <1>5, <1>6, <1>7, <1>8 DEF IInv

\* The guard awaits bootstrap().
LEMMA NavigateStep ==
    ASSUME IInv, Navigate
    PROVE  IInv'
<1>1. TypeOK'
  BY SentFields, NoCallFields, CallFields, WebAssumptions DEF IInv, TypeOK, Navigate,
     FormsWaiting
<1>2. BootInv'
  BY WebAssumptions DEF IInv, TypeOK, BootInv, RotationInv, Navigate, FormsWaiting,
     NoCall, Sent
<1>3. RotationInv'
  BY DEF IInv, RotationInv, Navigate, FormsWaiting, NoCall, Sent
<1>4. PageInv'
  BY DEF IInv, PageInv, Navigate, FormsWaiting, NoCall, Sent
<1>5. NamedInv'
  BY DEF IInv, NamedInv, Navigate, FormsWaiting, Opens, NoCall, Sent
<1>6. MeInv'
  BY DEF IInv, MeInv, Navigate, FormsWaiting, NoCall, Sent
<1>7. ShownIsCookie'
  BY DEF IInv, ShownIsCookie, Navigate
<1>8. AppNeedsUser'
  BY DEF IInv, AppNeedsUser, Navigate
<1>9. QED
  BY <1>1, <1>2, <1>3, <1>4, <1>5, <1>6, <1>7, <1>8 DEF IInv

\* The guard lets the navigation through.
LEMMA NavigationEndsStep ==
    ASSUME IInv, NavigationEnds
    PROVE  IInv'
<1>1. TypeOK'
  BY SentFields, NoCallFields, CallFields, WebAssumptions DEF IInv, TypeOK,
     NavigationEnds, GuardedPage, FormsWaiting
<1>2. BootInv'
  BY DEF IInv, BootInv, NavigationEnds, GuardedPage, NoCall, FormsWaiting
<1>3. RotationInv'
  BY DEF IInv, RotationInv, NavigationEnds, GuardedPage, NoCall, FormsWaiting
<1>4. PageInv'
  BY DEF IInv, PageInv, NavigationEnds, GuardedPage
<1>5. NamedInv'
  BY DEF IInv, NamedInv, NavigationEnds, GuardedPage, Opens
<1>6. MeInv'
  BY DEF IInv, MeInv, NavigationEnds, GuardedPage
<1>7. ShownIsCookie'
  BY DEF IInv, ShownIsCookie, NavigationEnds, GuardedPage
<1>8. AppNeedsUser'
  BY DEF IInv, AppNeedsUser, NavigationEnds, GuardedPage
<1>9. QED
  BY <1>1, <1>2, <1>3, <1>4, <1>5, <1>6, <1>7, <1>8 DEF IInv

\* LoginPage.
LEMMA LoginStep ==
    ASSUME IInv, NEW a \in Accounts, Login(a)
    PROVE  IInv'
<1>1. TypeOK'
  BY SentFields, NoCallFields, CallFields, WebAssumptions DEF IInv, TypeOK, Login,
     SendForm, Send, FormsWaiting
<1>2. BootInv'
  BY DEF IInv, BootInv, Login, SendForm, Send, FormsWaiting, NoCall, Sent
<1>3. RotationInv'
  BY WebAssumptions DEF IInv, TypeOK, BootInv, RotationInv, Login, SendForm, Send,
     FormsWaiting, NoCall, Sent
<1>4. PageInv'
  BY WebAssumptions DEF IInv, TypeOK, PageInv, BootInv, RotationInv, Login, SendForm,
     Send, FormsWaiting, NoCall, Sent
<1>5. NamedInv'
  BY WebAssumptions DEF IInv, TypeOK, NamedInv, Login, SendForm, Send, FormsWaiting,
     Opens, NoCall, Sent
<1>6. MeInv'
  BY WebAssumptions DEF IInv, TypeOK, MeInv, RotationInv, BootInv, PageInv, Login,
     SendForm, Send, FormsWaiting, NoCall, Sent
<1>7. ShownIsCookie'
  BY DEF IInv, ShownIsCookie, MeInv, RotationInv, BootInv, PageInv, Login, SendForm,
     Send, FormsWaiting, NoCall, Sent
<1>8. AppNeedsUser'
  BY DEF IInv, AppNeedsUser, Login, SendForm, Send
<1>9. QED
  BY <1>1, <1>2, <1>3, <1>4, <1>5, <1>6, <1>7, <1>8 DEF IInv

\* PasswordChangePage.
LEMMA ChangeStep ==
    ASSUME IInv, Change
    PROVE  IInv'
<1>1. TypeOK'
  BY SentFields, NoCallFields, CallFields, WebAssumptions DEF IInv, TypeOK, Change,
     SendForm, Send, FormsWaiting
<1>2. BootInv'
  BY DEF IInv, BootInv, Change, SendForm, Send, FormsWaiting, NoCall, Sent
<1>3. RotationInv'
  BY WebAssumptions DEF IInv, TypeOK, BootInv, RotationInv, Change, SendForm, Send,
     FormsWaiting, NoCall, Sent
<1>4. PageInv'
  BY WebAssumptions DEF IInv, TypeOK, PageInv, BootInv, RotationInv, Change, SendForm,
     Send, FormsWaiting, NoCall, Sent
<1>5. NamedInv'
  BY WebAssumptions DEF IInv, TypeOK, NamedInv, Change, SendForm, Send, FormsWaiting,
     Opens, NoCall, Sent
<1>6. MeInv'
  BY WebAssumptions DEF IInv, TypeOK, MeInv, RotationInv, BootInv, PageInv, Change,
     SendForm, Send, FormsWaiting, NoCall, Sent
<1>7. ShownIsCookie'
  BY DEF IInv, ShownIsCookie, MeInv, RotationInv, BootInv, PageInv, Change, SendForm,
     Send, FormsWaiting, NoCall, Sent
<1>8. AppNeedsUser'
  BY DEF IInv, AppNeedsUser, Change, SendForm, Send
<1>9. QED
  BY <1>1, <1>2, <1>3, <1>4, <1>5, <1>6, <1>7, <1>8 DEF IInv

\* The logout button.
LEMMA LogoutStep ==
    ASSUME IInv, Logout
    PROVE  IInv'
<1>1. TypeOK'
  BY SentFields, NoCallFields, CallFields, WebAssumptions DEF IInv, TypeOK, Logout,
     Send, FormsWaiting
<1>2. BootInv'
  BY DEF IInv, BootInv, Logout, Send, FormsWaiting, NoCall, Sent
<1>3. RotationInv'
  BY DEF IInv, RotationInv, Logout, Send, FormsWaiting, NoCall, Sent
<1>4. PageInv'
  BY DEF IInv, PageInv, Logout, Send, FormsWaiting, NoCall, Sent
<1>5. NamedInv'
  BY DEF IInv, NamedInv, Logout, Send, FormsWaiting, Opens, NoCall, Sent
<1>6. MeInv'
  BY DEF IInv, MeInv, Logout, Send
<1>7. ShownIsCookie'
  BY DEF IInv, ShownIsCookie, Logout, Send
<1>8. AppNeedsUser'
  BY DEF IInv, AppNeedsUser, Logout, Send
<1>9. QED
  BY <1>1, <1>2, <1>3, <1>4, <1>5, <1>6, <1>7, <1>8 DEF IInv

\* Any request of a page.
LEMMA RequestStep ==
    ASSUME IInv, NEW b \in Requests, Request(b)
    PROVE  IInv'
<1>1. TypeOK'
  BY SentFields, NoCallFields, CallFields, WebAssumptions DEF IInv, TypeOK, Request,
     Send, FormsWaiting
<1>2. BootInv'
  BY WebAssumptions DEF IInv, BootInv, Request, Send, FormsWaiting, NoCall, Sent
<1>3. RotationInv'
  BY WebAssumptions DEF IInv, RotationInv, Request, Send, FormsWaiting, NoCall, Sent
<1>4. PageInv'
  BY WebAssumptions DEF IInv, PageInv, Request, Send, FormsWaiting, NoCall, Sent
<1>5. NamedInv'
  BY DEF IInv, NamedInv, Request, Send, FormsWaiting, Opens, NoCall, Sent
<1>6. MeInv'
  BY DEF IInv, MeInv, Request, Send, FormsWaiting, NoCall, Sent
<1>7. ShownIsCookie'
  BY DEF IInv, ShownIsCookie, Request, Send, FormsWaiting, NoCall, Sent
<1>8. AppNeedsUser'
  BY DEF IInv, AppNeedsUser, Request, Send
<1>9. QED
  BY <1>1, <1>2, <1>3, <1>4, <1>5, <1>6, <1>7, <1>8 DEF IInv

\* A 401 of any other call is a loss.
LEMMA CallRefusedStep ==
    ASSUME IInv, NEW c \in Requests \cup Forms, CallRefused(c)
    PROVE  IInv'
<1>1. TypeOK'
  BY SentFields, NoCallFields, CallFields, WebAssumptions DEF IInv, TypeOK,
     CallRefused, Ended, NotifyLost, Protected, FormsWaiting
<1>2. BootInv'
  BY DEF IInv, BootInv, CallRefused, Ended, NotifyLost, Protected, NoCall, FormsWaiting
<1>3. RotationInv'
  BY DEF IInv, RotationInv, CallRefused, Ended, NotifyLost, Protected, NoCall,
     FormsWaiting
<1>4. PageInv'
  BY DEF IInv, PageInv, CallRefused, Ended, NotifyLost, Protected, NoCall, FormsWaiting
<1>5. NamedInv'
  BY DEF IInv, NamedInv, CallRefused, Ended, NotifyLost, Protected, Opens, NoCall,
     FormsWaiting
<1>6. MeInv'
  BY WebAssumptions DEF IInv, MeInv, CallRefused, Ended, NotifyLost, Protected,
     FormsWaiting, NoCall, Sent
<1>7. ShownIsCookie'
  BY WebAssumptions DEF IInv, ShownIsCookie, CallRefused, Ended, NotifyLost,
     Protected, FormsWaiting, NoCall, Sent
<1>8. AppNeedsUser'
  BY DEF IInv, AppNeedsUser, CallRefused, Ended, NotifyLost, Protected
<1>9. QED
  BY <1>1, <1>2, <1>3, <1>4, <1>5, <1>6, <1>7, <1>8 DEF IInv

\* A call ends with nothing to do.
LEMMA CallEndsStep ==
    ASSUME IInv, NEW c \in Requests \cup Forms, CallEnds(c)
    PROVE  IInv'
<1>1. TypeOK'
  BY SentFields, NoCallFields, CallFields, WebAssumptions DEF IInv, TypeOK, CallEnds,
     Ended, FormsWaiting
<1>2. BootInv'
  BY DEF IInv, BootInv, CallEnds, Ended, NoCall, FormsWaiting
<1>3. RotationInv'
  BY DEF IInv, RotationInv, CallEnds, Ended, NoCall, FormsWaiting
<1>4. PageInv'
  BY DEF IInv, PageInv, CallEnds, Ended, NoCall, FormsWaiting
<1>5. NamedInv'
  BY DEF IInv, NamedInv, CallEnds, Ended, Opens, NoCall, FormsWaiting
<1>6. MeInv'
  BY WebAssumptions DEF IInv, MeInv, CallEnds, Ended, FormsWaiting, NoCall, Sent
<1>7. ShownIsCookie'
  BY WebAssumptions DEF IInv, ShownIsCookie, CallEnds, Ended, FormsWaiting, NoCall, Sent
<1>8. AppNeedsUser'
  BY DEF IInv, AppNeedsUser, CallEnds, Ended
<1>9. QED
  BY <1>1, <1>2, <1>3, <1>4, <1>5, <1>6, <1>7, <1>8 DEF IInv

\* store.logout ends the local session.
LEMMA LogoutAnsweredStep ==
    ASSUME IInv, LogoutAnswered
    PROVE  IInv'
<1>1. TypeOK'
  <2>1. call' \in [Callers -> Call]
    BY CallFields, NoCallFields DEF LogoutAnswered, Ended
  <2>2. cookie' \in 0 .. MaxSession
    BY WebAssumptions DEF IInv, TypeOK, LogoutAnswered
  <2>3. QED
    BY <2>1, <2>2 DEF IInv, TypeOK, LogoutAnswered
<1>2. BootInv'
  BY DEF IInv, BootInv, LogoutAnswered, Ended, NoCall, FormsWaiting
<1>3. RotationInv'
  BY DEF IInv, RotationInv, LogoutAnswered, Ended, NoCall, FormsWaiting
<1>4. PageInv'
  BY DEF IInv, PageInv, LogoutAnswered, Ended, NoCall, FormsWaiting
<1>5. NamedInv'
  BY DEF IInv, NamedInv, LogoutAnswered, Ended, FormsWaiting, Opens, NoCall, Sent
<1>6. MeInv'
  BY DEF IInv, MeInv, RotationInv, BootInv, PageInv, LogoutAnswered, Ended,
     FormsWaiting, NoCall, Sent
<1>7. ShownIsCookie'
  BY DEF IInv, ShownIsCookie, LogoutAnswered, Ended
<1>8. AppNeedsUser'
  BY DEF IInv, AppNeedsUser, LogoutAnswered, Ended
<1>9. QED
  BY <1>1, <1>2, <1>3, <1>4, <1>5, <1>6, <1>7, <1>8 DEF IInv

\* /me fails for good, for a call that was answered or waited for a refresh that
\* was rejected.
LEMMA MeFailsStep ==
    ASSUME IInv, NEW c \in MeCallers, NEW loss \in BOOLEAN, MeFails(c, loss),
           call[c].at = "answered" \/ (call[c].at = "waiting" /\ rotation = "rejected"),
           UNCHANGED <<server, cookie, navigation, auxiliary>>
    PROVE  IInv'
<1>1. call \in [Callers -> Call] /\ NoCall \in Call
  BY CallFields, NoCallFields
<1>2. call' \in [Callers -> Call]
  BY <1>1 DEF MeFails, Ended, RefreshEnded
<1>3. \A d \in Callers : call'[d] = call[d] \/ call'[d] = NoCall
  BY <1>1 DEF MeFails, Ended, RefreshEnded
<1>4. call'[c] = NoCall
  BY <1>1 DEF MeFails, Ended, RefreshEnded
<1>5. TypeOK'
  <2>1. lostNotified' \in BOOLEAN
    BY (lostNotified \/ loss) \in BOOLEAN DEF MeFails
  <2>2. QED
    BY <1>2, <2>1 DEF IInv, TypeOK, MeFails, Protected
<1>6. BootInv'
  BY <1>3, NoCallFields DEF IInv, BootInv, MeFails, Protected
<1>7. RotationInv'
  BY <1>1, NoCallFields, WebAssumptions
  DEF IInv, BootInv, RotationInv, MeFails, Ended, RefreshEnded, FormsWaiting
<1>8. PageInv'
  BY <1>3, NoCallFields DEF IInv, PageInv, MeFails, Protected
<1>9. NamedInv'
  BY <1>3, NoCallFields DEF IInv, NamedInv, Opens
<1>10. MeInv'
  BY <1>3, NoCallFields DEF IInv, MeInv
<1>11. ShownIsCookie'
  BY DEF ShownIsCookie, MeFails
<1>12. AppNeedsUser'
  <2> SUFFICES ASSUME ~overlap, page' = "app"
               PROVE  FALSE
    BY DEF AppNeedsUser
  <2>1. page = "app"
    BY DEF MeFails
  <2>2. c = "refresh" /\ FormsWaiting # {}
    BY <2>1 DEF IInv, BootInv, RotationInv
  <2>3. QED
    BY <2>1, <2>2 DEF IInv, PageInv, FormsWaiting
<1>13. QED
  BY <1>5, <1>6, <1>7, <1>8, <1>9, <1>10, <1>11, <1>12 DEF IInv

\* authApi.me() fails for good.
LEMMA MeRefusedStep ==
    ASSUME IInv, NEW c \in MeCallers, MeRefused(c)
    PROVE  IInv'
<1>1. PICK loss \in BOOLEAN : MeFails(c, loss)
  BY (call[c].answer # "failed" \/ call[c].retried) \in BOOLEAN DEF MeRefused
<1>2. QED
  BY <1>1, MeFailsStep DEF MeRefused

\* store.login and store.changePassword read /me with the new cookies.
LEMMA FormAnsweredStep ==
    ASSUME IInv, NEW f \in Forms, FormAnswered(f)
    PROVE  IInv'
<1>1. /\ call \in [Callers -> Call] /\ f \in Callers /\ f # "refresh"
      /\ call[f].issued \in 0 .. MaxSession /\ cookie' = call[f].issued
  BY CallFields DEF FormAnswered
<1>2. PICK n : n = [call[f] EXCEPT !.at = "syncing"]
  OBVIOUS
<1>3. /\ n \in Call /\ n.at = "syncing"
      /\ n.cookie = call[f].cookie /\ n.issued = call[f].issued
  BY <1>1, <1>2 DEF Call
<1>4. PICK m : m = Sent(call[f].issued, FALSE, None)
  OBVIOUS
<1>5. m \in Call /\ m.at = "sent" /\ m.cookie = cookie' /\ m.issued = NoSession
  BY <1>1, <1>4, SentFields
<1>6. call' = IF Active("refresh") THEN [call EXCEPT ![f] = n]
              ELSE [call EXCEPT ![f] = n, !["refresh"] = m]
  BY <1>1, <1>2, <1>4 DEF FormAnswered, WithRefresh
<1>7. /\ call' \in [Callers -> Call] /\ call'[f] = n
      /\ \A d \in Callers \ {f, "refresh"} : call'[d] = call[d]
      /\ call'["refresh"] = IF Active("refresh") THEN call["refresh"] ELSE m
  BY <1>1, <1>3, <1>5, <1>6
<1>8. /\ call[f].at = "answered"
      /\ UNCHANGED <<server, rotation, store, navigation, auxiliary>>
  BY DEF FormAnswered
<1>9. page # "start" /\ ~Active("bootstrap")
  BY <1>8 DEF IInv, BootInv
<1>10. f \in FormsWaiting' /\ Active("refresh")'
  BY <1>3, <1>5, <1>7 DEF FormsWaiting
<1>11. TypeOK'
  BY <1>1, <1>7, <1>8 DEF IInv, TypeOK
<1>12. BootInv'
  BY <1>7, <1>8, <1>9, WebAssumptions DEF IInv, BootInv
<1>13. RotationInv'
  BY <1>7, <1>8, <1>9, <1>10, WebAssumptions DEF IInv, RotationInv
<1>14. PageInv'
  BY <1>7, <1>8 DEF IInv, PageInv
<1>15. NamedInv'
  BY <1>1, <1>3, <1>5, <1>7, <1>8 DEF IInv, NamedInv, Opens
<1>16. MeInv'
  <2>1. CASE Active("refresh")
    <3>1. PICK g \in Forms : call[g].at = "syncing"
      BY <1>9, <2>1 DEF IInv, RotationInv, FormsWaiting
    <3>2. overlap
      BY <1>8, <3>1 DEF IInv, PageInv
    <3>3. QED
      BY <1>7, <1>8, <1>9, <2>1, <3>2 DEF IInv, MeInv
  <2>2. CASE ~Active("refresh")
    BY <1>5, <1>7, <1>8, <1>9, <2>2 DEF IInv, MeInv
  <2>3. QED
    BY <2>1, <2>2
<1>17. ShownIsCookie' /\ AppNeedsUser'
  BY <1>8, <1>10 DEF IInv, ShownIsCookie, AppNeedsUser
<1>18. QED
  BY <1>11, <1>12, <1>13, <1>14, <1>15, <1>16, <1>17 DEF IInv

\* A refreshable 401 waits for the shared refresh, or starts it.
LEMMA MeRefreshableStep ==
    ASSUME IInv, NEW c \in MeCallers, MeRefreshable(c)
    PROVE  IInv'
<1>1. /\ call \in [Callers -> Call] /\ c \in Callers /\ c # "rotate"
      /\ call[c].at = "answered" /\ cookie \in 0 .. MaxSession
      /\ UNCHANGED <<server, cookie, store, navigation, auxiliary>>
  BY CallFields DEF IInv, TypeOK, MeRefreshable
<1>2. PICK n : n = [call[c] EXCEPT !.at = "waiting", !.retried = TRUE]
  OBVIOUS
<1>3. /\ n \in Call /\ n.at = "waiting"
      /\ n.cookie = call[c].cookie /\ n.issued = call[c].issued
  BY <1>1, <1>2 DEF Call
<1>4. PICK m : m = Sent(cookie, FALSE, None)
  OBVIOUS
<1>5. m \in Call /\ m.at = "sent" /\ m.cookie = cookie /\ m.issued = NoSession
  BY <1>1, <1>4, SentFields
<1>6. \/ /\ rotation = "none" /\ rotation' = "posting"
         /\ call' = [call EXCEPT ![c] = n, !["rotate"] = m]
      \/ /\ rotation # "none" /\ rotation' = rotation
         /\ call' = [call EXCEPT ![c] = n]
  BY <1>1, <1>2, <1>4 DEF MeRefreshable
<1>7. /\ call' \in [Callers -> Call] /\ call'[c] = n
      /\ \A d \in Callers \ {c, "rotate"} : call'[d] = call[d]
      /\ call'["rotate"] = IF rotation = "none" THEN m ELSE call["rotate"]
  BY <1>1, <1>3, <1>5, <1>6
<1>8. TypeOK'
  BY <1>1, <1>6, <1>7 DEF IInv, TypeOK
<1>9. \A d \in Callers \ {"rotate"} : Active(d)' <=> Active(d)
  BY <1>1, <1>3, <1>7
<1>10. BootInv'
  BY <1>1, <1>9, WebAssumptions DEF IInv, BootInv
<1>11. RotationInv'
  <2>1. FormsWaiting' = FormsWaiting
    BY <1>7 DEF FormsWaiting
  <2>2. QED
    BY <1>1, <1>3, <1>6, <1>7, <2>1 DEF IInv, RotationInv
<1>12. PageInv'
  BY <1>1, <1>9 DEF IInv, PageInv
<1>13. NamedInv'
  BY <1>1, <1>3, <1>5, <1>7 DEF IInv, NamedInv, Opens
<1>14. MeInv'
  BY <1>1, <1>3, <1>7 DEF IInv, MeInv
<1>15. ShownIsCookie' /\ AppNeedsUser'
  BY <1>1, <1>9 DEF IInv, ShownIsCookie, AppNeedsUser
<1>16. QED
  BY <1>8, <1>10, <1>11, <1>12, <1>13, <1>14, <1>15 DEF IInv

\* The refresh is answered; whoever started it still waits for it.
LEMMA RotateAnsweredStep ==
    ASSUME IInv, RotateAnswered
    PROVE  IInv'
<1>1. /\ call \in [Callers -> Call] /\ call["rotate"].at = "answered"
      /\ call["rotate"].issued \in 0 .. MaxSession
      /\ UNCHANGED <<server, store, navigation, auxiliary>>
  BY CallFields DEF RotateAnswered
<1>2. rotation = "posting"
  BY <1>1 DEF IInv, RotationInv
<1>3. CASE call["rotate"].answer # "ok"
  <2>1. /\ rotation' = "rejected" /\ cookie' = cookie
        /\ call' = [call EXCEPT !["rotate"] = NoCall]
    BY <1>3 DEF RotateAnswered, Ended
  <2>2. /\ call' \in [Callers -> Call] /\ call'["rotate"] = NoCall
        /\ \A d \in Callers \ {"rotate"} : call'[d] = call[d]
    BY <1>1, <2>1, NoCallFields
  <2>3. TypeOK'
    BY <1>1, <2>1, <2>2 DEF IInv, TypeOK
  <2>4. BootInv' /\ PageInv'
    BY <1>1, <2>2, WebAssumptions DEF IInv, BootInv, PageInv
  <2>5. RotationInv'
    BY <1>2, <2>1, <2>2, NoCallFields DEF IInv, RotationInv, FormsWaiting
  <2>6. NamedInv'
    BY <1>1, <2>1, <2>2, NoCallFields DEF IInv, NamedInv, Opens
  <2>7. MeInv' /\ ShownIsCookie' /\ AppNeedsUser'
    BY <1>1, <2>1, <2>2 DEF IInv, MeInv, ShownIsCookie, AppNeedsUser
  <2>8. QED
    BY <2>3, <2>4, <2>5, <2>6, <2>7 DEF IInv
<1>4. CASE call["rotate"].answer = "ok"
  <2>1. PICK m : m = Sent(call["rotate"].issued, FALSE, None)
    OBVIOUS
  <2>2. /\ m \in Call /\ m.at = "sent" /\ m.issued = NoSession
        /\ m.cookie = call["rotate"].issued
    BY <1>1, <2>1, SentFields
  <2>3. /\ rotation' = "syncing" /\ cookie' = call["rotate"].issued
        /\ call' = IF Active("refresh") THEN [call EXCEPT !["rotate"] = NoCall]
                   ELSE [call EXCEPT !["rotate"] = NoCall, !["refresh"] = m]
    BY <1>1, <1>4, <2>1 DEF RotateAnswered, Ended, WithRefresh
  <2>4. /\ call' \in [Callers -> Call] /\ call'["rotate"] = NoCall
        /\ \A d \in Callers \ {"rotate", "refresh"} : call'[d] = call[d]
        /\ call'["refresh"] = IF Active("refresh") THEN call["refresh"] ELSE m
    BY <1>1, <2>2, <2>3, NoCallFields
  <2>5. \/ call["bootstrap"].at = "waiting" /\ ~Active("refresh")
        \/ call["refresh"].at = "waiting" /\ ~Active("bootstrap") /\ FormsWaiting # {}
    BY <1>2 DEF IInv, BootInv, RotationInv, FormsWaiting
  <2>6. Active("refresh")'
    BY <2>2, <2>4
  <2>7. TypeOK'
    BY <1>1, <2>3, <2>4 DEF IInv, TypeOK
  <2>8. BootInv' /\ PageInv'
    BY <1>1, <2>4, WebAssumptions DEF IInv, BootInv, PageInv
  <2>9. RotationInv'
    <3>1. FormsWaiting' = FormsWaiting
      BY <2>4 DEF FormsWaiting
    <3>2. QED
      BY <2>3, <2>4, <2>5, <3>1, NoCallFields DEF RotationInv
  <2>10. NamedInv'
    BY <1>1, <2>2, <2>3, <2>4, NoCallFields DEF IInv, NamedInv, Opens
  <2>11. MeInv'
    BY <1>1, <2>2, <2>3, <2>4, <2>5 DEF IInv, MeInv
  <2>12. ShownIsCookie' /\ AppNeedsUser'
    BY <1>1, <2>6 DEF IInv, ShownIsCookie, AppNeedsUser
  <2>13. QED
    BY <2>7, <2>8, <2>9, <2>10, <2>11, <2>12 DEF IInv
<1>5. QED
  BY <1>3, <1>4

\* The shared refresh has settled: the call is made again, or given up.
LEMMA ResumeStep ==
    ASSUME IInv, NEW c \in MeCallers, Resume(c)
    PROVE  IInv'
<1>1. CASE rotation = "rejected" /\ MeFails(c, TRUE)
  BY <1>1, MeFailsStep DEF Resume
<1>2. CASE /\ rotation = "resolved" /\ UNCHANGED <<rotation, store>>
           /\ call' = [call EXCEPT ![c] = Sent(cookie, TRUE, None)]
  <2>1. /\ call \in [Callers -> Call] /\ c \in Callers /\ call[c].at = "waiting"
        /\ cookie \in 0 .. MaxSession /\ UNCHANGED <<server, cookie, navigation, auxiliary>>
    BY CallFields DEF IInv, TypeOK, Resume
  <2>2. PICK n : n = Sent(cookie, TRUE, None)
    OBVIOUS
  <2>3. n \in Call /\ n.at = "sent" /\ n.cookie = cookie /\ n.issued = NoSession
    BY <2>1, <2>2, SentFields
  <2>4. /\ call' \in [Callers -> Call] /\ call'[c] = n
        /\ \A d \in Callers \ {c} : call'[d] = call[d]
    BY <1>2, <2>1, <2>2, <2>3
  <2>5. \A d \in Callers : Active(d)' <=> Active(d)
    BY <2>1, <2>3, <2>4
  <2>6. TypeOK'
    BY <1>2, <2>1, <2>4 DEF IInv, TypeOK
  <2>7. BootInv' /\ PageInv'
    BY <1>2, <2>1, <2>5 DEF IInv, BootInv, PageInv
  <2>8. RotationInv'
    BY <1>2, <2>4, <2>5 DEF IInv, RotationInv, FormsWaiting
  <2>9. NamedInv'
    BY <1>2, <2>1, <2>3, <2>4 DEF IInv, NamedInv, Opens
  <2>10. MeInv'
    BY <1>2, <2>1, <2>3, <2>4 DEF IInv, MeInv
  <2>11. ShownIsCookie' /\ AppNeedsUser'
    BY <1>2, <2>1, <2>5 DEF IInv, ShownIsCookie, AppNeedsUser
  <2>12. QED
    BY <2>6, <2>7, <2>8, <2>9, <2>10, <2>11 DEF IInv
<1>3. QED
  BY <1>1, <1>2 DEF Resume

-----------------------------------------------------------------------------
(* The theorems.                                                           *)

\* Store, router, client and cookies stay consistent, in whatever order the calls
\* are answered.
THEOREM Invariance == Spec => []IInv
<1>1. Init => IInv
  <2> SUFFICES ASSUME Init
               PROVE  IInv
    OBVIOUS
  <2>1. /\ call = [c \in Callers |-> NoCall] /\ rotation = "none" /\ page = "start"
        /\ user = None /\ mustChange = FALSE /\ navigation = FALSE
    BY DEF Init
  <2>2. cookie \in 0 .. MaxSession /\ 0 \in 0 .. MaxSession
    BY WebAssumptions DEF Init
  <2>3. PICK a \in Accounts : \E f \in BOOLEAN, st \in {"live", "dead"} :
            session = [s \in Sessions |->
                IF s = cookie THEN [account |-> a, parent |-> 0, fresh |-> f, state |-> st]
                ELSE [account |-> None, parent |-> 0, fresh |-> FALSE, state |-> "unused"]]
    BY DEF Init
  <2>4. session \in [Sessions -> Session] /\ Opens(cookie)
    BY <2>2, <2>3, WebAssumptions DEF Sessions, Session, Opens
  <2>5. TypeOK
    BY <2>1, <2>2, <2>4, NoCallFields DEF TypeOK, Init
  <2>6. \A c \in Callers : /\ ~Active(c) /\ call[c].at = "idle"
                           /\ call[c].cookie = NoSession /\ call[c].issued = NoSession
    BY <2>1, NoCallFields
  <2>7. BootInv /\ RotationInv /\ PageInv
    BY <2>1, <2>6 DEF BootInv, RotationInv, PageInv
  <2>8. NamedInv /\ MeInv
    BY <2>4, <2>6 DEF NamedInv, MeInv, Opens
  <2>9. ShownIsCookie /\ AppNeedsUser
    BY <2>1 DEF ShownIsCookie, AppNeedsUser
  <2>10. QED
    BY <2>5, <2>7, <2>8, <2>9 DEF IInv
<1>2. IInv /\ [Next]_vars => IInv'
  <2> SUFFICES ASSUME IInv, [Next]_vars
               PROVE  IInv'
    OBVIOUS
  <2>1. CASE Serve
    BY <2>1, ServeMeStep, ServeFormStep, ServeRequestStep, ServeRotateStep, ServeLogoutStep
    DEF Serve
  <2>2. CASE UserActs
    BY <2>2, NavigateStep, ChangeStep, LogoutStep, LoginStep, RequestStep DEF UserActs
  <2>3. CASE RotationEnds \/ NavigationEnds
    BY <2>3, RotationEndsStep, NavigationEndsStep
  <2>4. CASE \E c \in Callers : Handle(c)
    BY <2>4, MeAnsweredStep, MeRefusedStep, MeRefreshableStep, ResumeStep,
       FormAnsweredStep, CallRefusedStep, CallEndsStep, RotateAnsweredStep,
       LogoutAnsweredStep DEF Handle
  <2>5. CASE \E c \in Callers : CallFails(c)
    BY <2>5, CallFailsStep
  <2>6. CASE \E s \in Sessions : Commit(s) \/ EndSession(s)
    BY <2>6, CommitStep, EndSessionStep
  <2>7. CASE UNCHANGED vars
    <3>1. session' \in [Sessions -> Session] /\ Stays
      BY <2>7 DEF vars, IInv, TypeOK, Stays
    <3>2. QED
      BY <2>7, <3>1, SessionsMove DEF vars
  <2>8. QED
    BY <2>1, <2>2, <2>3, <2>4, <2>5, <2>6, <2>7 DEF Next
<1>3. QED
  BY <1>1, <1>2, PTL DEF Spec

\* Tables, calls and page keep their types.
THEOREM TypeCorrect == Spec => []TypeOK
<1>1. IInv => TypeOK
  BY DEF IInv
<1>2. QED
  BY <1>1, Invariance, PTL

\* router.ts, the loss handler: a navigation it starts finds no bootstrap under way.
THEOREM LossNeverWaits == Spec => []LossNeverWaitsForBootstrap
<1>1. IInv => LossNeverWaitsForBootstrap
  BY DEF IInv, BootInv, LossNeverWaitsForBootstrap, Protected
<1>2. QED
  BY <1>1, Invariance, PTL

\* stores/auth.ts: as long as the two forms keep apart, the user who is shown is the
\* one of the cookies; and a user is shown without cookies only when a form was sent
\* while a logout was under way.
THEOREM RightUserShown == Spec => []ShownIsCookie
<1>1. IInv => ShownIsCookie
  BY DEF IInv
<1>2. QED
  BY <1>1, Invariance, PTL

\* As long as the two forms keep apart, an application page has a user.
THEOREM AppHasUser == Spec => []AppNeedsUser
<1>1. IInv => AppNeedsUser
  BY DEF IInv
<1>2. QED
  BY <1>1, Invariance, PTL

==============================================================================
