------------------------ MODULE BrowserSessions_proofs ------------------------
(***************************************************************************)
(* BrowserSessions is type correct and keeps its promises for every number *)
(* of users, sessions, passwords and requests, however their transactions  *)
(* overlap and whichever of them are rolled back.                          *)
(***************************************************************************)
EXTENDS BrowserSessions, TLAPS

Active(r) == req[r] # None

\* The steps at which a request of each kind can be.
InPlace(r) ==
    /\ req[r].at = "auth" => req[r].op = "change"
    /\ req[r].at = "lock" => req[r].op \notin {"rotate", "logout"}
    /\ req[r].at = "check" => req[r].op \in {"login", "change"}
    /\ req[r].at \in {"revoke", "rows"} => req[r].op \in {"change", "reset", "disable"}
    /\ req[r].at = "session" => req[r].op \in {"rotate", "logout"}
    /\ req[r].at \in {"owner", "share"} => req[r].op = "rotate"
    /\ req[r].at = "commit" => req[r].op \in {"enable", "rotate", "logout"}

\* What a request names: its new session is no row yet, its old one is a row of
\* its user.
NamesRows(r) ==
    /\ req[r].op \in {"login", "change", "rotate"} =>
          req[r].fresh \in Sessions /\ sess[req[r].fresh] = None
    /\ req[r].op \in {"change", "rotate", "logout"} =>
          /\ req[r].session \in Sessions /\ sess[req[r].session] # None
          /\ sess[req[r].session].user = req[r].user
    /\ req[r].op \in {"change", "reset"} => req[r].new \in Passwords
    /\ req[r].op = "change" /\ req[r].at # "auth" => req[r].copy \in Row
    /\ req[r].op = "login" /\ req[r].at = "lock" => req[r].copy = None

\* From its lock on a request holds the user's row, ...
HoldsUser(r) ==
    /\ req[r].at \in {"check", "revoke", "rows"} => userLock[req[r].user] = r
    /\ req[r].op = "enable" /\ req[r].at = "commit" => userLock[req[r].user] = r

\* ... so that what a login read of it is still true, but for the time.
CopyIsTrue(r) ==
    req[r].op = "login" /\ req[r].at = "check" =>
        LET c == req[r].copy
            now == row[req[r].user]
        IN  /\ c \in Row /\ c.password = now.password /\ c.status = now.status
            /\ c.failed = now.failed /\ c.locked \in {now.locked, "future"}

\* A revocation has found every session its user has by the time it commits.
FindsAll(r) ==
    req[r].at = "rows" =>
        /\ \A s \in req[r].rows : sess[s] # None /\ sess[s].user = req[r].user
        /\ LiveSessions(req[r].user) \subseteq req[r].rows

\* A rotation holds its session; once it has read the account, the session stays
\* live and the account active until it commits.
HoldsSession(r) ==
    /\ req[r].op = "rotate" /\ req[r].at # "session" => sessLock[req[r].session] = r
    /\ req[r].op = "logout" /\ req[r].at = "commit" => sessLock[req[r].session] = r
    /\ req[r].op = "rotate" /\ req[r].at \in {"share", "commit"} =>
          ~sess[req[r].session].revoked /\ row[req[r].user].status = "ACTIVE"
    /\ req[r].op = "rotate" /\ req[r].at = "commit" => r \in keyShare[req[r].user]

RequestInv(r) ==
    /\ InPlace(r) /\ NamesRows(r) /\ HoldsUser(r) /\ CopyIsTrue(r)
    /\ FindsAll(r) /\ HoldsSession(r)

\* Two requests never reserve the same session.
FreshInv ==
    \A r, q \in Requests :
        Active(r) /\ Active(q) /\ req[r].fresh # None /\ req[r].fresh = req[q].fresh => r = q

\* Only a rotation about to commit holds a key share, and never beside FOR UPDATE.
ShareInv ==
    \A u \in Users :
        /\ \A r \in keyShare[u] : Active(r) /\ req[r].op = "rotate" /\ req[r].at = "commit"
        /\ userLock[u] # None => keyShare[u] = {}

\* A session that has a successor is revoked.
ParentInv ==
    \A s \in Sessions : sess[s] # None /\ sess[s].parent # None =>
        sess[sess[s].parent] # None /\ sess[sess[s].parent].revoked

\* The passwords checked in vain are among those counted on the row.
CountInv ==
    \A u \in Users :
        /\ row[u].locked = "none" => guesses[u] <= row[u].failed /\ guesses[u] < MaxFailures
        /\ row[u].locked = "past" => guesses[u] = 0
        /\ guesses[u] <= MaxFailures

TableInv ==
    /\ ParentInv /\ SingleSuccessor /\ SessionMatchesPassword /\ DisablingRevokes /\ CountInv

StateInv ==
    /\ TableInv /\ FreshInv /\ ShareInv
    /\ \A r \in Requests : Active(r) => RequestInv(r)

IInv == TypeOK /\ StateInv
-----------------------------------------------------------------------------
(* What a step of r may do to the requests, the locks and the tables.      *)

\* It leaves the other requests and their locks alone.
OthersKept(r) ==
    /\ \A q \in Requests : q # r => req'[q] = req[q]
    /\ \A q \in Requests, u \in Users : q # r =>
          (userLock[u] = q => userLock'[u] = q) /\ (q \in keyShare[u] => q \in keyShare'[u])
    /\ \A q \in Requests, s \in Sessions : q # r /\ sessLock[s] = q => sessLock'[s] = q

\* It keeps every session, revokes those it has locked, and opens the one it has
\* reserved, holding the user's row.
SessionsForward(r) ==
    \A s \in Sessions :
        /\ sess[s] # None =>
              /\ sess'[s] # None /\ sess'[s].user = sess[s].user
              /\ sess[s].revoked => sess'[s].revoked
              /\ sess'[s].revoked => sess[s].revoked \/ sessLock[s] = r
        /\ sess[s] = None /\ sess'[s] # None =>
              /\ r \in Requests /\ Active(r) /\ s = req[r].fresh
              /\ userLock[sess'[s].user] = r \/ r \in keyShare[sess'[s].user]

\* It writes only a user's row it has locked, but for the time, and disables none
\* that has a session it has not locked.
RowsForward(r) ==
    \A u \in Users :
        /\ userLock[u] # r =>
              /\ row'[u].password = row[u].password /\ row'[u].status = row[u].status
              /\ row'[u].failed = row[u].failed
              /\ row'[u].locked = row[u].locked \/ row[u].locked = "future"
        /\ row[u].status = "ACTIVE" /\ row'[u].status # "ACTIVE" =>
              \A s \in LiveSessions(u) : sessLock[s] = r

\* The first state satisfies the inductive invariant.
LEMMA InitInv == Init => IInv
<1> SUFFICES ASSUME Init PROVE IInv
  OBVIOUS
<1>1. row \in [Users -> Row]
  BY BrowserAssumptions DEF Init, Row
<1>2. TypeOK
  BY <1>1 DEF Init, TypeOK
<1>3. \A u \in Users : row[u].locked = "none" /\ row[u].status = "ACTIVE" /\ row[u].failed = 0
  BY DEF Init
<1>4. TableInv
  <2>1. ParentInv /\ SingleSuccessor
    BY DEF Init, ParentInv, SingleSuccessor
  <2>2. SessionMatchesPassword /\ DisablingRevokes
    BY DEF Init, SessionMatchesPassword, DisablingRevokes, LiveSessions
  <2>3. CountInv
    BY <1>3, BrowserAssumptions DEF Init, CountInv
  <2> QED BY <2>1, <2>2, <2>3 DEF TableInv
<1>5. FreshInv /\ ShareInv
  BY DEF Init, FreshInv, ShareInv, Active
<1>6. \A r \in Requests : ~Active(r)
  BY DEF Init, Active
<1> QED BY <1>2, <1>4, <1>5, <1>6 DEF IInv, StateInv

\* The requests that do not step keep their invariant.
LEMMA RequestKept ==
    ASSUME IInv, TypeOK', NEW r, OthersKept(r), SessionsForward(r), RowsForward(r),
           NEW q \in Requests, q # r, Active(q)
    PROVE  RequestInv(q)'
<1>1. PICK e : e = req[q]
  OBVIOUS
<1>2. e = req[q] /\ req'[q] = e /\ e \in Request
  BY <1>1 DEF OthersKept, IInv, TypeOK, Active
<1>3. TypeOK /\ RequestInv(q) /\ q # None
  BY BrowserAssumptions DEF IInv, StateInv
<1>4. e.user \in Users
  BY <1>2 DEF Request
<1>5. InPlace(q)'
  BY <1>2, <1>3 DEF RequestInv, InPlace
<1>6. NamesRows(q)'
  <2>1. ASSUME e.op \in {"login", "change", "rotate"}
        PROVE  e.fresh \in Sessions /\ sess'[e.fresh] = None
    <3>1. e.fresh \in Sessions /\ sess[e.fresh] = None
      BY <1>2, <1>3, <2>1 DEF RequestInv, NamesRows
    <3>2. e.fresh # None
      BY <3>1, BrowserAssumptions
    <3>3. ~(r \in Requests /\ Active(r) /\ e.fresh = req[r].fresh)
      BY <1>2, <3>2 DEF IInv, StateInv, FreshInv
    <3> QED BY <3>1, <3>3 DEF SessionsForward
  <2>2. e.op \in {"change", "rotate", "logout"} =>
          e.session \in Sessions /\ sess'[e.session] # None /\ sess'[e.session].user = e.user
    BY <1>2, <1>3 DEF RequestInv, NamesRows, SessionsForward
  <2>3. /\ e.op \in {"change", "reset"} => e.new \in Passwords
        /\ e.op = "change" /\ e.at # "auth" => e.copy \in Row
        /\ e.op = "login" /\ e.at = "lock" => e.copy = None
    BY <1>2, <1>3 DEF RequestInv, NamesRows
  <2> QED BY <1>2, <2>1, <2>2, <2>3 DEF NamesRows
<1>7. HoldsUser(q)'
  BY <1>2, <1>3, <1>4 DEF RequestInv, HoldsUser, OthersKept
<1>8. CopyIsTrue(q)'
  <2> SUFFICES ASSUME e.op = "login", e.at = "check"
               PROVE  /\ e.copy \in Row /\ e.copy.password = row'[e.user].password
                      /\ e.copy.status = row'[e.user].status
                      /\ e.copy.failed = row'[e.user].failed
                      /\ e.copy.locked \in {row'[e.user].locked, "future"}
    BY <1>2 DEF CopyIsTrue
  <2>1. userLock[e.user] = q
    BY <1>2, <1>3 DEF RequestInv, HoldsUser
  <2>2. /\ e.copy \in Row /\ e.copy.password = row[e.user].password
        /\ e.copy.status = row[e.user].status
        /\ e.copy.failed = row[e.user].failed
        /\ e.copy.locked \in {row[e.user].locked, "future"}
    BY <1>2, <1>3 DEF RequestInv, CopyIsTrue
  <2> QED BY <1>4, <2>1, <2>2 DEF RowsForward
<1>9. FindsAll(q)'
  <2> SUFFICES ASSUME e.at = "rows"
               PROVE  /\ \A s \in e.rows : sess'[s] # None /\ sess'[s].user = e.user
                      /\ LiveSessions(e.user)' \subseteq e.rows
    BY <1>2 DEF FindsAll
  <2>1. /\ \A s \in e.rows : sess[s] # None /\ sess[s].user = e.user
        /\ LiveSessions(e.user) \subseteq e.rows /\ e.rows \subseteq Sessions
    BY <1>2, <1>3 DEF RequestInv, FindsAll, Request
  <2>2. userLock[e.user] = q
    BY <1>2, <1>3 DEF RequestInv, HoldsUser
  <2>3. r \notin keyShare[e.user]
    BY <1>3, <1>4, <2>2 DEF IInv, StateInv, ShareInv
  <2>4. ASSUME NEW s \in LiveSessions(e.user)' PROVE s \in e.rows
    <3>1. s \in Sessions /\ sess'[s] # None /\ sess'[s].user = e.user /\ ~sess'[s].revoked
      BY <2>4 DEF LiveSessions
    <3>2. sess[s] # None
      BY <2>2, <2>3, <3>1 DEF SessionsForward
    <3>3. sess[s].user = e.user /\ ~sess[s].revoked
      BY <3>1, <3>2 DEF SessionsForward
    <3> QED BY <2>1, <3>1, <3>2, <3>3 DEF LiveSessions
  <2> QED BY <2>1, <2>4 DEF SessionsForward
<1>10. HoldsSession(q)'
  <2> DEFINE s == e.session
  <2>1. /\ e.op = "rotate" /\ e.at # "session" => sessLock[s] = q
        /\ e.op = "logout" /\ e.at = "commit" => sessLock[s] = q
        /\ e.op = "rotate" /\ e.at \in {"share", "commit"} =>
              ~sess[s].revoked /\ row[e.user].status = "ACTIVE"
        /\ e.op = "rotate" /\ e.at = "commit" => q \in keyShare[e.user]
    BY <1>2, <1>3 DEF RequestInv, HoldsSession
  <2>2. e.op \in {"rotate", "logout"} =>
          s \in Sessions /\ sess[s] # None /\ sess[s].user = e.user
    BY <1>2, <1>3 DEF RequestInv, NamesRows
  <2> HIDE DEF s
  <2>3. e.op \in {"rotate", "logout"} /\ sessLock[s] = q => sessLock'[s] = q
    BY <2>2 DEF OthersKept
  <2>4. ASSUME e.op = "rotate", e.at \in {"share", "commit"}
        PROVE  ~sess'[s].revoked /\ row'[e.user].status = "ACTIVE"
    <3>1. sessLock[s] = q /\ ~sess[s].revoked /\ row[e.user].status = "ACTIVE"
      BY <2>1, <2>4
    <3>2. s \in LiveSessions(e.user)
      BY <2>2, <2>4, <3>1 DEF LiveSessions
    <3> QED BY <1>4, <2>2, <2>4, <3>1, <3>2 DEF SessionsForward, RowsForward
  <2>5. e.op = "rotate" /\ e.at = "commit" => q \in keyShare'[e.user]
    BY <1>4, <2>1 DEF OthersKept
  <2> QED BY <1>2, <2>1, <2>3, <2>4, <2>5 DEF HoldsSession, s
<1> QED BY <1>5, <1>6, <1>7, <1>8, <1>9, <1>10 DEF RequestInv

\* The invariant after a step of r, from its parts.
LEMMA Assembled ==
    ASSUME IInv, TypeOK', NEW r, OthersKept(r), SessionsForward(r), RowsForward(r),
           TableInv', FreshInv', ShareInv', r \in Requests /\ Active(r)' => RequestInv(r)'
    PROVE  IInv'
<1>1. ASSUME NEW q \in Requests, Active(q)' PROVE RequestInv(q)'
  <2>1. CASE q = r
    BY <1>1, <2>1
  <2>2. CASE q # r
    <3>1. Active(q)
      BY <1>1, <2>2 DEF OthersKept, Active
    <3> QED BY <2>2, <3>1, RequestKept
  <2> QED BY <2>1, <2>2
<1> QED BY <1>1 DEF IInv, StateInv

\* A step that writes no table.
LEMMA Quiet ==
    ASSUME IInv, UNCHANGED tables
    PROVE  /\ TableInv' /\ \A r : SessionsForward(r) /\ RowsForward(r)
<1>1. row' = row /\ sess' = sess /\ guesses' = guesses
  BY DEF tables
<1>2. TableInv'
  BY <1>1 DEF IInv, StateInv, TableInv, ParentInv, SingleSuccessor, SessionMatchesPassword,
        DisablingRevokes, CountInv, LiveSessions
<1> QED BY <1>1, <1>2 DEF SessionsForward, RowsForward

\* No request reserves a session that another has reserved.
LEMMA FreshKept ==
    ASSUME FreshInv, NEW r, OthersKept(r),
           r \in Requests /\ Active(r)' =>
               \/ Active(r) /\ req'[r].fresh = req[r].fresh
               \/ req'[r].fresh = None \/ req'[r].fresh \notin Reserved
    PROVE  FreshInv'
<1> SUFFICES ASSUME NEW p \in Requests, NEW q \in Requests, Active(p)', Active(q)',
                    req'[p].fresh # None, req'[p].fresh = req'[q].fresh, p # q
             PROVE  FALSE
  BY DEF FreshInv, Active
<1>1. CASE p # r /\ q # r
  BY <1>1 DEF OthersKept, FreshInv, Active
<1>2. CASE p = r
  BY <1>2 DEF OthersKept, FreshInv, Active, Reserved
<1>3. CASE q = r
  BY <1>3 DEF OthersKept, FreshInv, Active, Reserved
<1> QED BY <1>1, <1>2, <1>3

\* The end of a transaction.
LEMMA Released ==
    ASSUME IInv, NEW r \in Requests, Release(r)
    PROVE  /\ userLock' \in [Users -> Requests \cup {None}]
           /\ keyShare' \in [Users -> SUBSET Requests]
           /\ sessLock' \in [Sessions -> Requests \cup {None}]
           /\ req' \in [Requests -> Request \cup {None}]
           /\ OthersKept(r) /\ FreshInv' /\ ShareInv' /\ ~Active(r)'
<1>1. TypeOK /\ FreshInv /\ ShareInv
  BY DEF IInv, StateInv
<1>2. /\ userLock' \in [Users -> Requests \cup {None}]
      /\ keyShare' \in [Users -> SUBSET Requests]
      /\ sessLock' \in [Sessions -> Requests \cup {None}]
      /\ req' \in [Requests -> Request \cup {None}]
  BY <1>1 DEF Release, TypeOK
<1>3. OthersKept(r)
  BY <1>1 DEF Release, TypeOK, OthersKept
<1>4. req'[r] = None
  BY <1>1 DEF Release, TypeOK
<1>5. FreshInv'
  BY <1>1, <1>3, <1>4, FreshKept DEF Active
<1>6. ShareInv'
  <2> SUFFICES ASSUME NEW u \in Users
               PROVE  /\ \A q \in keyShare'[u] :
                            req'[q] # None /\ req'[q].op = "rotate" /\ req'[q].at = "commit"
                      /\ userLock'[u] # None => keyShare'[u] = {}
    BY DEF ShareInv, Active
  <2>1. keyShare'[u] = keyShare[u] \ {r}
    BY DEF Release
  <2>2. userLock'[u] # None => userLock[u] # None
    BY DEF Release
  <2>3. \A q \in keyShare[u] : q \in Requests
    BY <1>1 DEF TypeOK
  <2> QED BY <1>1, <1>3, <2>1, <2>2, <2>3 DEF ShareInv, Active, OthersKept
<1> QED BY <1>2, <1>3, <1>4, <1>5, <1>6 DEF Active

\* A rollback.
LEMMA RollbackStep ==
    ASSUME IInv, NEW r \in Requests, Rollback(r)
    PROVE  IInv'
<1>1. Release(r) /\ UNCHANGED tables
  BY DEF Rollback
<1>2. TypeOK'
  BY <1>1, Released DEF IInv, TypeOK, tables
<1> QED BY <1>1, <1>2, Released, Quiet, Assembled
-----------------------------------------------------------------------------
(* The steps that write no table.                                          *)

\* Only a rotation about to commit shares a user's row.
LEMMA NoShare ==
    ASSUME IInv, NEW r \in Requests, Active(r) => req[r].op # "rotate" \/ req[r].at # "commit"
    PROVE  \A u \in Users : r \notin keyShare[u]
  BY DEF IInv, StateInv, ShareInv

\* A request goes on, and takes no lock but on sessions.
LEMMA Moved ==
    ASSUME IInv, NEW r \in Requests, NEW n \in Request, req' = [req EXCEPT ![r] = n],
           UNCHANGED <<tables, userLock, keyShare>>,
           sessLock' \in [Sessions -> Requests \cup {None}],
           \A q \in Requests, s \in Sessions : q # r /\ sessLock[s] = q => sessLock'[s] = q,
           Active(r) => req[r].op # "rotate" \/ req[r].at # "commit",
           \/ Active(r) /\ n.fresh = req[r].fresh
           \/ n.fresh = None \/ n.fresh \notin Reserved,
           RequestInv(r)'
    PROVE  IInv'
<1>1. TypeOK /\ FreshInv /\ ShareInv
  BY DEF IInv, StateInv
<1>2. TypeOK'
  BY <1>1 DEF TypeOK, tables
<1>3. OthersKept(r) /\ req'[r] = n
  BY <1>1 DEF TypeOK, OthersKept
<1>4. FreshInv'
  BY <1>1, <1>3, FreshKept
<1>5. ShareInv'
  <2>1. \A u \in Users : r \notin keyShare[u] /\ keyShare[u] \subseteq Requests
    BY <1>1, NoShare DEF TypeOK
  <2> QED BY <1>1, <1>3, <2>1 DEF ShareInv, OthersKept, Active
<1> QED BY <1>2, <1>3, <1>4, <1>5, Quiet, Assembled

\* The beginning of a request.
LEMMA Begun ==
    ASSUME IInv, NEW r \in Requests, NEW op \in Operations,
           NEW label \in {"auth", "lock", "session"}, NEW u \in Users,
           NEW s \in Sessions \cup {None}, NEW fresh \in Sessions \cup {None},
           NEW given \in Passwords \cup {None}, NEW new \in Passwords \cup {None},
           Begin(r, op, label, u, s, fresh, given, new),
           label = "lock" => op \in {"login", "reset", "disable", "enable"},
           label = "auth" <=> op = "change",
           label = "session" => op \in {"rotate", "logout"},
           IF op \in {"login", "change", "rotate"} THEN fresh \in Unused ELSE fresh = None,
           op \in {"change", "rotate", "logout"} =>
               s \in Sessions /\ sess[s] # None /\ u = sess[s].user,
           op \in {"change", "reset"} => new \in Passwords
    PROVE  IInv'
<1> DEFINE n == [op |-> op, at |-> label, user |-> u, session |-> s, fresh |-> fresh,
                 given |-> given, new |-> new, copy |-> None, rows |-> {}]
<1>1. n \in Request
  BY DEF Request
<1>2. /\ n.op = op /\ n.at = label /\ n.user = u /\ n.session = s /\ n.fresh = fresh
      /\ n.new = new /\ n.copy = None
  OBVIOUS
<1>3. req[r] = None /\ req' = [req EXCEPT ![r] = n] /\ UNCHANGED <<tables, locks>>
  BY DEF Begin
<1> HIDE DEF n
<1>4. TypeOK /\ req'[r] = n /\ UNCHANGED <<userLock, keyShare, sessLock, sess>>
  BY <1>3 DEF IInv, TypeOK, locks, tables
<1>5. fresh = None \/ (fresh \in Sessions /\ sess[fresh] = None /\ fresh \notin Reserved)
  BY DEF Unused
<1>6. op \in {"login", "change", "rotate"} => fresh \in Sessions /\ sess[fresh] = None
  BY DEF Unused
<1>7. InPlace(r)' /\ HoldsUser(r)' /\ CopyIsTrue(r)' /\ FindsAll(r)'
  BY <1>2, <1>4 DEF InPlace, HoldsUser, CopyIsTrue, FindsAll
<1>8. HoldsSession(r)'
  BY <1>2, <1>4 DEF HoldsSession
<1>9. NamesRows(r)'
  BY <1>2, <1>4, <1>6 DEF NamesRows
<1>10. RequestInv(r)'
  BY <1>7, <1>8, <1>9 DEF RequestInv
<1>11. ~Active(r)
  BY <1>3 DEF Active
<1> QED BY <1>1, <1>2, <1>3, <1>4, <1>5, <1>10, <1>11, Moved DEF TypeOK

\* The seven kinds of requests.
LEMMA BeginSteps ==
    ASSUME IInv, NEW r \in Requests, BeginRequest(r)
    PROVE  IInv'
<1> USE DEF Operations
<1>1. \A s \in Sessions : sess[s] # None => sess[s].user \in Users
  BY DEF IInv, TypeOK, Session
<1>2. Unused \subseteq Sessions
  BY DEF Unused
<1>3. ASSUME NEW u \in Users, NEW p \in Passwords, Login(r, u, p) PROVE IInv'
  <2>1. PICK f \in Unused : Begin(r, "login", "lock", u, None, f, p, None)
    BY <1>3 DEF Login
  <2> QED BY <1>2, <2>1, Begun
<1>4. ASSUME NEW u \in Users, NEW p \in Passwords, ResetPassword(r, u, p) PROVE IInv'
  BY <1>4, Begun DEF ResetPassword
<1>5. ASSUME NEW u \in Users, Disable(r, u) \/ Enable(r, u) PROVE IInv'
  BY <1>5, Begun DEF Disable, Enable
<1>6. ASSUME NEW s \in Sessions, Rotate(r, s) PROVE IInv'
  <2>1. PICK f \in Unused : Begin(r, "rotate", "session", sess[s].user, s, f, None, None)
    BY <1>6 DEF Rotate
  <2>2. sess[s] # None
    BY <1>6 DEF Rotate
  <2> QED BY <1>1, <1>2, <2>1, <2>2, Begun
<1>7. ASSUME NEW s \in Sessions, Logout(r, s) PROVE IInv'
  BY <1>1, <1>7, Begun DEF Logout
<1>8. ASSUME NEW s \in Sessions, NEW p \in Passwords, NEW n \in Passwords,
             ChangePassword(r, s, p, n)
      PROVE  IInv'
  <2>1. PICK f \in Unused : Begin(r, "change", "auth", sess[s].user, s, f, p, n)
    BY <1>8 DEF ChangePassword
  <2>2. sess[s] # None
    BY <1>8 DEF ChangePassword
  <2> QED BY <1>1, <1>2, <2>1, <2>2, Begun
<1> QED BY <1>3, <1>4, <1>5, <1>6, <1>7, <1>8 DEF BeginRequest

\* What a request that is under way knows.
LEMMA Under ==
    ASSUME IInv, NEW r \in Requests, NEW op, NEW label, At(r, op, label)
    PROVE  /\ Active(r) /\ req[r] \in Request /\ RequestInv(r)
           /\ req[r].op \in op /\ req[r].at = label /\ req[r].user \in Users
           /\ req[r].rows \subseteq Sessions
  BY DEF At, Active, IInv, StateInv, TypeOK, Request

\* The lock on the user's row.
LEMMA LockUserStep ==
    ASSUME IInv, NEW r \in Requests, LockUser(r)
    PROVE  IInv'
<1> DEFINE e == req[r]
           c == KeptCopy(r)
           label == CASE req[r].op \in {"login", "change"}  -> "check"
                      [] req[r].op \in {"reset", "disable"} -> "revoke"
                      [] req[r].op = "enable"               -> "commit"
           n == [e EXCEPT !.copy = c, !.at = label]
           u == e.user
<1>1. TypeOK /\ FreshInv /\ ShareInv /\ r # None
  BY BrowserAssumptions DEF IInv, StateInv
<1>2. /\ Active(r) /\ e \in Request /\ RequestInv(r) /\ e.at = "lock" /\ u \in Users
  BY Under DEF LockUser
<1>3. e.op \in Operations /\ e.op \notin {"rotate", "logout"}
  BY <1>2 DEF Request, RequestInv, InPlace
<1>4. c \in Row /\ (e.copy = None => c = row[u]) /\ (e.copy # None => c = e.copy)
  BY <1>1, <1>2 DEF KeptCopy, TypeOK, Request
<1>5. /\ label \in {"check", "revoke", "commit"}
      /\ label = "check" <=> e.op \in {"login", "change"}
      /\ label = "revoke" <=> e.op \in {"reset", "disable"}
      /\ label = "commit" <=> e.op = "enable"
  BY <1>3 DEF Operations
<1>6. /\ userLock[u] = None /\ keyShare[u] \subseteq {r}
      /\ userLock' = [userLock EXCEPT ![u] = r] /\ req' = [req EXCEPT ![r] = n]
      /\ UNCHANGED <<tables, keyShare, sessLock>>
  BY DEF LockUser, UserFree
<1> HIDE DEF c, label
<1>7. /\ n \in Request /\ n.op = e.op /\ n.at = label /\ n.user = u /\ n.copy = c
      /\ n.session = e.session /\ n.fresh = e.fresh /\ n.new = e.new
  BY <1>2, <1>4, <1>5 DEF Request
<1> HIDE DEF n, e, u
<1>8. req'[r] = n /\ req[r] = e /\ userLock'[u] = r
  BY <1>1, <1>2, <1>6 DEF TypeOK, e
<1>9. TypeOK'
  BY <1>1, <1>6, <1>7 DEF TypeOK, tables
<1>10. OthersKept(r)
  <2>1. \A q \in Requests : q # r => req'[q] = req[q]
    BY <1>1, <1>6 DEF TypeOK
  <2>2. \A q \in Requests, v \in Users : userLock[v] = q => userLock'[v] = q
    BY <1>1, <1>6, BrowserAssumptions DEF TypeOK
  <2> QED BY <1>6, <2>1, <2>2 DEF OthersKept
<1>11. FreshInv'
  BY <1>1, <1>2, <1>7, <1>8, <1>10, FreshKept
<1>12. ShareInv'
  <2>1. \A v \in Users : r \notin keyShare[v] /\ keyShare[v] \subseteq Requests
    BY <1>1, <1>2, <1>8, NoShare DEF TypeOK
  <2>2. \A v \in Users : v # u => userLock'[v] = userLock[v]
    BY <1>1, <1>6 DEF TypeOK
  <2>3. keyShare[u] = {}
    BY <1>2, <1>6, <2>1
  <2> QED BY <1>1, <1>6, <1>10, <2>1, <2>2, <2>3 DEF ShareInv, OthersKept, Active
<1>13. InPlace(r)'
  BY <1>3, <1>5, <1>7, <1>8 DEF InPlace, Operations
<1>14. NamesRows(r)'
  <2>1. sess' = sess /\ NamesRows(r)
    BY <1>2, <1>6 DEF RequestInv, tables
  <2> QED BY <1>4, <1>5, <1>7, <1>8, <2>1 DEF NamesRows, u
<1>15. HoldsUser(r)' /\ FindsAll(r)' /\ HoldsSession(r)'
  BY <1>3, <1>5, <1>7, <1>8 DEF HoldsUser, FindsAll, HoldsSession
<1>16. e.op = "login" => e.copy = None
  BY <1>2, <1>8 DEF RequestInv, NamesRows
<1>17. CopyIsTrue(r)'
  BY <1>4, <1>6, <1>7, <1>8, <1>16 DEF CopyIsTrue, tables
<1>18. RequestInv(r)'
  BY <1>13, <1>14, <1>15, <1>17 DEF RequestInv
<1> QED BY <1>6, <1>9, <1>10, <1>11, <1>12, <1>18, Quiet, Assembled
\* The other steps that write no table and do not end the request.
LEMMA QuietSteps ==
    ASSUME IInv, NEW r \in Requests,
           \/ Authenticate(r) \/ CheckChange(r) \/ FindSessions(r)
           \/ (\E s \in Sessions : LockRow(r, s)) \/ LockSession(r) \/ ReadOwner(r)
    PROVE  IInv'
<1>1. TypeOK /\ r # None
  BY BrowserAssumptions DEF IInv
<1>2. ASSUME Active(r), req[r].at # "commit", NEW n \in Request, req' = [req EXCEPT ![r] = n],
             UNCHANGED <<tables, locks>>, n.fresh = req[r].fresh, RequestInv(r)'
      PROVE  IInv'
  <2>1. UNCHANGED <<tables, userLock, keyShare>> /\ sessLock' = sessLock
    BY <1>2 DEF locks
  <2>2. sessLock \in [Sessions -> Requests \cup {None}]
    BY <1>1 DEF TypeOK
  <2> QED BY <1>2, <2>1, <2>2, Moved
<1>3. ASSUME Rollback(r) PROVE IInv'
  BY <1>3, RollbackStep
<1>4. CASE Authenticate(r)
  <2>1. /\ Active(r) /\ req[r] \in Request /\ RequestInv(r) /\ req[r].op = "change"
        /\ req[r].at = "auth" /\ req[r].user \in Users
    BY <1>4, Under DEF Authenticate
  <2>2. PICK e \in Request, u \in Users : e = req[r] /\ u = e.user
    BY <2>1
  <2>3. PICK n : n = [e EXCEPT !.copy = row[u], !.at = "lock"]
    OBVIOUS
  <2>4. row[u] \in Row
    BY <1>1 DEF TypeOK
  <2>5. /\ n \in Request /\ n.op = e.op /\ n.at = "lock" /\ n.user = u /\ n.copy = row[u]
        /\ n.session = e.session /\ n.fresh = e.fresh /\ n.new = e.new
    BY <2>2, <2>3, <2>4 DEF Request
  <2>6. ASSUME req' = [req EXCEPT ![r] = n], UNCHANGED <<tables, locks>> PROVE IInv'
    <3>1. req'[r] = n /\ sess' = sess /\ row' = row /\ UNCHANGED <<userLock, keyShare, sessLock>>
      BY <1>1, <2>6 DEF TypeOK, tables, locks
    <3>2. NamesRows(r)'
      BY <2>1, <2>2, <2>4, <2>5, <3>1 DEF RequestInv, NamesRows
    <3>3. InPlace(r)' /\ HoldsUser(r)' /\ CopyIsTrue(r)' /\ FindsAll(r)' /\ HoldsSession(r)'
      BY <2>1, <2>2, <2>5, <3>1 DEF InPlace, HoldsUser, CopyIsTrue, FindsAll, HoldsSession
    <3>4. RequestInv(r)'
      BY <3>2, <3>3 DEF RequestInv
    <3> QED BY <1>2, <2>1, <2>2, <2>5, <2>6, <3>4
  <2> QED BY <1>3, <1>4, <2>2, <2>3, <2>6 DEF Authenticate
<1>5. ASSUME NEW op, NEW from, At(r, op, from), NEW to \in {"revoke", "share"},
             from # "commit", Goto(r, to), UNCHANGED <<tables, locks>>,
             to = "revoke" => op = {"change"} /\ from = "check",
             to = "share" => /\ op = {"rotate"} /\ from = "owner"
                             /\ ~Spent(req[r].session) /\ row[req[r].user].status = "ACTIVE"
      PROVE  IInv'
  <2>1. /\ Active(r) /\ req[r] \in Request /\ RequestInv(r) /\ req[r].op \in op
        /\ req[r].at = from /\ req[r].user \in Users
    BY <1>5, Under
  <2>2. PICK e \in Request : e = req[r]
    BY <2>1
  <2>3. PICK n : n = [e EXCEPT !.at = to]
    OBVIOUS
  <2>4. /\ n \in Request /\ n.op = e.op /\ n.at = to /\ n.user = e.user /\ n.copy = e.copy
        /\ n.session = e.session /\ n.fresh = e.fresh /\ n.new = e.new
    BY <2>2, <2>3 DEF Request
  <2>5. req' = [req EXCEPT ![r] = n]
    BY <1>5, <2>2, <2>3 DEF Goto
  <2>6. req'[r] = n /\ sess' = sess /\ row' = row /\ UNCHANGED <<userLock, keyShare, sessLock>>
    BY <1>1, <1>5, <2>5 DEF TypeOK, tables, locks
  <2>7. NamesRows(r)'
    BY <1>5, <2>1, <2>2, <2>4, <2>6 DEF RequestInv, NamesRows
  <2>8. InPlace(r)' /\ HoldsUser(r)' /\ CopyIsTrue(r)' /\ FindsAll(r)'
    BY <1>5, <2>1, <2>2, <2>4, <2>6 DEF RequestInv, InPlace, HoldsUser, CopyIsTrue, FindsAll
  <2>9. HoldsSession(r)'
    BY <1>5, <2>1, <2>2, <2>4, <2>6 DEF RequestInv, HoldsSession, Spent
  <2>10. RequestInv(r)'
    BY <2>7, <2>8, <2>9 DEF RequestInv
  <2> QED BY <1>2, <1>5, <2>1, <2>2, <2>4, <2>5, <2>10
<1>6. CASE CheckChange(r)
  BY <1>3, <1>5, <1>6 DEF CheckChange
<1>7. CASE ReadOwner(r)
  BY <1>3, <1>5, <1>7 DEF ReadOwner
<1>8. CASE FindSessions(r)
  <2>1. /\ Active(r) /\ req[r] \in Request /\ RequestInv(r)
        /\ req[r].at = "revoke" /\ req[r].user \in Users
    BY <1>8, Under DEF FindSessions
  <2>2. PICK e \in Request, u \in Users : e = req[r] /\ u = e.user
    BY <2>1
  <2>3. PICK live : live = LiveSessions(u)
    OBVIOUS
  <2>4. /\ live \subseteq Sessions /\ \A s \in live : sess[s] # None /\ sess[s].user = u
    BY <2>3 DEF LiveSessions
  <2>5. PICK n : n = [e EXCEPT !.rows = live, !.at = "rows"]
    OBVIOUS
  <2>6. /\ n \in Request /\ n.op = e.op /\ n.at = "rows" /\ n.user = u /\ n.copy = e.copy
        /\ n.session = e.session /\ n.fresh = e.fresh /\ n.new = e.new /\ n.rows = live
    BY <2>2, <2>4, <2>5 DEF Request
  <2>7. req' = [req EXCEPT ![r] = n]
    BY <1>8, <2>2, <2>3, <2>5 DEF FindSessions
  <2>8. req'[r] = n /\ sess' = sess /\ row' = row /\ UNCHANGED <<userLock, keyShare, sessLock>>
    BY <1>1, <1>8, <2>7 DEF FindSessions, TypeOK, tables, locks
  <2>9. NamesRows(r)'
    BY <2>1, <2>2, <2>6, <2>8 DEF RequestInv, NamesRows
  <2>10. FindsAll(r)'
    BY <2>3, <2>4, <2>6, <2>8 DEF FindsAll, LiveSessions
  <2>11. InPlace(r)' /\ HoldsUser(r)' /\ CopyIsTrue(r)' /\ HoldsSession(r)'
    BY <2>1, <2>2, <2>6, <2>8 DEF RequestInv, InPlace, HoldsUser, CopyIsTrue, HoldsSession
  <2>12. RequestInv(r)'
    BY <2>9, <2>10, <2>11 DEF RequestInv
  <2>13. UNCHANGED <<tables, locks>>
    BY <1>8 DEF FindSessions
  <2> QED BY <1>2, <2>1, <2>2, <2>6, <2>7, <2>12, <2>13
<1>9. ASSUME NEW s \in Sessions, LockRow(r, s) PROVE IInv'
  <2>1. /\ Active(r) /\ req[r] \in Request /\ RequestInv(r)
        /\ req[r].at = "rows" /\ req[r].user \in Users
    BY <1>9, Under DEF LockRow
  <2>2. /\ sessLock[s] = None /\ sessLock' = [sessLock EXCEPT ![s] = r]
        /\ UNCHANGED <<tables, userLock, keyShare, req>>
    BY <1>9 DEF LockRow
  <2>3. /\ sessLock' \in [Sessions -> Requests \cup {None}]
        /\ \A q \in Requests, t \in Sessions : sessLock[t] = q => sessLock'[t] = q
    BY <1>1, <2>2, BrowserAssumptions DEF TypeOK
  <2>4. req' = [req EXCEPT ![r] = req[r]]
    BY <1>1, <2>2 DEF TypeOK
  <2>5. sess' = sess /\ row' = row
    BY <2>2 DEF tables
  <2>6. NamesRows(r)' /\ InPlace(r)' /\ HoldsUser(r)' /\ CopyIsTrue(r)' /\ HoldsSession(r)'
    BY <2>1, <2>2, <2>5 DEF RequestInv, NamesRows, InPlace, HoldsUser, CopyIsTrue, HoldsSession
  <2>7. FindsAll(r)'
    BY <2>1, <2>2, <2>5 DEF RequestInv, FindsAll, LiveSessions
  <2>8. RequestInv(r)'
    BY <2>6, <2>7 DEF RequestInv
  <2> QED BY <2>1, <2>2, <2>3, <2>4, <2>8, Moved
<1>10. CASE LockSession(r)
  <2>1. /\ Active(r) /\ req[r] \in Request /\ RequestInv(r)
        /\ req[r].op \in {"rotate", "logout"} /\ req[r].at = "session" /\ req[r].user \in Users
    BY <1>10, Under DEF LockSession
  <2>2. PICK e \in Request : e = req[r]
    BY <2>1
  <2>3. PICK label \in {"owner", "commit"} : label = IF e.op = "rotate" THEN "owner" ELSE "commit"
    OBVIOUS
  <2>4. PICK n : n = [e EXCEPT !.at = label]
    OBVIOUS
  <2>5. /\ n \in Request /\ n.op = e.op /\ n.at = label /\ n.user = e.user /\ n.copy = e.copy
        /\ n.session = e.session /\ n.fresh = e.fresh /\ n.new = e.new
    BY <2>2, <2>4 DEF Request
  <2>6. /\ e.session \in Sessions /\ sessLock[e.session] = None
        /\ sessLock' = [sessLock EXCEPT ![e.session] = r]
        /\ req' = [req EXCEPT ![r] = n] /\ UNCHANGED <<tables, userLock, keyShare>>
    BY <1>10, <2>1, <2>2, <2>3, <2>4 DEF LockSession, Goto, RequestInv, NamesRows
  <2>7. /\ sessLock' \in [Sessions -> Requests \cup {None}]
        /\ \A q \in Requests, t \in Sessions : sessLock[t] = q => sessLock'[t] = q
        /\ sessLock'[e.session] = r
    BY <1>1, <2>6, BrowserAssumptions DEF TypeOK
  <2>8. req'[r] = n /\ sess' = sess /\ row' = row
    BY <1>1, <2>6 DEF TypeOK, tables
  <2>9. NamesRows(r)' /\ InPlace(r)' /\ HoldsUser(r)' /\ CopyIsTrue(r)' /\ FindsAll(r)'
    BY <2>1, <2>2, <2>3, <2>5, <2>8
       DEF RequestInv, NamesRows, InPlace, HoldsUser, CopyIsTrue, FindsAll
  <2>10. HoldsSession(r)'
    BY <2>1, <2>2, <2>3, <2>5, <2>7, <2>8 DEF HoldsSession
  <2>11. RequestInv(r)'
    BY <2>9, <2>10 DEF RequestInv
  <2> QED BY <2>1, <2>2, <2>5, <2>6, <2>7, <2>11, Moved
<1> QED BY <1>4, <1>6, <1>7, <1>8, <1>9, <1>10

\* The key share that the insert of a rotated session takes.
LEMMA ShareUserStep ==
    ASSUME IInv, NEW r \in Requests, ShareUser(r)
    PROVE  IInv'
<1>1. TypeOK /\ FreshInv /\ ShareInv
  BY DEF IInv, StateInv
<1>2. /\ Active(r) /\ req[r] \in Request /\ RequestInv(r) /\ req[r].op = "rotate"
      /\ req[r].at = "share" /\ req[r].user \in Users
  BY Under DEF ShareUser
<1>3. PICK e \in Request, u \in Users : e = req[r] /\ u = e.user
  BY <1>2
<1>4. PICK n : n = [e EXCEPT !.at = "commit"]
  OBVIOUS
<1>5. /\ n \in Request /\ n.op = e.op /\ n.at = "commit" /\ n.user = u /\ n.copy = e.copy
      /\ n.session = e.session /\ n.fresh = e.fresh /\ n.new = e.new
  BY <1>3, <1>4 DEF Request
<1>6. /\ userLock[u] = None /\ keyShare' = [keyShare EXCEPT ![u] = keyShare[u] \cup {r}]
      /\ req' = [req EXCEPT ![r] = n] /\ UNCHANGED <<tables, userLock, sessLock>>
  BY <1>3, <1>4 DEF ShareUser, Goto
<1>7. req'[r] = n /\ sess' = sess /\ row' = row /\ r \in keyShare'[u]
  BY <1>1, <1>6 DEF TypeOK, tables
<1>8. TypeOK'
  BY <1>1, <1>5, <1>6 DEF TypeOK, tables
<1>9. OthersKept(r)
  BY <1>1, <1>6 DEF TypeOK, OthersKept
<1>10. FreshInv'
  BY <1>1, <1>2, <1>3, <1>5, <1>7, <1>9, FreshKept
<1>11. ShareInv'
  <2>1. \A v \in Users : r \notin keyShare[v] /\ keyShare[v] \subseteq Requests
    BY <1>1, <1>2, NoShare DEF TypeOK
  <2>2. \A v \in Users : v # u => keyShare'[v] = keyShare[v]
    BY <1>1, <1>6 DEF TypeOK
  <2>3. keyShare'[u] = keyShare[u] \cup {r}
    BY <1>1, <1>6 DEF TypeOK
  <2>4. n # None /\ n.op = "rotate"
    BY <1>2, <1>3, <1>5, BrowserAssumptions
  <2>5. \A q \in Requests : q # r => req'[q] = req[q]
    BY <1>9 DEF OthersKept
  <2> SUFFICES ASSUME NEW v \in Users
               PROVE  /\ \A q \in keyShare'[v] :
                            req'[q] # None /\ req'[q].op = "rotate" /\ req'[q].at = "commit"
                      /\ userLock'[v] # None => keyShare'[v] = {}
    BY DEF ShareInv, Active
  <2>6. CASE v = u
    BY <1>1, <1>5, <1>6, <1>7, <2>1, <2>3, <2>4, <2>5, <2>6 DEF ShareInv, Active
  <2>7. CASE v # u
    BY <1>1, <1>6, <2>1, <2>2, <2>5, <2>7 DEF ShareInv, Active
  <2> QED BY <2>6, <2>7
<1>12. NamesRows(r)' /\ InPlace(r)' /\ HoldsUser(r)' /\ CopyIsTrue(r)' /\ FindsAll(r)'
  BY <1>2, <1>3, <1>5, <1>7
     DEF RequestInv, NamesRows, InPlace, HoldsUser, CopyIsTrue, FindsAll
<1>13. HoldsSession(r)'
  BY <1>2, <1>3, <1>5, <1>6, <1>7 DEF RequestInv, HoldsSession
<1>14. RequestInv(r)'
  BY <1>12, <1>13 DEF RequestInv
<1> QED BY <1>6, <1>8, <1>9, <1>10, <1>11, <1>14, Quiet, Assembled
-----------------------------------------------------------------------------
(* The steps that write a table.                                           *)

\* Outside F the sessions of R are revoked and nothing else happens to a session.
RevokesOnly(R, F) ==
    \A s \in Sessions : s \notin F =>
        /\ sess[s] = None => sess'[s] = None
        /\ sess[s] # None =>
              /\ sess'[s] \in Session /\ sess'[s].user = sess[s].user
              /\ sess'[s].parent = sess[s].parent /\ sess'[s].password = sess[s].password
              /\ sess'[s].via = sess[s].via
              /\ sess'[s].revoked <=> sess[s].revoked \/ s \in R

\* What Revoked does, and what a new row beside it does.
LEMMA RevokedRows ==
    ASSUME TypeOK, NEW R \in SUBSET Sessions, \A s \in R : sess[s] # None
    PROVE  /\ sess' = Revoked(sess, R) =>
                 sess' \in [Sessions -> Session \cup {None}] /\ RevokesOnly(R, {})
           /\ \A f \in Sessions, n \in Session : sess' = [Revoked(sess, R) EXCEPT ![f] = n] =>
                 /\ sess' \in [Sessions -> Session \cup {None}]
                 /\ RevokesOnly(R, {f}) /\ sess'[f] = n
<1> DEFINE T == Revoked(sess, R)
<1>1. T = [s \in Sessions |-> IF s \in R THEN [sess[s] EXCEPT !.revoked = TRUE] ELSE sess[s]]
  BY DEF Revoked
<1>2. ASSUME NEW s \in R
      PROVE  /\ T[s] \in Session /\ T[s].user = sess[s].user /\ T[s].parent = sess[s].parent
             /\ T[s].password = sess[s].password /\ T[s].via = sess[s].via
             /\ T[s].revoked = TRUE
  <2>1. PICK e \in Session : e = sess[s]
    BY DEF TypeOK
  <2>2. T[s] = [e EXCEPT !.revoked = TRUE]
    BY <1>1, <2>1
  <2> HIDE DEF T
  <2> QED BY <2>1, <2>2 DEF Session
<1>3. \A s \in Sessions : s \notin R => T[s] = sess[s]
  BY <1>1
<1>4. T \in [Sessions -> Session \cup {None}]
  <2>1. \A s \in Sessions : T[s] \in Session \cup {None}
    BY <1>2, <1>3 DEF TypeOK
  <2>2. T = [s \in Sessions |-> T[s]]
    BY <1>1
  <2> HIDE DEF T
  <2> QED BY <2>1, <2>2
<1> HIDE DEF T
<1>5. ASSUME sess' = T
      PROVE  sess' \in [Sessions -> Session \cup {None}] /\ RevokesOnly(R, {})
  BY <1>2, <1>3, <1>4, <1>5 DEF RevokesOnly, TypeOK
<1>6. ASSUME NEW f \in Sessions, NEW n \in Session, sess' = [T EXCEPT ![f] = n]
      PROVE  /\ sess' \in [Sessions -> Session \cup {None}]
             /\ RevokesOnly(R, {f}) /\ sess'[f] = n
  <2>1. sess' \in [Sessions -> Session \cup {None}] /\ sess'[f] = n
    BY <1>4, <1>6
  <2>2. \A s \in Sessions : s # f => sess'[s] = T[s]
    BY <1>4, <1>6
  <2>3. RevokesOnly(R, {f})
    BY <1>2, <1>3, <2>2 DEF RevokesOnly, TypeOK
  <2> QED BY <2>1, <2>3
<1> QED BY <1>5, <1>6 DEF T

\* A new session: it has the password of its user's row, a disabled user gets it
\* from a password change only, and the session it replaces was live and ends now.
GoodSession(f, R) ==
    LET n == sess'[f] IN
    /\ sess[f] = None /\ n \in Session
    /\ n.password = row'[n.user].password
    /\ row'[n.user].status = "DISABLED" => n.via = "change"
    /\ n.parent # None => /\ n.parent \in R /\ sess[n.parent] # None
                          /\ ~sess[n.parent].revoked

\* The invariants of the sessions after a step that revokes R and opens F, when
\* it revokes every session of a user whose password it changes or whom it disables.
LEMMA SessionsKept ==
    ASSUME IInv, TypeOK', NEW R \in SUBSET Sessions, NEW F \in SUBSET Sessions, RevokesOnly(R, F),
           \A u \in Users : row'[u].password # row[u].password => LiveSessions(u) \subseteq R,
           \A u \in Users : row'[u].status = "DISABLED" /\ row[u].status # "DISABLED" =>
                LiveSessions(u) \subseteq R,
           \A f, g \in F : f = g, \A f \in F : GoodSession(f, R)
    PROVE  (ParentInv /\ SingleSuccessor /\ SessionMatchesPassword /\ DisablingRevokes)'
<1>1. /\ TypeOK /\ ParentInv /\ SingleSuccessor /\ SessionMatchesPassword /\ DisablingRevokes
  BY DEF IInv, StateInv, TableInv
<1>2. \A s \in Sessions : sess[s] # None =>
        s \notin F /\ sess[s].parent \in Sessions \cup {None} /\ sess[s].user \in Users
  BY <1>1 DEF GoodSession, TypeOK, Session
<1>3. ASSUME NEW s \in Sessions, sess'[s] # None, s \notin F
      PROVE  /\ sess[s] # None /\ sess'[s].user = sess[s].user
             /\ sess'[s].parent = sess[s].parent /\ sess'[s].password = sess[s].password
             /\ sess'[s].via = sess[s].via
             /\ sess'[s].revoked <=> sess[s].revoked \/ s \in R
  BY <1>3 DEF RevokesOnly
<1>4. ASSUME NEW p \in Sessions, sess[p] # None, sess[p].revoked \/ p \in R
      PROVE  sess'[p] # None /\ sess'[p].revoked
  BY <1>2, <1>4, BrowserAssumptions DEF RevokesOnly
<1>5. ParentInv'
  <2> SUFFICES ASSUME NEW s \in Sessions, sess'[s] # None, sess'[s].parent # None
               PROVE  sess'[sess'[s].parent] # None /\ sess'[sess'[s].parent].revoked
    BY DEF ParentInv
  <2>1. CASE s \in F
    BY <1>4, <2>1 DEF GoodSession
  <2>2. CASE s \notin F
    <3>1. sess[s] # None /\ sess'[s].parent = sess[s].parent
      BY <1>3, <2>2
    <3>2. sess[s].parent \in Sessions
      BY <1>2, <3>1
    <3>3. sess[sess[s].parent] # None /\ sess[sess[s].parent].revoked
      BY <1>1, <3>1 DEF ParentInv
    <3> QED BY <1>4, <3>1, <3>2, <3>3
  <2> QED BY <2>1, <2>2
<1>6. ASSUME NEW s \in Sessions, NEW f \in F, s \notin F, sess'[s] # None, sess'[f].parent # None
      PROVE  sess'[s].parent # sess'[f].parent
  <2>1. sess[s] # None /\ sess'[s].parent = sess[s].parent
    BY <1>3, <1>6
  <2>2. ~sess[sess'[f].parent].revoked
    BY <1>6 DEF GoodSession
  <2> QED BY <1>1, <1>6, <2>1, <2>2 DEF ParentInv
<1>7. SingleSuccessor'
  <2> SUFFICES ASSUME NEW s \in Sessions, NEW t \in Sessions, sess'[s] # None, sess'[t] # None,
                      sess'[s].parent # None, sess'[s].parent = sess'[t].parent
               PROVE  s = t
    BY DEF SingleSuccessor
  <2>1. CASE s \notin F /\ t \notin F
    BY <1>1, <1>3, <2>1 DEF SingleSuccessor
  <2>2. CASE s \in F /\ t \in F
    BY <2>2
  <2>3. CASE s \in F /\ t \notin F
    BY <1>6, <2>3
  <2>4. CASE s \notin F /\ t \in F
    BY <1>6, <2>4
  <2> QED BY <2>1, <2>2, <2>3, <2>4
<1>8. ASSUME NEW u \in Users, NEW s \in LiveSessions(u)', s \notin F
      PROVE  s \in LiveSessions(u) /\ s \notin R /\ sess'[s].password = sess[s].password
             /\ sess'[s].via = sess[s].via
  <2>1. s \in Sessions /\ sess'[s] # None /\ sess'[s].user = u /\ ~sess'[s].revoked
    BY <1>8 DEF LiveSessions
  <2> QED BY <1>3, <1>8, <2>1 DEF LiveSessions
<1>9. ASSUME NEW u \in Users, NEW s \in LiveSessions(u)', s \in F
      PROVE  /\ sess'[s].password = row'[u].password
             /\ row'[u].status = "DISABLED" => sess'[s].via = "change"
  <2>1. sess'[s].user = u
    BY <1>9 DEF LiveSessions
  <2> QED BY <1>9, <2>1 DEF GoodSession
<1>10. SessionMatchesPassword'
  <2> SUFFICES ASSUME NEW u \in Users, NEW s \in LiveSessions(u)'
               PROVE  sess'[s].password = row'[u].password
    BY DEF SessionMatchesPassword
  <2> QED BY <1>1, <1>8, <1>9 DEF SessionMatchesPassword
<1>11. DisablingRevokes'
  <2> SUFFICES ASSUME NEW u \in Users, row'[u].status = "DISABLED", NEW s \in LiveSessions(u)'
               PROVE  sess'[s].via = "change"
    BY DEF DisablingRevokes
  <2> QED BY <1>1, <1>8, <1>9 DEF DisablingRevokes
<1> QED BY <1>5, <1>7, <1>10, <1>11

\* What a step of r that writes the tables may do: make n of u's row, which it has
\* locked, revoke R, which it has locked, and open the session in F, its own.
Writes(r, u, n, R, F) ==
    /\ row' = [row EXCEPT ![u] = n] /\ (n # row[u] => userLock[u] = r)
    /\ sess' \in [Sessions -> Session \cup {None}] /\ guesses' \in [Users -> Nat]
    /\ RevokesOnly(R, F) /\ CountInv'
    /\ \A s \in R : sessLock[s] = r
    /\ n.password # row[u].password => LiveSessions(u) \subseteq R
    /\ n.status = "DISABLED" /\ row[u].status # "DISABLED" => LiveSessions(u) \subseteq R
    /\ \A f, g \in F : f = g
    /\ \A f \in F : /\ f = req[r].fresh /\ GoodSession(f, R) /\ sess'[f].user = u
                    /\ userLock[u] = r \/ r \in keyShare[u]

\* The invariant after such a step, which ends the transaction of r.
LEMMA Written ==
    ASSUME IInv, NEW r \in Requests, Active(r), Release(r), NEW u \in Users, NEW n \in Row,
           NEW R \in SUBSET Sessions, NEW F \in SUBSET Sessions, Writes(r, u, n, R, F)
    PROVE  IInv'
<1>1. TypeOK
  BY DEF IInv
<1>2. TypeOK'
  BY <1>1, Released DEF TypeOK, Writes
<1>3. row'[u] = n /\ \A v \in Users : v # u => row'[v] = row[v]
  BY <1>1 DEF TypeOK, Writes
<1>4. /\ \A v \in Users : row'[v].password # row[v].password => LiveSessions(v) \subseteq R
      /\ \A v \in Users : row'[v].status = "DISABLED" /\ row[v].status # "DISABLED" =>
            LiveSessions(v) \subseteq R
  BY <1>3 DEF Writes
<1>5. TableInv'
  <2>1. /\ RevokesOnly(R, F) /\ CountInv' /\ (\A f, g \in F : f = g)
        /\ \A f \in F : GoodSession(f, R)
    BY DEF Writes
  <2> QED BY <1>2, <1>4, <2>1, SessionsKept DEF TableInv
<1>6. SessionsForward(r)
  <2> SUFFICES ASSUME NEW s \in Sessions
               PROVE  /\ sess[s] # None =>
                            /\ sess'[s] # None /\ sess'[s].user = sess[s].user
                            /\ sess[s].revoked => sess'[s].revoked
                            /\ sess'[s].revoked => sess[s].revoked \/ sessLock[s] = r
                      /\ sess[s] = None /\ sess'[s] # None =>
                            /\ r \in Requests /\ Active(r) /\ s = req[r].fresh
                            /\ userLock[sess'[s].user] = r \/ r \in keyShare[sess'[s].user]
    BY DEF SessionsForward
  <2>1. CASE s \in F
    BY <2>1 DEF GoodSession, Writes
  <2>2. CASE s \notin F
    BY <2>2, BrowserAssumptions DEF RevokesOnly, Writes
  <2> QED BY <2>1, <2>2
<1>7. RowsForward(r)
  <2>1. row[u] \in Row
    BY <1>1 DEF TypeOK
  <2>2. \A v \in Users : row'[v].status \in {"ACTIVE", "DISABLED"}
    BY <1>2 DEF TypeOK, Row
  <2> QED BY <1>3, <1>4, <2>1, <2>2 DEF RowsForward, Writes
<1> QED BY <1>2, <1>5, <1>6, <1>7, Released, Assembled
\* A step that leaves the sessions alone revokes none.
LEMMA NoneRevoked ==
    ASSUME TypeOK, sess' = sess
    PROVE  sess' \in [Sessions -> Session \cup {None}] /\ RevokesOnly({}, {})
  BY DEF TypeOK, RevokesOnly

\* A row of the sessions table as issue_session leaves it.
LEMMA IssuedRow ==
    ASSUME NEW r \in Requests, req[r] \in Request,
           req[r].op \in {"login", "rotate", "change"},
           NEW parent \in Sessions \cup {None}, NEW pw \in Passwords
    PROVE  LET n == Issued(r, parent, pw) IN
           /\ n \in Session /\ n.user = req[r].user /\ n.parent = parent
           /\ n.password = pw /\ n.via = req[r].op
  BY DEF Issued, Session, Request

\* Zero is a count of failures.
LEMMA Zero == 0 \in 0 .. MaxFailures /\ 0 < MaxFailures
  BY BrowserAssumptions

\* login: the refusal, the failure and the new session.
LEMMA CheckLoginStep ==
    ASSUME IInv, NEW r \in Requests, CheckLogin(r)
    PROVE  IInv'
<1>1. TypeOK /\ CountInv
  BY DEF IInv, StateInv, TableInv
<1>2. /\ Active(r) /\ req[r] \in Request /\ RequestInv(r) /\ req[r].op = "login"
      /\ req[r].at = "check" /\ req[r].user \in Users
  BY Under DEF CheckLogin
<1>3. PICK u \in Users : u = req[r].user
  BY <1>2
<1>4. PICK now \in Row : now = row[u]
  BY <1>1 DEF TypeOK
<1>5. PICK copy \in Row : /\ copy = req[r].copy /\ copy.password = now.password
                          /\ copy.status = now.status /\ copy.failed = now.failed
                          /\ copy.locked \in {now.locked, "future"}
  BY <1>2, <1>3, <1>4 DEF RequestInv, CopyIsTrue
<1>6. userLock[u] = r /\ req[r].fresh \in Sessions /\ sess[req[r].fresh] = None
  BY <1>2, <1>3 DEF RequestInv, HoldsUser, NamesRows
<1> DEFINE c == IF copy.locked = "past" THEN [copy EXCEPT !.locked = "none", !.failed = 0] ELSE copy
<1>7. /\ c \in Row /\ c.password = now.password /\ c.status = now.status
      /\ c.locked = IF copy.locked = "past" THEN "none" ELSE copy.locked
      /\ c.failed = IF copy.locked = "past" THEN 0 ELSE now.failed
  BY <1>5, Zero DEF Row
<1> DEFINE failed == FailedCount(c)
           locked == IF failed >= MaxFailures THEN "future" ELSE c.locked
<1>8. \/ c.locked = "future" /\ UNCHANGED tables
      \/ /\ c.locked # "future"
         /\ row' = [row EXCEPT ![u] = [@ EXCEPT !.failed = failed, !.locked = locked]]
         /\ guesses' = [guesses EXCEPT ![u] = guesses[u] + 1]
         /\ sess' = sess
      \/ /\ c.locked # "future" /\ c.status = "ACTIVE"
         /\ row' = [row EXCEPT ![u] = [@ EXCEPT !.failed = 0, !.locked = "none"]]
         /\ sess' = [sess EXCEPT ![req[r].fresh] = Issued(r, None, c.password)]
         /\ guesses' = [guesses EXCEPT ![u] = 0]
  BY <1>3, <1>5 DEF CheckLogin
<1>9. Release(r)
  BY DEF CheckLogin
<1> HIDE DEF c
<1>10. /\ failed \in 0 .. MaxFailures /\ failed <= c.failed + 1
       /\ failed = c.failed + 1 \/ failed = MaxFailures
  BY <1>7, BrowserAssumptions DEF FailedCount, Row
<1> HIDE DEF failed
<1>11. c.locked # "future" => /\ now.locked \in {"none", "past"} /\ c.locked = "none"
                              /\ now.locked = "none" => c.failed = now.failed
                              /\ now.locked = "past" => c.failed = 0
  BY <1>5, <1>7 DEF Row
<1>12. /\ now.locked = "none" => guesses[u] <= now.failed /\ guesses[u] < MaxFailures
       /\ now.locked = "past" => guesses[u] = 0
       /\ guesses[u] <= MaxFailures /\ guesses[u] \in Nat /\ now.failed \in Nat
  BY <1>1, <1>4, BrowserAssumptions DEF CountInv, TypeOK, Row
<1>13. CASE c.locked = "future" /\ UNCHANGED tables
  BY <1>9, <1>13, RollbackStep DEF Rollback
<1>14. CASE /\ c.locked # "future"
            /\ row' = [row EXCEPT ![u] = [@ EXCEPT !.failed = failed, !.locked = locked]]
            /\ guesses' = [guesses EXCEPT ![u] = guesses[u] + 1]
            /\ sess' = sess
  <2>1. PICK n : n = [now EXCEPT !.failed = failed, !.locked = locked]
    OBVIOUS
  <2>2. locked \in {"none", "future"} /\ (locked = "none" => failed < MaxFailures)
    BY <1>10, <1>11, <1>14, BrowserAssumptions
  <2> HIDE DEF locked
  <2>3. /\ n \in Row /\ n.failed = failed /\ n.locked = locked /\ n.password = now.password
        /\ n.status = now.status
    BY <1>10, <2>1, <2>2 DEF Row
  <2>4. row' = [row EXCEPT ![u] = n]
    BY <1>4, <1>14, <2>1
  <2>5. guesses' \in [Users -> Nat]
    BY <1>1, <1>12, <1>14 DEF TypeOK
  <2>6. /\ locked = "none" => guesses[u] + 1 <= failed /\ guesses[u] + 1 < MaxFailures
        /\ guesses[u] + 1 <= MaxFailures
    BY <1>10, <1>11, <1>12, <1>14, <2>2, BrowserAssumptions
  <2>7. CountInv'
    <3>1. /\ row'[u] = n /\ guesses'[u] = guesses[u] + 1
          /\ \A v \in Users : v # u => row'[v] = row[v] /\ guesses'[v] = guesses[v]
      BY <1>1, <1>14, <2>4 DEF TypeOK
    <3> QED BY <1>1, <2>2, <2>3, <2>6, <3>1 DEF CountInv
  <2>8. sess' \in [Sessions -> Session \cup {None}] /\ RevokesOnly({}, {})
    BY <1>1, <1>14, NoneRevoked
  <2>9. Writes(r, u, n, {}, {})
    BY <1>2, <1>4, <1>6, <1>9, <2>3, <2>4, <2>5, <2>7, <2>8 DEF Writes
  <2> QED BY <1>2, <1>9, <2>3, <2>9, Written
<1>15. CASE /\ c.locked # "future" /\ c.status = "ACTIVE"
            /\ row' = [row EXCEPT ![u] = [@ EXCEPT !.failed = 0, !.locked = "none"]]
            /\ sess' = [sess EXCEPT ![req[r].fresh] = Issued(r, None, c.password)]
            /\ guesses' = [guesses EXCEPT ![u] = 0]
  <2>1. PICK n : n = [now EXCEPT !.failed = 0, !.locked = "none"]
    OBVIOUS
  <2>2. /\ n \in Row /\ n.failed = 0 /\ n.locked = "none" /\ n.password = now.password
        /\ n.status = now.status
    BY <2>1, Zero DEF Row
  <2>3. row' = [row EXCEPT ![u] = n] /\ row'[u] = n
    BY <1>1, <1>4, <1>15, <2>1 DEF TypeOK
  <2>4. guesses' \in [Users -> Nat]
    BY <1>1, <1>15 DEF TypeOK
  <2>5. CountInv'
    <3>1. /\ guesses'[u] = 0
          /\ \A v \in Users : v # u => row'[v] = row[v] /\ guesses'[v] = guesses[v]
      BY <1>1, <1>15, <2>3 DEF TypeOK
    <3> QED BY <1>1, <2>2, <2>3, <3>1, BrowserAssumptions DEF CountInv
  <2>6. PICK f \in Sessions : f = req[r].fresh
    BY <1>6
  <2>7. c.password \in Passwords
    BY <1>7 DEF Row
  <2>8. PICK t \in Session : /\ t = Issued(r, None, c.password) /\ t.user = u /\ t.parent = None
                             /\ t.password = c.password
    BY <1>2, <1>3, <2>7, IssuedRow
  <2>9. sess' = [sess EXCEPT ![f] = t]
    BY <1>15, <2>6, <2>8
  <2>10. /\ sess' \in [Sessions -> Session \cup {None}] /\ sess'[f] = t
         /\ RevokesOnly({}, {f})
    BY <1>1, <2>9 DEF TypeOK, RevokesOnly
  <2>11. GoodSession(f, {})
    <3>1. t.password = row'[u].password /\ row'[u].status = "ACTIVE"
      BY <1>7, <1>15, <2>2, <2>3, <2>8
    <3> QED BY <1>6, <2>6, <2>8, <2>10, <3>1 DEF GoodSession
  <2>12. Writes(r, u, n, {}, {f})
    BY <1>2, <1>4, <1>6, <1>9, <2>2, <2>3, <2>4, <2>5, <2>6, <2>8, <2>10, <2>11 DEF Writes
  <2> QED BY <1>2, <1>9, <2>2, <2>12, Written
<1> HIDE DEF locked
<1> QED BY <1>8, <1>13, <1>14, <1>15

\* What is true of a request whose revocation has locked all its rows.
LEMMA AllLocked ==
    ASSUME IInv, NEW r \in Requests, RowsLocked(r)
    PROVE  /\ Active(r) /\ req[r] \in Request /\ RequestInv(r) /\ req[r].user \in Users
           /\ userLock[req[r].user] = r /\ req[r].rows \in SUBSET Sessions
           /\ \A s \in req[r].rows : sess[s] # None /\ sessLock[s] = r
           /\ LiveSessions(req[r].user) \subseteq req[r].rows
<1>1. /\ Active(r) /\ req[r] \in Request /\ RequestInv(r) /\ req[r].at = "rows"
      /\ req[r].user \in Users /\ req[r].rows \subseteq Sessions
  BY Under DEF RowsLocked
<1> QED BY <1>1 DEF RowsLocked, RequestInv, FindsAll, HoldsUser

\* The OWNER's reset, and disable.
LEMMA RevokeSteps ==
    ASSUME IInv, NEW r \in Requests, CommitReset(r) \/ CommitDisable(r)
    PROVE  IInv'
<1>1. TypeOK /\ CountInv
  BY DEF IInv, StateInv, TableInv
<1>2. /\ Active(r) /\ req[r] \in Request /\ RequestInv(r) /\ req[r].user \in Users
      /\ userLock[req[r].user] = r /\ req[r].rows \in SUBSET Sessions
      /\ \A s \in req[r].rows : sess[s] # None /\ sessLock[s] = r
      /\ LiveSessions(req[r].user) \subseteq req[r].rows
  BY AllLocked DEF CommitReset, CommitDisable
<1>3. PICK u \in Users, R \in SUBSET Sessions : u = req[r].user /\ R = req[r].rows
  BY <1>2
<1>4. PICK now \in Row : now = row[u]
  BY <1>1 DEF TypeOK
<1>5. Release(r) /\ sess' = Revoked(sess, R)
  BY <1>3 DEF CommitReset, CommitDisable
<1>6. sess' \in [Sessions -> Session \cup {None}] /\ RevokesOnly(R, {})
  BY <1>1, <1>2, <1>3, <1>5, RevokedRows
<1>7. CASE CommitReset(r)
  <2>1. PICK pw \in Passwords : pw = req[r].new
    BY <1>2, <1>7 DEF CommitReset, RequestInv, NamesRows
  <2>2. PICK n : n = [now EXCEPT !.password = pw, !.failed = 0, !.locked = "none"]
    OBVIOUS
  <2>3. /\ n \in Row /\ n.failed = 0 /\ n.locked = "none" /\ n.status = now.status
    BY <2>2, Zero DEF Row
  <2>4. row' = [row EXCEPT ![u] = n] /\ guesses' = [guesses EXCEPT ![u] = 0]
    BY <1>3, <1>4, <1>7, <2>1, <2>2 DEF CommitReset
  <2>5. guesses' \in [Users -> Nat]
    BY <1>1, <2>4 DEF TypeOK
  <2>6. CountInv'
    <3>1. /\ row'[u] = n /\ guesses'[u] = 0
          /\ \A v \in Users : v # u => row'[v] = row[v] /\ guesses'[v] = guesses[v]
      BY <1>1, <2>4 DEF TypeOK
    <3> QED BY <1>1, <2>3, <3>1, BrowserAssumptions DEF CountInv
  <2>7. Writes(r, u, n, R, {})
    BY <1>2, <1>3, <1>4, <1>5, <1>6, <2>3, <2>4, <2>5, <2>6 DEF Writes
  <2> QED BY <1>2, <1>5, <2>3, <2>7, Written
<1>8. CASE CommitDisable(r)
  <2>1. PICK n : n = [now EXCEPT !.status = "DISABLED"]
    OBVIOUS
  <2>2. n \in Row /\ n.failed = now.failed /\ n.locked = now.locked /\ n.password = now.password
    BY <2>1 DEF Row
  <2>3. row' = [row EXCEPT ![u] = n] /\ guesses' = guesses
    BY <1>3, <1>4, <1>8, <2>1 DEF CommitDisable
  <2>4. CountInv'
    <3>1. row'[u] = n /\ \A v \in Users : v # u => row'[v] = row[v]
      BY <1>1, <2>3 DEF TypeOK
    <3> QED BY <1>1, <1>4, <2>2, <2>3, <3>1 DEF CountInv
  <2>5. guesses' \in [Users -> Nat]
    BY <1>1, <2>3 DEF TypeOK
  <2>6. Writes(r, u, n, R, {})
    BY <1>2, <1>3, <1>4, <1>5, <1>6, <2>2, <2>3, <2>4, <2>5 DEF Writes
  <2> QED BY <1>2, <1>5, <2>2, <2>6, Written
<1> QED BY <1>7, <1>8
\* enable.
LEMMA EnableStep ==
    ASSUME IInv, NEW r \in Requests, CommitEnable(r)
    PROVE  IInv'
<1>1. TypeOK /\ CountInv
  BY DEF IInv, StateInv, TableInv
<1>2. /\ Active(r) /\ req[r] \in Request /\ RequestInv(r) /\ req[r].op = "enable"
      /\ req[r].at = "commit" /\ req[r].user \in Users
  BY Under DEF CommitEnable
<1>3. PICK u \in Users : u = req[r].user /\ userLock[u] = r
  BY <1>2 DEF RequestInv, HoldsUser
<1>4. PICK now \in Row : now = row[u]
  BY <1>1 DEF TypeOK
<1>5. PICK n : n = [now EXCEPT !.status = "ACTIVE"]
  OBVIOUS
<1>6. /\ n \in Row /\ n.failed = now.failed /\ n.locked = now.locked /\ n.password = now.password
      /\ n.status = "ACTIVE"
  BY <1>5 DEF Row
<1>7. row' = [row EXCEPT ![u] = n] /\ guesses' = guesses /\ sess' = sess /\ Release(r)
  BY <1>3, <1>4, <1>5 DEF CommitEnable
<1>8. CountInv'
  <2>1. row'[u] = n /\ \A v \in Users : v # u => row'[v] = row[v]
    BY <1>1, <1>7 DEF TypeOK
  <2> QED BY <1>1, <1>4, <1>6, <1>7, <2>1 DEF CountInv
<1>9. guesses' \in [Users -> Nat]
  BY <1>1, <1>7 DEF TypeOK
<1>10. sess' \in [Sessions -> Session \cup {None}] /\ RevokesOnly({}, {})
  BY <1>1, <1>7, NoneRevoked
<1>11. Writes(r, u, n, {}, {})
  BY <1>3, <1>4, <1>6, <1>7, <1>8, <1>9, <1>10 DEF Writes
<1> QED BY <1>2, <1>6, <1>7, <1>11, Written

\* change_password, with a copy of the row that may be older than its lock.
LEMMA ChangeStep ==
    ASSUME IInv, NEW r \in Requests, CommitChange(r)
    PROVE  IInv'
<1>1. TypeOK /\ CountInv
  BY DEF IInv, StateInv, TableInv
<1>2. /\ Active(r) /\ req[r] \in Request /\ RequestInv(r) /\ req[r].user \in Users
      /\ userLock[req[r].user] = r /\ req[r].rows \in SUBSET Sessions
      /\ \A s \in req[r].rows : sess[s] # None /\ sessLock[s] = r
      /\ LiveSessions(req[r].user) \subseteq req[r].rows
  BY AllLocked DEF CommitChange
<1>3. PICK u \in Users, R \in SUBSET Sessions : u = req[r].user /\ R = req[r].rows
  BY <1>2
<1>4. PICK now \in Row : now = row[u]
  BY <1>1 DEF TypeOK
<1>5. req[r].op = "change" /\ req[r].at = "rows"
  BY DEF CommitChange, RowsLocked, At
<1>6. PICK f \in Sessions, pw \in Passwords, c \in Row :
         f = req[r].fresh /\ pw = req[r].new /\ c = req[r].copy
  BY <1>2, <1>5 DEF RequestInv, NamesRows
<1>7. sess[f] = None
  BY <1>2, <1>5, <1>6 DEF RequestInv, NamesRows
<1>8. PICK failed \in 0 .. MaxFailures : failed = IF c.failed = 0 THEN now.failed ELSE 0
  BY Zero DEF Row
<1>9. PICK locked \in {"none", "future", "past"} :
         locked = IF c.locked = "none" THEN now.locked ELSE "none"
  BY DEF Row
<1>10. PICK n : n = [now EXCEPT !.password = pw, !.failed = failed, !.locked = locked]
  OBVIOUS
<1>11. /\ n \in Row /\ n.failed = failed /\ n.locked = locked /\ n.password = pw
       /\ n.status = now.status
  BY <1>10 DEF Row
<1>12. PICK t \in Session : /\ t = Issued(r, None, pw) /\ t.user = u /\ t.parent = None
                            /\ t.password = pw /\ t.via = "change"
  BY <1>2, <1>3, <1>5, IssuedRow
<1>13. /\ row' = [row EXCEPT ![u] = n] /\ guesses' = [guesses EXCEPT ![u] = 0]
       /\ sess' = [Revoked(sess, R) EXCEPT ![f] = t] /\ Release(r)
  BY <1>3, <1>4, <1>6, <1>8, <1>9, <1>10, <1>12 DEF CommitChange
<1>14. sess' \in [Sessions -> Session \cup {None}] /\ RevokesOnly(R, {f}) /\ sess'[f] = t
  BY <1>1, <1>2, <1>3, <1>13, RevokedRows
<1>15. guesses' \in [Users -> Nat] /\ row'[u] = n
  BY <1>1, <1>13 DEF TypeOK
<1>16. CountInv'
  <2>1. /\ guesses'[u] = 0
        /\ \A v \in Users : v # u => row'[v] = row[v] /\ guesses'[v] = guesses[v]
    BY <1>1, <1>13 DEF TypeOK
  <2>2. 0 <= failed /\ 0 < MaxFailures /\ 0 <= MaxFailures
    BY BrowserAssumptions
  <2>3. /\ guesses'[u] <= row'[u].failed /\ guesses'[u] < MaxFailures
        /\ guesses'[u] = 0 /\ guesses'[u] <= MaxFailures
    BY <1>11, <1>15, <2>1, <2>2
  <2> QED BY <1>1, <2>1, <2>3 DEF CountInv
<1>17. GoodSession(f, R)
  BY <1>7, <1>11, <1>12, <1>14, <1>15 DEF GoodSession
<1>18. Writes(r, u, n, R, {f})
  BY <1>2, <1>3, <1>4, <1>6, <1>11, <1>12, <1>13, <1>14, <1>15, <1>16, <1>17 DEF Writes
<1> QED BY <1>2, <1>11, <1>13, <1>18, Written

\* rotate_refresh_token and logout.
LEMMA SessionSteps ==
    ASSUME IInv, NEW r \in Requests, CommitRotate(r) \/ CommitLogout(r)
    PROVE  IInv'
<1>1. TypeOK /\ CountInv /\ SessionMatchesPassword
  BY DEF IInv, StateInv, TableInv
<1>2. /\ Active(r) /\ req[r] \in Request /\ RequestInv(r) /\ req[r].op \in {"rotate", "logout"}
      /\ req[r].at = "commit" /\ req[r].user \in Users
  BY Under DEF CommitRotate, CommitLogout
<1>3. PICK u \in Users, s \in Sessions :
         /\ u = req[r].user /\ s = req[r].session /\ sess[s] # None /\ sess[s].user = u
         /\ sessLock[s] = r
  BY <1>2 DEF RequestInv, NamesRows, HoldsSession
<1>4. PICK now \in Row : now = row[u]
  BY <1>1 DEF TypeOK
<1>5. row' = row /\ guesses' = guesses /\ Release(r)
  BY DEF CommitRotate, CommitLogout
<1>6. CountInv' /\ guesses' \in [Users -> Nat] /\ row' = [row EXCEPT ![u] = now]
  BY <1>1, <1>4, <1>5 DEF CountInv, TypeOK
<1>7. {s} \in SUBSET Sessions /\ \A x \in {s} : sess[x] # None
  BY <1>3
<1>8. CASE CommitLogout(r)
  <2>1. sess' = Revoked(sess, {s})
    <3>1. sess' = [sess EXCEPT ![s].revoked = TRUE]
      BY <1>3, <1>8 DEF CommitLogout
    <3> QED BY <1>1, <3>1 DEF Revoked, TypeOK
  <2>2. sess' \in [Sessions -> Session \cup {None}] /\ RevokesOnly({s}, {})
    BY <1>1, <1>7, <2>1, RevokedRows
  <2>3. Writes(r, u, now, {s}, {})
    BY <1>3, <1>4, <1>5, <1>6, <2>2 DEF Writes
  <2> QED BY <1>2, <1>5, <1>7, <2>3, Written
<1>9. CASE CommitRotate(r)
  <2>1. req[r].op = "rotate"
    BY <1>9 DEF CommitRotate, At
  <2>2. PICK f \in Sessions : f = req[r].fresh /\ sess[f] = None
    BY <1>2, <2>1 DEF RequestInv, NamesRows
  <2>3. ~sess[s].revoked /\ row[u].status = "ACTIVE" /\ r \in keyShare[u]
    BY <1>2, <1>3, <2>1 DEF RequestInv, HoldsSession
  <2>4. sess[s].password = now.password
    BY <1>1, <1>3, <1>4, <2>3 DEF SessionMatchesPassword, LiveSessions
  <2>5. PICK pw \in Passwords : pw = sess[s].password
    BY <1>4, <2>4 DEF Row
  <2>6. PICK t \in Session : /\ t = Issued(r, s, pw) /\ t.user = u /\ t.parent = s
                             /\ t.password = pw
    BY <1>2, <1>3, <2>1, IssuedRow
  <2>7. sess' = [Revoked(sess, {s}) EXCEPT ![f] = t]
    BY <1>3, <1>9, <2>2, <2>5, <2>6 DEF CommitRotate
  <2>8. sess' \in [Sessions -> Session \cup {None}] /\ RevokesOnly({s}, {f}) /\ sess'[f] = t
    BY <1>1, <1>7, <2>7, RevokedRows
  <2>9. GoodSession(f, {s})
    <3>1. t.password = row'[u].password /\ row'[u].status = "ACTIVE"
      BY <1>4, <1>5, <2>3, <2>4, <2>5, <2>6
    <3> QED BY <1>3, <2>2, <2>3, <2>6, <2>8, <3>1 DEF GoodSession
  <2>10. Writes(r, u, now, {s}, {f})
    BY <1>3, <1>4, <1>5, <1>6, <2>2, <2>3, <2>6, <2>8, <2>9 DEF Writes
  <2> QED BY <1>2, <1>5, <1>7, <2>10, Written
<1> QED BY <1>8, <1>9

\* The time of a lock-out passes, while requests may hold the row.
LEMMA ElapseStep ==
    ASSUME IInv, NEW u \in Users, LockElapses(u)
    PROVE  IInv'
<1>1. TypeOK /\ CountInv /\ FreshInv /\ ShareInv
  BY DEF IInv, StateInv, TableInv
<1>2. PICK now \in Row : now = row[u] /\ now.locked = "future"
  BY <1>1 DEF TypeOK, LockElapses
<1>3. PICK n : n = [now EXCEPT !.locked = "past"]
  OBVIOUS
<1>4. /\ n \in Row /\ n.failed = now.failed /\ n.locked = "past" /\ n.password = now.password
      /\ n.status = now.status
  BY <1>3 DEF Row
<1>5. /\ row' = [row EXCEPT ![u] = n] /\ guesses' = [guesses EXCEPT ![u] = 0]
      /\ UNCHANGED <<sess, locks, req>>
  BY <1>2, <1>3 DEF LockElapses
<1>6. UNCHANGED <<sess, userLock, keyShare, sessLock, req>>
  BY <1>5 DEF locks
<1>7. TypeOK'
  BY <1>1, <1>4, <1>5, <1>6 DEF TypeOK
<1>8. /\ row'[u] = n /\ guesses'[u] = 0
      /\ \A v \in Users : v # u => row'[v] = row[v] /\ guesses'[v] = guesses[v]
  BY <1>1, <1>5 DEF TypeOK
<1>9. \A v \in Users : /\ row'[v].password = row[v].password /\ row'[v].status = row[v].status
                       /\ row'[v].failed = row[v].failed
                       /\ row'[v].locked = row[v].locked \/ row[v].locked = "future"
  BY <1>2, <1>4, <1>8
<1>10. RevokesOnly({}, {})
  BY <1>1, <1>6, NoneRevoked
<1>11. CountInv'
  BY <1>1, <1>4, <1>8, BrowserAssumptions DEF CountInv
<1>12. TableInv'
  BY <1>7, <1>9, <1>10, <1>11, SessionsKept DEF TableInv
<1>13. OthersKept(None) /\ SessionsForward(None) /\ RowsForward(None)
  BY <1>6, <1>9 DEF OthersKept, SessionsForward, RowsForward
<1>14. FreshInv' /\ ShareInv' /\ None \notin Requests
  BY <1>1, <1>6, BrowserAssumptions DEF FreshInv, ShareInv, Active
<1> QED BY <1>7, <1>12, <1>13, <1>14, Assembled

-----------------------------------------------------------------------------

\* Every step keeps the inductive invariant.
LEMMA StepInv == IInv /\ [Next]_vars => IInv'
<1> SUFFICES ASSUME IInv, [Next]_vars PROVE IInv'
  OBVIOUS
<1>1. ASSUME NEW r \in Requests, BeginRequest(r) PROVE IInv'
  BY <1>1, BeginSteps
<1>2. ASSUME NEW r \in Requests, Step(r) PROVE IInv'
  <2>1. CASE LockUser(r)
    BY <2>1, LockUserStep
  <2>2. CASE CheckLogin(r)
    BY <2>2, CheckLoginStep
  <2>3. CASE \/ Authenticate(r) \/ CheckChange(r) \/ FindSessions(r)
             \/ (\E s \in Sessions : LockRow(r, s)) \/ LockSession(r) \/ ReadOwner(r)
    BY <2>3, QuietSteps
  <2>4. CASE CommitReset(r) \/ CommitDisable(r)
    BY <2>4, RevokeSteps
  <2>5. CASE CommitEnable(r)
    BY <2>5, EnableStep
  <2>6. CASE CommitChange(r)
    BY <2>6, ChangeStep
  <2>7. CASE ShareUser(r)
    BY <2>7, ShareUserStep
  <2>8. CASE CommitRotate(r) \/ CommitLogout(r)
    BY <2>8, SessionSteps
  <2>9. CASE DeadlockVictim(r)
    BY <2>9, RollbackStep DEF DeadlockVictim
  <2> QED BY <1>2, <2>1, <2>2, <2>3, <2>4, <2>5, <2>6, <2>7, <2>8, <2>9 DEF Step
<1>3. ASSUME NEW r \in Requests, RequestFail(r) PROVE IInv'
  BY <1>3, RollbackStep DEF RequestFail
<1>4. ASSUME NEW u \in Users, LockElapses(u) PROVE IInv'
  BY <1>4, ElapseStep
<1>5. CASE UNCHANGED vars
  <2>1. UNCHANGED tables /\ UNCHANGED <<sess, row, userLock, keyShare, sessLock, req>>
    BY <1>5 DEF vars, tables
  <2>2. TypeOK' /\ FreshInv' /\ ShareInv'
    BY <1>5 DEF IInv, StateInv, TypeOK, FreshInv, ShareInv, Active, vars
  <2>3. OthersKept(None) /\ None \notin Requests
    BY <2>1, BrowserAssumptions DEF OthersKept
  <2> QED BY <2>1, <2>2, <2>3, Quiet, Assembled
<1> QED BY <1>1, <1>2, <1>3, <1>4, <1>5 DEF Next

\* The inductive invariant holds in every reachable state.
THEOREM Invariance == Spec => []IInv
  BY InitInv, StepInv, PTL DEF Spec

\* The tables, the locks and the requests keep their types.
THEOREM TypeCorrect == Spec => []TypeOK
<1>1. IInv => TypeOK
  BY DEF IInv
<1> QED BY <1>1, Invariance, PTL

\* A refresh token is rotated once, whatever requests carry it at the same time.
THEOREM OneRotation == Spec => []SingleSuccessor
<1>1. IInv => SingleSuccessor
  BY DEF IInv, StateInv, TableInv
<1> QED BY <1>1, Invariance, PTL

\* Every live session came from the password its account has now.
THEOREM NoSessionOutlivesItsPassword == Spec => []SessionMatchesPassword
<1>1. IInv => SessionMatchesPassword
  BY DEF IInv, StateInv, TableInv
<1> QED BY <1>1, Invariance, PTL

\* Whatever logins run at the same time, at most MAX_LOGIN_FAILURES wrong
\* passwords are checked before the account is locked.
THEOREM FailuresBounded == Spec => []GuessesBounded
<1>1. IInv => GuessesBounded
  BY DEF IInv, StateInv, TableInv, CountInv, GuessesBounded
<1> QED BY <1>1, Invariance, PTL

\* A disabled account keeps no session of a login or a rotation.
THEOREM DisabledLosesSessions == Spec => []DisablingRevokes
<1>1. IInv => DisablingRevokes
  BY DEF IInv, StateInv, TableInv
<1> QED BY <1>1, Invariance, PTL
=============================================================================
