--------------------------- MODULE BrowserSessions ---------------------------
(***************************************************************************)
(* Browser accounts and sessions: the requests of                          *)
(* server/src/superboss/modules/auth and modules/users (login, refresh,    *)
(* password change, logout; the OWNER's reset, disable and enable) as      *)
(* PostgreSQL transactions at READ COMMITTED.  A transaction takes its row *)
(* locks one at a time and keeps them until it ends; what it writes is     *)
(* seen when it commits.  Inserting a session takes a key-share lock on    *)
(* its user through the foreign key, which conflicts with FOR UPDATE.      *)
(***************************************************************************)
EXTENDS Integers, FiniteSets

CONSTANTS
    Users,
    Sessions,     \* session ids; a request reserves the one it may create
    Requests,     \* the requests that run at the same time
    Passwords,
    MaxFailures,  \* MAX_LOGIN_FAILURES
    None

VARIABLES
    row,        \* the users table
    sess,       \* the sessions table
    userLock,   \* who holds a user row FOR UPDATE
    keyShare,   \* who holds it FOR KEY SHARE
    sessLock,   \* who holds a session row
    req,        \* what every request is doing
    guesses     \* passwords checked in vain since the count was last cleared

vars == <<row, sess, userLock, keyShare, sessLock, req, guesses>>

tables == <<row, sess, guesses>>
locks == <<userLock, keyShare, sessLock>>

\* locked_until: not set, ahead, or over.
Row == [status : {"ACTIVE", "DISABLED"}, password : Passwords,
        failed : 0 .. MaxFailures, locked : {"none", "future", "past"}]

\* revoked stands for revoked_at and refresh_used_at, which rotation sets
\* together.  via, parent and password tell how the session came about.
Session == [user : Users, revoked : BOOLEAN, parent : Sessions \cup {None},
            password : Passwords, via : {"login", "rotate", "change"}]

Operations == {"login", "change", "reset", "disable", "enable", "rotate", "logout"}

Request == [op : Operations, at : {"auth", "session", "owner", "share", "lock", "check",
                                   "revoke", "rows", "commit"},
            user : Users, session : Sessions \cup {None}, fresh : Sessions \cup {None},
            given : Passwords \cup {None}, new : Passwords \cup {None},
            copy : Row \cup {None}, rows : SUBSET Sessions]

ASSUME BrowserAssumptions ==
    /\ MaxFailures \in Nat \ {0}
    /\ None \notin Users \cup Sessions \cup Requests \cup Passwords
    /\ None \notin Row /\ None \notin Session /\ None \notin Request

Init ==
    /\ row \in [Users -> {[status |-> "ACTIVE", password |-> p, failed |-> 0,
                           locked |-> "none"] : p \in Passwords}]
    /\ sess = [s \in Sessions |-> None]
    /\ userLock = [u \in Users |-> None]
    /\ keyShare = [u \in Users |-> {}]
    /\ sessLock = [s \in Sessions |-> None]
    /\ req = [r \in Requests |-> None]
    /\ guesses = [u \in Users |-> 0]

-----------------------------------------------------------------------------

At(r, op, label) == req[r] # None /\ req[r].op \in op /\ req[r].at = label

Goto(r, label) == req' = [req EXCEPT ![r].at = label]

\* The transaction ends and its locks go.
Release(r) ==
    /\ req' = [req EXCEPT ![r] = None]
    /\ userLock' = [u \in Users |-> IF userLock[u] = r THEN None ELSE userLock[u]]
    /\ keyShare' = [u \in Users |-> keyShare[u] \ {r}]
    /\ sessLock' = [s \in Sessions |-> IF sessLock[s] = r THEN None ELSE sessLock[s]]

Rollback(r) == Release(r) /\ UNCHANGED tables

Reserved == {req[r].fresh : r \in {q \in Requests : req[q] # None}}

Unused == {s \in Sessions : sess[s] = None} \ Reserved

LiveSessions(u) == {s \in Sessions : sess[s] # None /\ sess[s].user = u /\ ~sess[s].revoked}

Begin(r, op, label, u, s, fresh, given, new) ==
    /\ req[r] = None
    /\ req' = [req EXCEPT ![r] =
                 [op |-> op, at |-> label, user |-> u, session |-> s, fresh |-> fresh,
                  given |-> given, new |-> new, copy |-> None, rows |-> {}]]
    /\ UNCHANGED <<tables, locks>>

Login(r, u, p) ==
    \E f \in Unused : Begin(r, "login", "lock", u, None, f, p, None)

ChangePassword(r, s, p, n) ==
    /\ sess[s] # None
    /\ \E f \in Unused : Begin(r, "change", "auth", sess[s].user, s, f, p, n)

\* reset_staff_password and the local reset_owner_password.
ResetPassword(r, u, n) == Begin(r, "reset", "lock", u, None, None, None, n)

\* update_staff, to DISABLED and to ACTIVE.
Disable(r, u) == Begin(r, "disable", "lock", u, None, None, None, None)

Enable(r, u) == Begin(r, "enable", "lock", u, None, None, None, None)

Rotate(r, s) ==
    /\ sess[s] # None
    /\ \E f \in Unused : Begin(r, "rotate", "session", sess[s].user, s, f, None, None)

Logout(r, s) ==
    /\ sess[s] # None
    /\ Begin(r, "logout", "session", sess[s].user, s, None, None, None)

-----------------------------------------------------------------------------
(* Steps on the user row.                                                  *)

\* Mutant of UserFree: the user is selected without FOR UPDATE.
UserUnlocked(r, u) == TRUE

UserFree(r, u) == userLock[u] = None /\ keyShare[u] \subseteq {r}

\* The ORM fills an object once: change_password's locking select returns the
\* one that authenticate_access_token read before, and does not refresh it.
KeptCopy(r) == IF req[r].copy = None THEN row[req[r].user] ELSE req[r].copy

LockUser(r) ==
    LET u == req[r].user IN
    /\ At(r, Operations, "lock") /\ UserFree(r, u)
    /\ userLock' = [userLock EXCEPT ![u] = r]
    /\ req' = [req EXCEPT ![r] = [@ EXCEPT
                 !.copy = KeptCopy(r),
                 !.at = CASE req[r].op \in {"login", "change"}  -> "check"
                          [] req[r].op \in {"reset", "disable"} -> "revoke"
                          [] req[r].op = "enable"               -> "commit"]]
    /\ UNCHANGED <<tables, keyShare, sessLock>>

\* A row of the sessions table as issue_session leaves it.
Issued(r, parent, password) ==
    [user |-> req[r].user, revoked |-> FALSE, parent |-> parent,
     password |-> password, via |-> req[r].op]

FailedCount(c) == IF c.failed < MaxFailures THEN c.failed + 1 ELSE MaxFailures

\* login after its lock: refuse while locked out, clear a lock that is over,
\* count a failure or open a session.
CheckLogin(r) ==
    LET u == req[r].user
        c == IF req[r].copy.locked = "past"
             THEN [req[r].copy EXCEPT !.locked = "none", !.failed = 0]
             ELSE req[r].copy
        failed == FailedCount(c)
    IN
    /\ At(r, {"login"}, "check")
    /\ \/ /\ c.locked = "future"
          /\ UNCHANGED tables
       \/ /\ c.locked # "future" /\ (req[r].given # c.password \/ c.status # "ACTIVE")
          /\ row' = [row EXCEPT ![u] = [@ EXCEPT
                        !.failed = failed,
                        !.locked = IF failed >= MaxFailures THEN "future" ELSE c.locked]]
          /\ guesses' = [guesses EXCEPT ![u] = @ + 1]
          /\ UNCHANGED sess
       \/ /\ c.locked # "future" /\ req[r].given = c.password /\ c.status = "ACTIVE"
          /\ row' = [row EXCEPT ![u] = [@ EXCEPT !.failed = 0, !.locked = "none"]]
          /\ sess' = [sess EXCEPT ![req[r].fresh] = Issued(r, None, c.password)]
          /\ guesses' = [guesses EXCEPT ![u] = 0]
    /\ Release(r)

\* change_password's request is authenticated first, without a lock.
Authenticate(r) ==
    LET u == req[r].user IN
    /\ At(r, {"change"}, "auth")
    /\ IF sess[req[r].session].revoked \/ row[u].status # "ACTIVE"
       THEN Rollback(r)
       ELSE /\ req' = [req EXCEPT ![r] = [@ EXCEPT !.copy = row[u], !.at = "lock"]]
            /\ UNCHANGED <<tables, locks>>

CheckChange(r) ==
    LET c == req[r].copy IN
    /\ At(r, {"change"}, "check")
    /\ IF c.status # "ACTIVE" \/ req[r].given # c.password \/ req[r].new = c.password
       THEN Rollback(r)
       ELSE Goto(r, "revoke") /\ UNCHANGED <<tables, locks>>

\* The UPDATE that revokes a user's sessions finds its rows, then locks and
\* changes one after the other.
FindSessions(r) ==
    /\ At(r, Operations, "revoke")
    /\ req' = [req EXCEPT ![r] =
                 [@ EXCEPT !.rows = LiveSessions(req[r].user), !.at = "rows"]]
    /\ UNCHANGED <<tables, locks>>

LockRow(r, s) ==
    /\ At(r, Operations, "rows") /\ s \in req[r].rows /\ sessLock[s] = None
    /\ sessLock' = [sessLock EXCEPT ![s] = r]
    /\ UNCHANGED <<tables, userLock, keyShare, req>>

RowsLocked(r) == At(r, Operations, "rows") /\ \A s \in req[r].rows : sessLock[s] = r

Revoked(table, rows) ==
    [s \in Sessions |-> IF s \in rows THEN [table[s] EXCEPT !.revoked = TRUE] ELSE table[s]]

CommitReset(r) ==
    LET u == req[r].user IN
    /\ RowsLocked(r) /\ req[r].op = "reset"
    /\ row' = [row EXCEPT ![u] =
                 [@ EXCEPT !.password = req[r].new, !.failed = 0, !.locked = "none"]]
    /\ sess' = Revoked(sess, req[r].rows)
    /\ guesses' = [guesses EXCEPT ![u] = 0]
    /\ Release(r)

CommitDisable(r) ==
    /\ RowsLocked(r) /\ req[r].op = "disable"
    /\ row' = [row EXCEPT ![req[r].user].status = "DISABLED"]
    /\ sess' = Revoked(sess, req[r].rows)
    /\ UNCHANGED guesses
    /\ Release(r)

CommitEnable(r) ==
    /\ At(r, {"enable"}, "commit")
    /\ row' = [row EXCEPT ![req[r].user].status = "ACTIVE"]
    /\ UNCHANGED <<sess, guesses>>
    /\ Release(r)

\* The ORM writes the attributes that differ from the copy.
CommitChange(r) ==
    LET u == req[r].user
        c == req[r].copy
    IN
    /\ RowsLocked(r) /\ req[r].op = "change"
    /\ row' = [row EXCEPT ![u] = [@ EXCEPT
                 !.password = req[r].new,
                 !.failed = IF c.failed = 0 THEN row[u].failed ELSE 0,
                 !.locked = IF c.locked = "none" THEN row[u].locked ELSE "none"]]
    /\ sess' = [Revoked(sess, req[r].rows) EXCEPT
                  ![req[r].fresh] = Issued(r, None, req[r].new)]
    /\ guesses' = [guesses EXCEPT ![u] = 0]
    /\ Release(r)

-----------------------------------------------------------------------------
(* Steps on a session row.                                                 *)

LockSession(r) ==
    LET s == req[r].session IN
    /\ At(r, {"rotate", "logout"}, "session") /\ sessLock[s] = None
    /\ sessLock' = [sessLock EXCEPT ![s] = r]
    /\ Goto(r, IF req[r].op = "rotate" THEN "owner" ELSE "commit")
    /\ UNCHANGED <<tables, userLock, keyShare>>

\* Mutant of Spent: the check of revoked_at and refresh_used_at is missing.
NeverSpent(s) == FALSE

Spent(s) == sess[s].revoked

\* rotate_refresh_token reads the user without a lock.
ReadOwner(r) ==
    /\ At(r, {"rotate"}, "owner")
    /\ IF Spent(req[r].session) \/ row[req[r].user].status # "ACTIVE"
       THEN Rollback(r)
       ELSE Goto(r, "share") /\ UNCHANGED <<tables, locks>>

\* The insert's foreign key check.
ShareUser(r) ==
    LET u == req[r].user IN
    /\ At(r, {"rotate"}, "share") /\ userLock[u] = None
    /\ keyShare' = [keyShare EXCEPT ![u] = @ \cup {r}]
    /\ Goto(r, "commit")
    /\ UNCHANGED <<tables, userLock, sessLock>>

CommitRotate(r) ==
    LET s == req[r].session IN
    /\ At(r, {"rotate"}, "commit")
    /\ sess' = [Revoked(sess, {s}) EXCEPT
                  ![req[r].fresh] = Issued(r, s, sess[s].password)]
    /\ UNCHANGED <<row, guesses>>
    /\ Release(r)

CommitLogout(r) ==
    /\ At(r, {"logout"}, "commit")
    /\ sess' = [sess EXCEPT ![req[r].session].revoked = TRUE]
    /\ UNCHANGED <<row, guesses>>
    /\ Release(r)

-----------------------------------------------------------------------------

\* The requests whose locks a request waits for.
WaitsFor(r) ==
    (IF req[r] = None THEN {}
     ELSE CASE req[r].at = "lock"    -> {userLock[req[r].user]} \cup keyShare[req[r].user]
            [] req[r].at = "share"   -> {userLock[req[r].user]}
            [] req[r].at = "session" -> {sessLock[req[r].session]}
            [] req[r].at = "rows"    -> {sessLock[s] : s \in req[r].rows}
            [] OTHER                 -> {}) \ {r, None}

\* PostgreSQL ends one of the transactions that wait for each other.
DeadlockVictim(r) ==
    /\ \E D \in SUBSET Requests :
          /\ r \in D
          /\ \A q \in D : WaitsFor(q) \cap D # {} /\ \E p \in D : q \in WaitsFor(p)
    /\ Rollback(r)

\* A statement fails, or a token has expired.
RequestFail(r) == req[r] # None /\ Rollback(r)

\* LOGIN_LOCK_DURATION passes.
LockElapses(u) ==
    /\ row[u].locked = "future"
    /\ row' = [row EXCEPT ![u].locked = "past"]
    /\ guesses' = [guesses EXCEPT ![u] = 0]
    /\ UNCHANGED <<sess, locks, req>>

Step(r) ==
    \/ LockUser(r) \/ CheckLogin(r) \/ Authenticate(r) \/ CheckChange(r) \/ FindSessions(r)
    \/ \E s \in Sessions : LockRow(r, s)
    \/ CommitReset(r) \/ CommitDisable(r) \/ CommitEnable(r) \/ CommitChange(r)
    \/ LockSession(r) \/ ReadOwner(r) \/ ShareUser(r) \/ CommitRotate(r) \/ CommitLogout(r)
    \/ DeadlockVictim(r)

BeginRequest(r) ==
    \/ \E u \in Users, p \in Passwords : Login(r, u, p) \/ ResetPassword(r, u, p)
    \/ \E u \in Users : Disable(r, u) \/ Enable(r, u)
    \/ \E s \in Sessions : Rotate(r, s) \/ Logout(r, s)
    \/ \E s \in Sessions, p, n \in Passwords : ChangePassword(r, s, p, n)

Next ==
    \/ \E r \in Requests : BeginRequest(r) \/ Step(r) \/ RequestFail(r)
    \/ \E u \in Users : LockElapses(u)

Spec == Init /\ [][Next]_vars

-----------------------------------------------------------------------------
(* Properties.                                                             *)

\* The type invariant of the tables, the locks and the requests.
TypeOK ==
    /\ row \in [Users -> Row]
    /\ sess \in [Sessions -> Session \cup {None}]
    /\ userLock \in [Users -> Requests \cup {None}]
    /\ keyShare \in [Users -> SUBSET Requests]
    /\ sessLock \in [Sessions -> Requests \cup {None}]
    /\ req \in [Requests -> Request \cup {None}]
    /\ guesses \in [Users -> Nat]

\* A refresh token is good for one rotation, also when requests that carry the
\* same token, logouts and revocations overlap: no session has two successors.
SingleSuccessor ==
    \A s, t \in Sessions :
        sess[s] # None /\ sess[t] # None /\ sess[s].parent # None
            /\ sess[s].parent = sess[t].parent => s = t

\* A new password ends every session that came from an old one: no login or
\* rotation under way escapes the revocation by opening a session beside it.
SessionMatchesPassword ==
    \A u \in Users : \A s \in LiveSessions(u) : sess[s].password = row[u].password

\* Concurrent logins never check more wrong passwords than MAX_LOGIN_FAILURES
\* before the account is locked.
GuessesBounded == \A u \in Users : guesses[u] <= MaxFailures

\* Whatever logins and rotations are under way when an account is disabled, no
\* session of theirs is left that enabling the account would bring back.
DisablingRevokes ==
    \A u \in Users : row[u].status = "DISABLED" =>
        \A s \in LiveSessions(u) : sess[s].via = "change"

-----------------------------------------------------------------------------
(* What the repository says of the code and the code does not do.          *)

\* docs/01: disabling an account revokes its refresh tokens at once, so that
\* a disabled account has no session.
DisabledHasNoSession ==
    \A u \in Users : row[u].status = "DISABLED" => LiveSessions(u) = {}
=============================================================================
