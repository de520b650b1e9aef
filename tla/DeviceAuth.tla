------------------------------ MODULE DeviceAuth ------------------------------
(***************************************************************************)
(* Device pairing and device sessions                                      *)
(* (server/src/superboss/modules/devices/service.py) and the project       *)
(* memberships of staff (modules/users/service.py) as PostgreSQL           *)
(* transactions at READ COMMITTED that lock rows one after the other and   *)
(* keep them to the end.  Pairing codes and memberships lock the rows of   *)
(* the projects they name; refresh first finds its device with reads that  *)
(* take no lock.  There is one OWNER, who cannot be disabled, and projects *)
(* stay ACTIVE: users/service.py refuses the one, nothing changes the      *)
(* other.                                                                  *)
(***************************************************************************)
EXTENDS Naturals, FiniteSets, Sequences

CONSTANTS
    Codes,      \* pairing codes; the ids of new rows are chosen when they are inserted
    Devices,
    Sessions,
    Owner,      \* the OWNER's account
    Members,    \* staff accounts
    Selections, \* the sets of projects that requests name; project ids are ordered
    Requests,   \* the requests that run at the same time
    None

Projects == UNION Selections

VARIABLES
    code,       \* the pairing codes: not created, unused, or their device
    device,     \* the devices: not paired, active or revoked
    sess,       \* the device sessions, or None
    codeProjects, deviceProjects,   \* the projects of every code and device
    member,     \* the projects of every staff account, or None before it exists
    lock,       \* who holds each row FOR UPDATE
    req         \* what every request is doing

deviceTables == <<code, device, sess, codeProjects, deviceProjects>>
tables == <<deviceTables, member>>
vars == <<tables, lock, req>>

Rows == {Owner} \cup Codes \cup Devices \cup Sessions \cup Members \cup Projects

CodeState == {"none", "unused"} \cup Devices
DeviceState == {"none", "ACTIVE", "REVOKED"}

\* revoked stands for revoked_at and refresh_used_at: refresh sets both.
Session == [device : Devices, revoked : BOOLEAN]

DeviceOperations == {"create", "pair", "refresh", "authenticate", "revoke"}
MemberOperations == {"staff", "replace"}
Operations == DeviceOperations \cup MemberOperations

\* The orders in which a select may meet the rows of a set of projects.
Orders(P) == {o \in [1 .. Cardinality(P) -> P] : \A i, j \in DOMAIN o : o[i] = o[j] => i = j}

\* projects is what the request names and order the rows of it that are not
\* locked yet; seen... is what it has read of the tables.
Request == [op : Operations,
            at : {"locate", "code", "owner", "device", "session", "member", "project",
                  "delete", "commit"},
            code : Codes \cup {None}, device : Devices \cup {None},
            session : Sessions \cup {None},
            member : Members \cup {None},
            projects : SUBSET Projects, order : Seq(Projects),
            seenDevice : DeviceState \cup {None}, seenSession : Session \cup {None},
            seenProjects : SUBSET Projects]

ASSUME DeviceAssumptions ==
    /\ None \notin Codes \cup Devices \cup Sessions \cup Members \cup Requests
    /\ None \notin Session /\ None \notin Request
    /\ \A P \in SUBSET Projects : P # None
    /\ Devices \cap {"none", "unused"} = {}
    /\ \A P \in Selections : P \subseteq Nat /\ IsFiniteSet(P) /\ P # {}

\* The rows of different tables are different rows, and finitely many
\* requests run at once.
ASSUME LockAssumptions ==
    /\ Owner \notin Codes \cup Devices \cup Sessions \cup Members \cup Projects
    /\ Codes \cap (Devices \cup Sessions \cup Members \cup Projects) = {}
    /\ Devices \cap (Sessions \cup Members \cup Projects) = {}
    /\ Sessions \cap (Members \cup Projects) = {}
    /\ Members \cap Projects = {}
    /\ IsFiniteSet(Requests)

NoRequest == [op |-> "create", at |-> "owner", code |-> None, device |-> None,
              session |-> None, member |-> None, projects |-> {},
              order |-> <<>>, seenDevice |-> None, seenSession |-> None, seenProjects |-> {}]

Init ==
    /\ code = [c \in Codes |-> "none"]
    /\ device = [d \in Devices |-> "none"]
    /\ sess = [s \in Sessions |-> None]
    /\ codeProjects = [c \in Codes |-> {}]
    /\ deviceProjects = [d \in Devices |-> {}]
    /\ member = [u \in Members |-> None]
    /\ lock = [x \in Rows |-> None]
    /\ req = [r \in Requests |-> None]

-----------------------------------------------------------------------------

At(r, ops, label) == req[r] # None /\ req[r].op \in ops /\ req[r].at = label

Unlock(r) == lock' = [x \in Rows |-> IF lock[x] = r THEN None ELSE lock[x]]

\* session.begin() ends: the transaction's locks go.
Release(r) == req' = [req EXCEPT ![r] = None] /\ Unlock(r)

Rollback(r) == Release(r) /\ UNCHANGED tables

Running == {r \in Requests : req[r] # None}

UnusedCodes == {c \in Codes : code[c] = "none"}
UnusedDevices == {d \in Devices : device[d] = "none"}
UnusedSessions == {s \in Sessions : sess[s] = None}

\* Mutant of SortedOrder: the select has no ORDER BY.
UnsortedOrder(P) == Orders(P)

\* ORDER BY Project.id
SortedOrder(P) == {o \in Orders(P) : \A i, j \in DOMAIN o : i < j => o[i] < o[j]}

Begin(r, request) ==
    /\ req[r] = None
    /\ req' = [req EXCEPT ![r] = request]
    /\ UNCHANGED <<tables, lock>>

CreatePairingCode(r) ==
    \E P \in Selections : Begin(r, [NoRequest EXCEPT !.projects = P])

Pair(r, c) ==
    /\ code[c] # "none"
    /\ Begin(r, [NoRequest EXCEPT !.op = "pair", !.at = "code", !.code = c])

\* The refresh token names a session, the access token a device as well.
Refresh(r, s) ==
    /\ sess[s] # None
    /\ Begin(r, [NoRequest EXCEPT !.op = "refresh", !.at = "locate", !.session = s])

Authenticate(r, s) ==
    /\ sess[s] # None
    /\ Begin(r, [NoRequest EXCEPT !.op = "authenticate", !.device = sess[s].device,
                                  !.session = s])

Revoke(r, d) ==
    /\ device[d] # "none"
    /\ Begin(r, [NoRequest EXCEPT !.op = "revoke", !.device = d])

\* The OWNER creates a staff account with its projects, ...
CreateStaff(r, u) ==
    \E P \in Selections \cup {{}} : \E o \in SortedOrder(P) :
        Begin(r, [NoRequest EXCEPT !.op = "staff", !.member = u, !.projects = P, !.order = o,
                                   !.at = IF P = {} THEN "commit" ELSE "project"])

\* ... or replaces the projects of one.
ReplaceProjects(r, u) ==
    /\ member[u] # None
    /\ \E P \in Selections \cup {{}} :
          Begin(r, [NoRequest EXCEPT !.op = "replace", !.at = "member", !.member = u,
                                     !.projects = P])

-----------------------------------------------------------------------------

\* The order in which a transaction locks its rows.
LockAfter(op, label) ==
    CASE label \in {"locate", "code"} -> "owner"
      [] label = "owner"   -> IF op \in {"create", "pair"} THEN "project" ELSE "device"
      [] label = "device"  -> "session"
      [] label = "session" -> "commit"
      [] label = "member"  -> "project"
      [] label = "project" -> IF op = "replace" THEN "delete" ELSE "commit"

Following(r) == LockAfter(req[r].op, req[r].at)

\* Mutant of Locked: the selects have no FOR UPDATE.
NotLocked(r, x) == UNCHANGED <<lock, tables>>

\* SELECT ... FOR UPDATE waits for the holder of the row.
Locked(r, x) ==
    /\ lock[x] = None
    /\ lock' = [lock EXCEPT ![x] = r]
    /\ UNCHANGED tables

\* refresh finds the session and its device without a lock.
Locate(r) ==
    LET s == req[r].session IN
    /\ At(r, {"refresh"}, "locate")
    /\ req' = [req EXCEPT ![r] =
                 [@ EXCEPT !.device = sess[s].device, !.seenSession = sess[s],
                           !.seenDevice = device[sess[s].device], !.at = Following(r)]]
    /\ UNCHANGED <<tables, lock>>

\* Mutant of CodeUsable: used_at is not looked at.
CodeKnown(c) == code[c] # "none"

CodeUsable(c) == code[c] = "unused"

\* pair locks its code and refuses one that was used.
LockCode(r) ==
    LET c == req[r].code IN
    /\ At(r, {"pair"}, "code") /\ lock[c] = None
    /\ IF CodeUsable(c)
       THEN Locked(r, c) /\ req' = [req EXCEPT ![r].at = Following(r)]
       ELSE Rollback(r)

\* The projects create_pairing_code was given, or those of the code pair was given.
SelectedProjects(r) == IF req[r].op = "pair" THEN codeProjects[req[r].code] ELSE req[r].projects

LockOwner(r) ==
    /\ At(r, DeviceOperations, "owner")
    /\ Locked(r, Owner)
    /\ \E o \in Orders(SelectedProjects(r)) :
          req' = [req EXCEPT ![r] = [@ EXCEPT !.at = Following(r), !.order = o,
                                              !.projects = SelectedProjects(r)]]

\* Mutant of LockMember: replace_projects reads the account without a lock.
ReadMember(r) ==
    /\ At(r, {"replace"}, "member")
    /\ \E o \in SortedOrder(req[r].projects) :
          req' = [req EXCEPT ![r] =
                    [@ EXCEPT !.at = IF o = <<>> THEN "delete" ELSE Following(r), !.order = o]]
    /\ UNCHANGED <<tables, lock>>

LockMember(r) ==
    /\ At(r, {"replace"}, "member")
    /\ Locked(r, req[r].member)
    /\ \E o \in SortedOrder(req[r].projects) :
          req' = [req EXCEPT ![r] =
                    [@ EXCEPT !.at = IF o = <<>> THEN "delete" ELSE Following(r), !.order = o]]

\* The rows of the projects are locked in the order the select meets them.
LockProject(r) ==
    LET order == req[r].order IN
    /\ At(r, Operations, "project")
    /\ Locked(r, Head(order))
    /\ req' = [req EXCEPT ![r] =
                 [@ EXCEPT !.order = Tail(order),
                           !.at = IF Tail(order) = <<>> THEN Following(r) ELSE "project"]]

\* Mutant of Reread: without populate_existing the ORM keeps what it has.
RereadNothing(seen, current) == IF seen = None THEN current ELSE seen

Reread(seen, current) == current

LockDevice(r) ==
    LET d == req[r].device IN
    /\ At(r, DeviceOperations, "device")
    /\ Locked(r, d)
    /\ req' = [req EXCEPT ![r] = [@ EXCEPT !.seenDevice = Reread(@, device[d]), !.at = Following(r)]]

\* refresh and authenticate lock the session of the token.
LockSession(r) ==
    LET s == req[r].session IN
    /\ At(r, {"refresh", "authenticate"}, "session")
    /\ Locked(r, s)
    /\ req' = [req EXCEPT ![r] = [@ EXCEPT !.seenSession = Reread(@, sess[s]), !.at = Following(r)]]

\* Mutant of SessionsOf: the select's filter on revoked_at is inverted.
RevokedSessionsOf(d) ==
    {s \in Sessions : sess[s] # None /\ sess[s].device = d /\ sess[s].revoked}

SessionsOf(d) == {s \in Sessions : sess[s] # None /\ sess[s].device = d}

\* revoke ends early for a device that is revoked, else locks its sessions.  One
\* step for all the rows: whoever locks a session holds the OWNER's row, so no
\* other transaction holds some of them.
LockSessions(r) ==
    /\ At(r, {"revoke"}, "session")
    /\ IF req[r].seenDevice = "REVOKED"
       THEN Rollback(r)
       ELSE /\ \A s \in SessionsOf(req[r].device) : lock[s] = None
            /\ lock' = [x \in Rows |-> IF x \in SessionsOf(req[r].device) THEN r ELSE lock[x]]
            /\ req' = [req EXCEPT ![r].at = Following(r)]
            /\ UNCHANGED tables

\* DELETE removes the memberships that are there when it runs.
DeleteMemberships(r) ==
    /\ At(r, {"replace"}, "delete")
    /\ req' = [req EXCEPT ![r] = [@ EXCEPT !.at = "commit", !.seenProjects = member[req[r].member]]]
    /\ UNCHANGED <<tables, lock>>

-----------------------------------------------------------------------------

CommitCode(r) ==
    /\ At(r, {"create"}, "commit")
    /\ \E c \in UnusedCodes :
          /\ code' = [code EXCEPT ![c] = "unused"]
          /\ codeProjects' = [codeProjects EXCEPT ![c] = req[r].projects]
    /\ UNCHANGED <<device, sess, deviceProjects, member>>
    /\ Release(r)

\* Mutant of NewSession: the device's id is read before the flush that sets it.
NewSessionUnflushed(d) == [device |-> None, revoked |-> FALSE]

NewSession(d) == [device |-> d, revoked |-> FALSE]

CommitPair(r) ==
    /\ At(r, {"pair"}, "commit")
    /\ \E d \in UnusedDevices, s \in UnusedSessions :
          /\ code' = [code EXCEPT ![req[r].code] = d]
          /\ device' = [device EXCEPT ![d] = "ACTIVE"]
          /\ deviceProjects' = [deviceProjects EXCEPT ![d] = req[r].projects]
          /\ sess' = [sess EXCEPT ![s] = NewSession(d)]
    /\ UNCHANGED <<codeProjects, member>>
    /\ Release(r)

Refused(r) == req[r].seenDevice = "REVOKED" \/ req[r].seenSession.revoked

CommitRefresh(r) ==
    /\ At(r, {"refresh"}, "commit")
    /\ IF Refused(r)
       THEN Rollback(r)
       ELSE /\ \E s \in UnusedSessions :
                  sess' = [sess EXCEPT ![req[r].session].revoked = TRUE,
                                       ![s] = NewSession(req[r].device)]
            /\ UNCHANGED <<code, device, codeProjects, deviceProjects, member>>
            /\ Release(r)

\* authenticate writes last_used_at alone.  Unless it is refused, the request
\* then acts as the device in transactions of its own, which do not look at
\* revoked_at again (get_device does).
CommitAuthenticate(r) ==
    /\ At(r, {"authenticate"}, "commit")
    /\ Rollback(r)

CommitRevoke(r) ==
    /\ At(r, {"revoke"}, "commit")
    /\ device' = [device EXCEPT ![req[r].device] = "REVOKED"]
    /\ sess' = [s \in Sessions |->
                  IF s \in SessionsOf(req[r].device)
                  THEN [sess[s] EXCEPT !.revoked = TRUE] ELSE sess[s]]
    /\ UNCHANGED <<code, codeProjects, deviceProjects, member>>
    /\ Release(r)

\* The unique username decides between two creations.
CommitStaff(r) ==
    LET u == req[r].member IN
    /\ At(r, {"staff"}, "commit")
    /\ IF member[u] = None
       THEN /\ member' = [member EXCEPT ![u] = req[r].projects]
            /\ UNCHANGED deviceTables
            /\ Release(r)
       ELSE Rollback(r)

CommitReplace(r) ==
    /\ At(r, {"replace"}, "commit")
    /\ member' = [member EXCEPT ![req[r].member] = (@ \ req[r].seenProjects) \cup req[r].projects]
    /\ UNCHANGED deviceTables
    /\ Release(r)

\* A statement fails, the code or the token has expired, a project does not
\* exist, or PostgreSQL ends the request to break a circle of waits.
RequestFail(r) == req[r] # None /\ Rollback(r)

Step(r) ==
    \/ Locate(r) \/ LockCode(r) \/ LockOwner(r) \/ LockDevice(r)
    \/ LockSession(r) \/ LockSessions(r)
    \/ LockMember(r) \/ LockProject(r) \/ DeleteMemberships(r)
    \/ CommitCode(r) \/ CommitPair(r) \/ CommitRefresh(r) \/ CommitAuthenticate(r)
    \/ CommitRevoke(r) \/ CommitStaff(r) \/ CommitReplace(r)

BeginRequest(r) ==
    \/ CreatePairingCode(r)
    \/ \E c \in Codes : Pair(r, c)
    \/ \E s \in Sessions : Refresh(r, s) \/ Authenticate(r, s)
    \/ \E d \in Devices : Revoke(r, d)
    \/ \E u \in Members : CreateStaff(r, u) \/ ReplaceProjects(r, u)

Next == \E r \in Requests : BeginRequest(r) \/ Step(r) \/ RequestFail(r)

Spec == Init /\ [][Next]_vars

-----------------------------------------------------------------------------
(* Properties.                                                             *)

LiveSessions(d) == {s \in Sessions : sess[s] # None /\ sess[s].device = d /\ ~sess[s].revoked}

\* The type invariant of the tables, the locks and the requests.
TypeOK ==
    /\ code \in [Codes -> CodeState]
    /\ device \in [Devices -> DeviceState]
    /\ sess \in [Sessions -> Session \cup {None}]
    /\ codeProjects \in [Codes -> SUBSET Projects]
    /\ deviceProjects \in [Devices -> SUBSET Projects]
    /\ member \in [Members -> (SUBSET Projects) \cup {None}]
    /\ lock \in [Rows -> Requests \cup {None}]
    /\ req \in [Requests -> Request \cup {None}]

\* Two refreshes with the same token, started before either ended, leave one
\* session: a device never has two that are accepted.
OneLiveSession == \A d \in Devices : \A s, t \in LiveSessions(d) : s = t

\* A refresh that found its session before the device was revoked does not
\* open a session after it.
RevokedDeviceHasNoSession ==
    \A d \in Devices : device[d] = "REVOKED" => LiveSessions(d) = {}

\* A pairing code that two workstations send at the same time pairs one: every
\* paired device has a code of its own and the projects the OWNER chose for it.
CodePairsOnce ==
    \A d \in Devices : device[d] # "none" =>
        \E c \in Codes : code[c] = d /\ codeProjects[c] = deviceProjects[d]

\* A request that is about to become an actor has a device that is not revoked
\* and a session neither revoked nor replaced: no revocation or refresh commits
\* between what authenticate reads and its own commit.
ActorIsLive ==
    \A r \in Requests : At(r, {"authenticate"}, "commit") /\ ~Refused(r) =>
        device[req[r].device] = "ACTIVE" /\ ~sess[req[r].session].revoked

\* Two assignments of one account do not mix: each leaves exactly the projects
\* it named, not those of another one that ran at the same time.
AssignedWhole ==
    [][\A u \in Members : member'[u] # member[u] =>
          \E r \in Running : req'[r] = None /\ req[r].member = u
                            /\ member'[u] = req[r].projects]_vars

Contract == INSTANCE DeviceContract WITH
    live <- [d \in Devices |->
               IF LiveSessions(d) = {} THEN None ELSE CHOOSE s \in LiveSessions(d) : TRUE],
    spent <- {s \in Sessions : sess[s] # None},
    paired <- {d \in Devices : device[d] # "none"}

\* Interleaved and interrupted, the transactions look to the connector like
\* the calls of DeviceContract that happen at once.
ContractSpec == Contract!Spec

\* The rows a request is about to lock.
Wanted(r) ==
    IF req[r] = None THEN {}
    ELSE CASE req[r].at = "code"    -> {req[r].code}
           [] req[r].at = "owner"   -> {Owner}
           [] req[r].at = "device"  -> {req[r].device}
           [] req[r].at = "member"  -> {req[r].member}
           [] req[r].at = "project" -> {Head(req[r].order)}
           [] req[r].at = "session" ->
                 IF req[r].op = "revoke" THEN SessionsOf(req[r].device) ELSE {req[r].session}
           [] OTHER -> {}

WaitsFor(r) == {lock[x] : x \in Wanted(r)} \ {None}

Circle(D) == D # {} /\ \A r \in D : WaitsFor(r) \cap D # {}

\* The device operations lock up to five rows each, some in no stated order, and
\* never wait for each other in a circle; nor do the assignments of projects.
\* Only a code or a pairing and an assignment can, over two project rows.
NoLockCycle ==
    \A D \in SUBSET Requests : Circle(D) =>
        /\ \E r \in D : req[r].op \in {"create", "pair"}
        /\ \E r \in D : req[r].op \in MemberOperations
=============================================================================
